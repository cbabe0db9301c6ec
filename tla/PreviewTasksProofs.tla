------------------------- MODULE PreviewTasksProofs -------------------------
(***************************************************************************)
(* The safety properties of PreviewTasks, for every number of bodies,      *)
(* tasks, mutations, faults and every limit of the queue.                  *)
(***************************************************************************)
EXTENDS PreviewTasks, FiniteSetTheorems, TLAPS

MaybeBody == Bodies \cup {NoBody}
Origins   == Tasks \cup {"mutation", "backfill", "delivery"}
Jobs      == [digest : Bodies, html : MaybeBody, from : Origins]

Lanes ==
  [at : {"off", "pick", "find", "read", "ensure", "render", "persist", "sweep", "stored", "nothing"},
   digest : MaybeBody, html : MaybeBody, from : Origins \cup {"none"}, row : MaybeBody]

Runners ==
  [at : {"none", "create", "mark", "find", "read", "remove", "enqueue", "wait", "complete", "fail"},
   digest : MaybeBody, html : MaybeBody, row : MaybeBody]

TaskFiles == [status : {"absent", "working"} \cup Terminal, result : MaybeBody]

ArtifactType == body \in MaybeBody /\ changes \in Nat /\ unscheduled \subseteq Nat \X Bodies
PictureType  == png \in [Bodies -> MaybeBody] /\ cache \in [Bodies -> MaybeBody]
QueueType    == high \in Seq(Jobs) /\ low \in Seq(Jobs) /\ reserved \in Int
LaneType     == lane \in Lanes /\ backfill \in MaybeBody
TaskType     == tasks \in [Tasks -> TaskFiles] /\ runner \in [Tasks -> Runners]
HistoryType  == mixed \subseteq Bodies /\ excused \subseteq Bodies

TypeOK ==
  /\ up \in BOOLEAN /\ ArtifactType /\ PictureType /\ QueueType /\ LaneType /\ TaskType
  /\ HistoryType

-----------------------------------------------------------------------------
(* The inductive invariant *)

\* The lane holds a job.
Busy == lane.at \notin {"off", "pick"}

\* The queue's limits, and no job waits while no lane runs.
QueueLimits ==
  /\ Len(high) + Len(low) <= MaxPending /\ reserved <= MaxPendingBytes
  /\ lane.at = "off" => high = <<>> /\ low = <<>>

\* A picture for digest d that may show body h.
Shows(d, h) == h \in {NoBody, d} \/ d \in mixed

\* Whatever carries a picture or a body for a digest.
ShowsInv ==
  /\ \A d \in Bodies : Shows(d, png[d]) /\ Shows(d, cache[d])
  /\ \A i \in DOMAIN high : Shows(high[i].digest, high[i].html)
  /\ \A i \in DOMAIN low : low[i].html = NoBody
  /\ Shows(lane.digest, lane.html) /\ (lane.at = "read" => lane.row = lane.digest)
  /\ \A t \in Tasks : /\ Shows(runner[t].digest, runner[t].html)
                      /\ runner[t].at = "read" => runner[t].row = runner[t].digest
                      /\ runner[t].at \in {"none", "create", "mark", "find", "read"} =>
                           runner[t].html = NoBody

\* A task has at most one job, and waits for it.
JobInv ==
  /\ \A i \in DOMAIN high : high[i].from \in Tasks =>
       /\ runner[high[i].from].at = "wait"
       /\ \A j \in DOMAIN high : high[j].from = high[i].from => j = i
       /\ Busy => lane.from # high[i].from
  /\ \A i \in DOMAIN low : low[i].from \notin Tasks
  /\ Busy /\ lane.from \in Tasks => runner[lane.from].at = "wait"
  /\ \A i \in DOMAIN high : high[i].html # NoBody => high[i].from \notin Deferred
  /\ Busy => lane.digest \in Bodies
  /\ lane.at \in {"render", "persist"} => lane.html # NoBody
  /\ \A t \in Tasks : runner[t].at \in {"read", "remove", "enqueue"} => runner[t].digest \in Bodies

\* Nothing runs while the process is down.
DownInv ==
  ~up => /\ unscheduled = {} /\ lane.at = "off" /\ backfill = NoBody
         /\ \A t \in Tasks : runner[t].at = "none"

\* A mutation to body b is still to be scheduled, or its job waits.
Queued(b) == (\E u \in unscheduled : u[2] = b) \/ (\E i \in DOMAIN high : high[i].digest = b)

\* The lane has a job that still leads to a picture or to a sweep.
Rendering == lane.at \in {"read", "render", "persist"} \/ (lane.at = "ensure" /\ lane.html # NoBody)

\* What leads to a picture of body b, other than the lane's job, and that job.
Elsewhere(b) ==
  \/ Queued(b)
  \/ \E i \in DOMAIN low : low[i].digest = b
  \/ backfill = b
  \/ \E t \in Tasks : runner[t].digest = b /\ runner[t].at = "enqueue"

InLane(b) == lane.digest = b /\ (lane.at = "find" \/ Rendering)

\* The job of a mutation or of the backfill that the lane has loaded is of the current body,
\* or the mutation that replaced it is queued after it.
LaneOrder ==
  (Rendering \/ lane.at = "sweep") /\ lane.from \in Deferred /\ lane.digest # body
    /\ body # NoBody => Queued(body) \/ body \in excused

\* The current body has its picture, or something leads to it.
GalleryInv ==
  up /\ body # NoBody =>
    png[body] # NoBody \/ body \in excused \/ Elsewhere(body) \/ InLane(body)

IndInv ==
  /\ TypeOK /\ QueueLimits /\ ShowsInv /\ JobInv /\ DownInv
  /\ LaneOrder /\ GalleryInv
  /\ removal => body = NoBody
  /\ \A t \in Tasks : runner[t].at = "create" => tasks[t] = NoTask

\* A lookup that is under way is for a body, in a process that is up.
Lookups == [at : {"none", "read", "enqueue"}, digest : MaybeBody]
LookupInv ==
  /\ lookup \in [Workers -> Lookups]
  /\ \A w \in Workers : lookup[w].at # "none" => up /\ lookup[w].digest \in Bodies

-----------------------------------------------------------------------------
(* The queue *)

\* Leaves are left to Zenon unless they name another backend.
USE ZenonT(30)

\* A job joins the end of a queue.
LEMMA AppendJobs ==
  ASSUME NEW s \in Seq(Jobs), NEW job \in Jobs, NEW r, r = Append(s, job)
  PROVE  /\ r \in Seq(Jobs) /\ Len(r) = Len(s) + 1 /\ Len(s) \in Nat
         /\ DOMAIN r = DOMAIN s \cup {Len(s) + 1} /\ Len(s) + 1 \notin DOMAIN s
         /\ r[Len(s) + 1] = job /\ \A i \in DOMAIN s : r[i] = s[i]
BY SMTT(20)

\* The first job leaves it.
LEMMA TailJobs ==
  ASSUME NEW s \in Seq(Jobs), s # <<>>, NEW r, r = Tail(s)
  PROVE  /\ Head(s) \in Jobs /\ 1 \in DOMAIN s /\ Head(s) = s[1]
         /\ r \in Seq(Jobs) /\ Len(r) = Len(s) - 1 /\ Len(s) \in Nat
         /\ \A i \in DOMAIN r : i + 1 \in DOMAIN s /\ r[i] = s[i + 1] /\ i \in Int /\ i + 1 # 1
         /\ \A i \in DOMAIN s : i # 1 => i - 1 \in DOMAIN r /\ r[i - 1] = s[i]
BY SMTT(20)

\* Two positions that the same dequeue shifts to one position are the same.
LEMMA SameShift ==
  ASSUME NEW a \in Int, NEW b \in Int, NEW c \in {0, 1}, a + c = b + c
  PROVE  a = b
BY SMTT(20)

\* The lane that try_enqueue leaves behind: a running one is not touched.
LEMMA StartedLane ==
  ASSUME lane \in Lanes, lane' = StartLane
  PROVE  /\ lane' \in Lanes /\ lane'.at # "off"
         /\ \/ lane' = lane
            \/ ~Busy /\ lane'.at = "pick" /\ lane'.html = NoBody
<1>1. CASE lane.at = "off"
  <2>1. lane' = [at |-> "pick", digest |-> NoBody, html |-> NoBody, from |-> "none", row |-> NoBody]
    BY <1>1 DEF StartLane, Off
  <2>2. ~Busy
    BY <1>1 DEF Busy
  <2> QED BY <2>1, <2>2, SMTT(20) DEF Lanes, MaybeBody, Origins
<1>2. CASE lane.at # "off"
  BY <1>2 DEF StartLane
<1> QED BY <1>1, <1>2

\* try_enqueue: the limits are kept, and the job waits at the end of its queue.
LEMMA AdmitFacts ==
  ASSUME IndInv, NEW job \in Jobs, NEW p \in {"high", "low"}, Admit(job, p)
  PROVE  /\ QueueType' /\ QueueLimits' /\ lane' \in Lanes
         /\ lane' = lane \/ (~Busy /\ lane'.at = "pick" /\ lane'.html = NoBody)
         /\ IF p = "high"
            THEN /\ low' = low /\ DOMAIN high' = DOMAIN high \cup {Len(high) + 1}
                 /\ Len(high) + 1 \notin DOMAIN high /\ high'[Len(high) + 1] = job
                 /\ \A i \in DOMAIN high : high'[i] = high[i]
            ELSE /\ high' = high /\ DOMAIN low' = DOMAIN low \cup {Len(low) + 1}
                 /\ Len(low) + 1 \notin DOMAIN low /\ low'[Len(low) + 1] = job
                 /\ \A i \in DOMAIN low : low'[i] = low[i]
<1>0. /\ high \in Seq(Jobs) /\ low \in Seq(Jobs) /\ reserved \in Int /\ lane \in Lanes
      /\ job.digest \in Bodies /\ Bytes[job.digest] \in Nat
  BY PreviewAssumption DEF IndInv, TypeOK, QueueType, LaneType, Jobs
<1>1. /\ Len(high) + Len(low) < MaxPending /\ reserved + Bytes[job.digest] <= MaxPendingBytes
      /\ reserved' = reserved + Bytes[job.digest] /\ lane' = StartLane
  BY DEF Admit, HasRoom
<1>2. /\ lane' \in Lanes /\ lane'.at # "off"
      /\ lane' = lane \/ (~Busy /\ lane'.at = "pick" /\ lane'.html = NoBody)
  BY <1>0, <1>1, StartedLane
<1>3. CASE p = "high"
  <2>1. high' = Append(high, job) /\ low' = low
    BY <1>3 DEF Admit
  <2>2. /\ high' \in Seq(Jobs) /\ Len(high') = Len(high) + 1 /\ Len(high) \in Nat
        /\ DOMAIN high' = DOMAIN high \cup {Len(high) + 1} /\ Len(high) + 1 \notin DOMAIN high
        /\ high'[Len(high) + 1] = job /\ \A i \in DOMAIN high : high'[i] = high[i]
    BY <1>0, <2>1, AppendJobs, SMTT(20)
  <2>3. QueueType'
    BY <1>0, <1>1, <2>1, <2>2, SMTT(20) DEF QueueType
  <2>4. QueueLimits'
    BY PreviewAssumption, <1>0, <1>1, <1>2, <2>1, <2>2, SMTT(20) DEF QueueLimits
  <2> QED BY <1>2, <1>3, <2>1, <2>2, <2>3, <2>4
<1>4. CASE p = "low"
  <2>1. low' = Append(low, job) /\ high' = high
    BY <1>4 DEF Admit
  <2>2. /\ low' \in Seq(Jobs) /\ Len(low') = Len(low) + 1 /\ Len(low) \in Nat
        /\ DOMAIN low' = DOMAIN low \cup {Len(low) + 1} /\ Len(low) + 1 \notin DOMAIN low
        /\ low'[Len(low) + 1] = job /\ \A i \in DOMAIN low : low'[i] = low[i]
    BY <1>0, <2>1, AppendJobs, SMTT(20)
  <2>3. QueueType'
    BY <1>0, <1>1, <2>1, <2>2, SMTT(20) DEF QueueType
  <2>4. QueueLimits'
    BY ONLY PreviewAssumption, <1>0, <1>1, <1>2, <2>1, <2>2, SMTT(20) DEF QueueLimits
  <2> QED BY <1>2, <1>4, <2>1, <2>2, <2>3, <2>4
<1> QED BY <1>3, <1>4

-----------------------------------------------------------------------------
(* Steps of spawned tasks *)

\* A step of task t that leaves the queue and the lane alone.
LEMMA RunnerStep ==
  ASSUME IndInv, up, UNCHANGED <<up, artifact, unscheduled, removal, cache, backfill, queue, lane>>,
         NEW t \in Tasks, NEW r \in Runners, runner' = [runner EXCEPT ![t] = r],
         runner[t].at # "wait" \/ r = runner[t],
         Shows(r.digest, r.html)', r.at = "read" => r.row = r.digest,
         r.at \in {"none", "create", "mark", "find", "read"} => r.html = NoBody,
         r.at \in {"read", "remove", "enqueue"} => r.digest \in Bodies,
         r.at = "create" => tasks'[t] = NoTask,
         tasks' \in [Tasks -> TaskFiles], \A s \in Tasks \ {t} : tasks'[s] = tasks[s],
         png' \in [Bodies -> MaybeBody], \A d \in Bodies : Shows(d, png[d])',
         mixed \subseteq mixed', mixed' \subseteq Bodies,
         excused \subseteq excused', excused' \subseteq Bodies,
         body # NoBody /\ png[body] # NoBody =>
           \/ png'[body] # NoBody \/ body \in excused'
           \/ r.digest = body /\ r.at = "enqueue",
         runner[t].digest = body /\ runner[t].at = "enqueue" /\ body # NoBody =>
           \/ body \in excused'
           \/ r.digest = body /\ r.at = "enqueue"
  PROVE  IndInv'
<1>0. /\ UNCHANGED <<up, body, changes, unscheduled, removal, cache, backfill, high, low,
                     reserved, lane>>
      /\ runner \in [Tasks -> Runners]
  BY DEF artifact, queue, IndInv, TypeOK, TaskType
<1>1. /\ runner' \in [Tasks -> Runners] /\ runner'[t] = r
      /\ \A s \in Tasks \ {t} : runner'[s] = runner[s]
  BY <1>0
<1>2. TypeOK'
  BY <1>0, <1>1 DEF IndInv, TypeOK, ArtifactType, PictureType, QueueType, LaneType, TaskType, HistoryType
<1>3. QueueLimits' /\ DownInv' /\ (removal => body = NoBody)'
  BY <1>0, SMTT(20) DEF IndInv, QueueLimits, DownInv
<1>4. \A d, h : Shows(d, h) => Shows(d, h)'
  BY DEF Shows
<1>5. ShowsInv'
  <2>1. Shows(lane.digest, lane.html)' /\ (lane.at = "read" => lane.row = lane.digest)'
    BY <1>0, <1>4 DEF IndInv, ShowsInv, Shows
  <2>2. \A d \in Bodies : Shows(d, cache[d])'
    BY <1>0, <1>4 DEF IndInv, ShowsInv, Shows
  <2>3. \A i \in DOMAIN high' : Shows(high[i].digest, high[i].html)'
    BY <1>0, <1>4 DEF IndInv, ShowsInv, Shows
  <2>4. ASSUME NEW s \in Tasks
        PROVE  /\ Shows(runner[s].digest, runner[s].html)'
               /\ runner'[s].at = "read" => runner'[s].row = runner'[s].digest
               /\ runner'[s].at \in {"none", "create", "mark", "find", "read"} =>
                    runner'[s].html = NoBody
    <3>1. CASE s = t
      BY <1>1, <3>1 DEF Shows
    <3>2. CASE s # t
      BY <1>1, <1>4, <3>2 DEF IndInv, ShowsInv, Shows
    <3> QED BY <3>1, <3>2
  <2>5. \A i \in DOMAIN low' : low'[i].html = NoBody
    BY <1>0 DEF IndInv, ShowsInv
  <2> QED BY <2>1, <2>2, <2>3, <2>4, <2>5 DEF ShowsInv
<1>6. JobInv'
  <2>1. \A s \in Tasks : runner[s].at = "wait" => runner'[s].at = "wait"
    BY <1>1
  <2>2. \A s \in Tasks : runner'[s].at \in {"read", "remove", "enqueue"} => runner'[s].digest \in Bodies
    BY <1>1 DEF IndInv, JobInv
  <2> QED BY <1>0, <2>1, <2>2 DEF IndInv, JobInv, Busy
<1>7. LaneOrder'
  BY <1>0 DEF IndInv, LaneOrder, Rendering, Queued
<1>8. GalleryInv'
  <2> SUFFICES ASSUME body # NoBody
               PROVE  png'[body] # NoBody \/ body \in excused' \/ Elsewhere(body)' \/ InLane(body)'
    BY <1>0 DEF GalleryInv
  <2>1. InLane(body) => InLane(body)'
    BY <1>0 DEF InLane, Rendering
  <2>2. r.digest = body /\ r.at = "enqueue" => Elsewhere(body)'
    BY <1>0, <1>1 DEF Elsewhere
  <2>3. Elsewhere(body) => Elsewhere(body)' \/ body \in excused'
    BY <1>0, <1>1, <2>2 DEF Elsewhere, Queued
  <2> QED BY <2>1, <2>2, <2>3 DEF IndInv, GalleryInv
<1>9. \A s \in Tasks : runner'[s].at = "create" => tasks'[s] = NoTask
  BY <1>1 DEF IndInv
<1> QED BY <1>2, <1>3, <1>5, <1>6, <1>7, <1>8, <1>9 DEF IndInv

\* A step of task t that touches no preview and reads no body.
LEMMA TaskStep ==
  ASSUME IndInv, up, UNCHANGED <<up, artifact, unscheduled, removal, cache, backfill, queue, lane, png>>,
         UNCHANGED history,
         NEW t \in Tasks, NEW r \in Runners, runner' = [runner EXCEPT ![t] = r],
         runner[t].at \notin {"wait", "enqueue"} \/ r = runner[t],
         r.at \notin {"read", "remove", "enqueue"} \/ r = runner[t],
         r.html = runner[t].html \/ r.html = NoBody,
         r.digest = runner[t].digest \/ r.html = NoBody,
         r.at \in {"none", "create", "mark", "find"} => r.html = NoBody,
         r.at = "create" => tasks'[t] = NoTask,
         tasks' \in [Tasks -> TaskFiles], \A s \in Tasks \ {t} : tasks'[s] = tasks[s]
  PROVE  IndInv'
<1>0. /\ UNCHANGED <<mixed, excused>> /\ png \in [Bodies -> MaybeBody]
      /\ mixed \subseteq Bodies /\ excused \subseteq Bodies
  BY DEF history, IndInv, TypeOK, PictureType, HistoryType
<1>1. /\ Shows(runner[t].digest, runner[t].html)
      /\ runner[t].at = "read" => runner[t].row = runner[t].digest /\ runner[t].html = NoBody
      /\ \A d \in Bodies : Shows(d, png[d])
  BY DEF IndInv, ShowsInv
<1>2. runner[t].at \in {"read", "remove", "enqueue"} => runner[t].digest \in Bodies
  BY DEF IndInv, JobInv
<1>3. Shows(r.digest, r.html)' /\ \A d \in Bodies : Shows(d, png[d])'
  BY <1>0, <1>1 DEF Shows
<1>4. /\ runner[t].at # "wait" \/ r = runner[t]
      /\ r.at = "read" => r.row = r.digest
      /\ r.at \in {"none", "create", "mark", "find", "read"} => r.html = NoBody
      /\ r.at \in {"read", "remove", "enqueue"} => r.digest \in Bodies
  BY <1>1, <1>2
<1>5. runner[t].at = "enqueue" => r.digest = runner[t].digest /\ r.at = runner[t].at
  OBVIOUS
<1> QED BY <1>0, <1>3, <1>4, <1>5, RunnerStep

\* The spawned task goes on, or ends.
LEMMA RunFacts ==
  ASSUME runner \in [Tasks -> Runners], NEW t \in Tasks,
         NEW at \in {"create", "mark", "find", "enqueue", "complete", "fail"}, Run(t, at)
  PROVE  \E r \in Runners : /\ runner' = [runner EXCEPT ![t] = r] /\ r.at = at
                            /\ r.digest = runner[t].digest /\ r.html = runner[t].html
<1> DEFINE r == [runner[t] EXCEPT !.at = at, !.row = NoBody]
<1>1. runner[t] \in Runners /\ NoBody \in MaybeBody
  BY DEF MaybeBody
<1>2. /\ r \in Runners /\ r.at = at /\ r.digest = runner[t].digest /\ r.html = runner[t].html
  BY <1>1 DEF Runners
<1>3. runner' = [runner EXCEPT ![t] = r]
  BY DEF Run
<1> HIDE DEF r
<1> QED BY <1>2, <1>3

LEMMA EndFacts ==
  ASSUME NEW t \in Tasks, End(t)
  PROVE  NoRunner \in Runners /\ runner' = [runner EXCEPT ![t] = NoRunner]
         /\ NoRunner.at = "none" /\ NoRunner.html = NoBody /\ NoRunner.digest = NoBody
BY DEF End, NoRunner, Runners, MaybeBody

\* transition touches one task file.
LEMMA TransitionFacts ==
  ASSUME tasks \in [Tasks -> TaskFiles], NEW t \in Tasks, NEW status \in Terminal,
         NEW result \in MaybeBody, Transition(t, status, result)
  PROVE  /\ tasks' \in [Tasks -> TaskFiles] /\ \A s \in Tasks \ {t} : tasks'[s] = tasks[s]
         /\ tasks[t].status \in Terminal => tasks'[t] = tasks[t]
<1>1. [status |-> status, result |-> result] \in TaskFiles
  BY DEF TaskFiles
<1> QED BY <1>1 DEF Transition

\* A request for a task, and its cancellation.
LEMMA TaskRequestInv ==
  ASSUME IndInv, NEW t \in Tasks, TaskRequest(t)
  PROVE  IndInv'
<1>0. /\ UNCHANGED <<up, artifact, unscheduled, removal, cache, backfill, queue, lane, png, history>>
      /\ tasks \in [Tasks -> TaskFiles] /\ runner \in [Tasks -> Runners] /\ up
  BY DEF TaskRequest, RequestTask, RequestSync, CancelTask, IndInv, TypeOK, TaskType
<1>1. CASE RequestTask(t) \/ RequestSync(t)
  <2>0. /\ tasks[t] = NoTask /\ runner[t] = NoRunner /\ UNCHANGED tasks
        /\ \E at \in {"create", "find"} : Run(t, at)
    BY <1>1 DEF RequestTask, RequestSync
  <2>1. PICK at \in {"create", "find"} : Run(t, at)
    BY <2>0
  <2>2. PICK r \in Runners : /\ runner' = [runner EXCEPT ![t] = r] /\ r.at = at
                             /\ r.digest = runner[t].digest /\ r.html = runner[t].html
    <3>1. at \in {"create", "mark", "find", "enqueue", "complete", "fail"}
      BY <2>1
    <3> QED BY <1>0, <2>1, <3>1, RunFacts
  <2>3. runner[t].at = "none" /\ runner[t].html = NoBody /\ r.at \notin {"wait", "read", "remove", "enqueue"}
    BY <2>0, <2>1, <2>2, SMTT(20) DEF NoRunner
  <2> QED BY <1>0, <2>0, <2>2, <2>3, TaskStep
<1>2. CASE CancelTask(t)
  <2>1. tasks[t] # NoTask /\ Transition(t, "cancelled", NoBody) /\ UNCHANGED runner
    BY <1>2 DEF CancelTask
  <2>2. /\ tasks' \in [Tasks -> TaskFiles] /\ \A s \in Tasks \ {t} : tasks'[s] = tasks[s]
    BY <1>0, <2>1, TransitionFacts DEF Terminal, MaybeBody
  <2>3. /\ runner[t] \in Runners /\ runner' = [runner EXCEPT ![t] = runner[t]]
        /\ runner[t].at # "create"
    BY <1>0, <2>1 DEF IndInv
  <2>4. runner[t].at \in {"none", "mark", "find"} => runner[t].html = NoBody
    BY DEF IndInv, ShowsInv
  <2> QED BY <1>0, <2>2, <2>3, <2>4, TaskStep
<1> QED BY <1>1, <1>2 DEF TaskRequest

\* The spawned task up to its look at the artifact, and after its answer.
LEMMA RunTaskInv ==
  ASSUME IndInv, NEW t \in Tasks,
         CreateTask(t) \/ MarkRunning(t) \/ SettleTask(t),
         UNCHANGED <<up, artifact, unscheduled, removal, cache, backfill>>
  PROVE  IndInv'
<1>0. /\ UNCHANGED <<queue, lane, png, history>>
      /\ runner[t].at \in {"create", "mark", "complete", "fail"}
      /\ tasks \in [Tasks -> TaskFiles] /\ runner \in [Tasks -> Runners]
  BY DEF CreateTask, MarkRunning, SettleTask, GiveUp, IndInv, TypeOK, TaskType
<1>1. up
  BY <1>0 DEF IndInv, DownInv
<1>2. runner[t].at \in {"create", "mark"} => runner[t].html = NoBody
  BY DEF IndInv, ShowsInv
<1>3. ASSUME End(t), tasks' \in [Tasks -> TaskFiles], \A s \in Tasks \ {t} : tasks'[s] = tasks[s]
      PROVE  IndInv'
  BY <1>0, <1>1, <1>3, EndFacts, TaskStep
<1>4. ASSUME NEW at \in {"mark", "find"}, Run(t, at), tasks' \in [Tasks -> TaskFiles],
             \A s \in Tasks \ {t} : tasks'[s] = tasks[s], runner[t].at \in {"create", "mark"}
      PROVE  IndInv'
  <2>1. PICK r \in Runners : /\ runner' = [runner EXCEPT ![t] = r] /\ r.at = at
                             /\ r.digest = runner[t].digest /\ r.html = runner[t].html
    BY <1>0, <1>4, RunFacts, SMTT(20)
  <2> QED BY <1>0, <1>1, <1>2, <1>4, <2>1, TaskStep
<1>5. CASE CreateTask(t)
  <2>1. [status |-> "working", result |-> NoBody] \in TaskFiles
    BY DEF TaskFiles, MaybeBody
  <2>2. tasks' \in [Tasks -> TaskFiles] /\ \A s \in Tasks \ {t} : tasks'[s] = tasks[s]
    BY <1>0, <1>5, <2>1 DEF CreateTask
  <2>3. runner[t].at = "create" /\ (Run(t, "mark") \/ End(t))
    BY <1>5 DEF CreateTask
  <2> QED BY <1>3, <1>4, <2>2, <2>3
<1>6. CASE MarkRunning(t)
  <2>1. runner[t].at = "mark" /\ UNCHANGED tasks /\ (Run(t, "find") \/ End(t))
    BY <1>6 DEF MarkRunning, GiveUp
  <2> QED BY <1>0, <1>3, <1>4, <2>1
<1>7. CASE SettleTask(t)
  <2>1. runner[t].digest \in MaybeBody /\ NoBody \in MaybeBody
    BY <1>0 DEF Runners, MaybeBody
  <2>2. /\ End(t)
        /\ \/ UNCHANGED tasks
           \/ \E s \in Terminal, x \in MaybeBody : Transition(t, s, x)
    BY <1>7, <2>1 DEF SettleTask, GiveUp, Terminal
  <2>3. tasks' \in [Tasks -> TaskFiles] /\ \A s \in Tasks \ {t} : tasks'[s] = tasks[s]
    BY <1>0, <2>2, TransitionFacts
  <2> QED BY <1>3, <2>2, <2>3
<1> QED BY <1>5, <1>6, <1>7

\* A handler that regenerates without a task answers, or is dropped.
LEMMA EndSyncInv ==
  ASSUME IndInv, NEW t \in Tasks, EndSync(t),
         UNCHANGED <<up, artifact, unscheduled, removal, cache, backfill>>
  PROVE  IndInv'
<1>0. /\ UNCHANGED <<queue, lane, png, tasks>> /\ End(t)
      /\ runner[t].at \in {"complete", "fail", "find", "read", "remove", "enqueue"}
      /\ tasks \in [Tasks -> TaskFiles] /\ runner \in [Tasks -> Runners]
  BY DEF EndSync, IndInv, TypeOK, TaskType
<1>1. up
  BY <1>0 DEF IndInv, DownInv
<1>2. NoRunner \in Runners /\ runner' = [runner EXCEPT ![t] = NoRunner]
  BY <1>0, EndFacts
<1>3. NoRunner.at = "none" /\ NoRunner.html = NoBody
  BY SMTT(20) DEF NoRunner
<1>4. CASE runner[t].at # "enqueue"
  <2>1. UNCHANGED history
    BY <1>4 DEF EndSync
  <2> QED BY <1>0, <1>1, <1>2, <1>3, <1>4, <2>1, TaskStep
<1>5. CASE runner[t].at = "enqueue"
  <2>1. mixed' = mixed /\ excused' = excused \cup {runner[t].digest} /\ png' = png
    BY <1>0, <1>5 DEF EndSync, Lost
  <2>2. runner[t].digest \in Bodies /\ mixed \subseteq Bodies /\ excused \subseteq Bodies
    BY <1>5 DEF IndInv, JobInv, TypeOK, HistoryType
  <2>3. /\ png' \in [Bodies -> MaybeBody] /\ \A d \in Bodies : Shows(d, png[d])'
        /\ Shows(NoRunner.digest, NoRunner.html)'
    BY <1>3, <2>1 DEF IndInv, TypeOK, PictureType, ShowsInv, Shows
  <2>4. /\ mixed \subseteq mixed' /\ mixed' \subseteq Bodies
        /\ excused \subseteq excused' /\ excused' \subseteq Bodies /\ runner[t].digest \in excused'
    BY <2>1, <2>2
  <2>5. /\ UNCHANGED <<up, artifact, unscheduled, removal, cache, backfill, queue, lane>>
        /\ tasks' \in [Tasks -> TaskFiles] /\ \A s \in Tasks \ {t} : tasks'[s] = tasks[s]
    BY <1>0
  <2> QED BY <1>1, <1>2, <1>3, <1>5, <2>1, <2>3, <2>4, <2>5, RunnerStep
<1> QED BY <1>4, <1>5

\* preview_source looks at the row.
LEMMA FindSourceInv ==
  ASSUME IndInv, NEW t \in Tasks, FindSource(t),
         UNCHANGED <<up, artifact, unscheduled, removal, cache, backfill>>
  PROVE  IndInv'
<1>0. /\ UNCHANGED <<queue, lane, png, history, tasks>> /\ runner[t].at = "find"
      /\ tasks \in [Tasks -> TaskFiles] /\ runner \in [Tasks -> Runners] /\ body \in MaybeBody
      /\ runner[t] \in Runners
  BY DEF FindSource, IndInv, TypeOK, TaskType, ArtifactType
<1>1. up
  BY <1>0 DEF IndInv, DownInv
<1>2. runner[t].html = NoBody
  BY <1>0 DEF IndInv, ShowsInv
<1>3. CASE Run(t, "fail")
  <2>1. PICK r \in Runners : /\ runner' = [runner EXCEPT ![t] = r] /\ r.at = "fail"
                             /\ r.digest = runner[t].digest /\ r.html = runner[t].html
    BY <1>0, <1>3, RunFacts
  <2> QED BY <1>0, <1>1, <1>2, <2>1, TaskStep
<1>4. CASE ~Run(t, "fail")
  <2>1. body # NoBody
    BY <1>4 DEF FindSource
  <2>2. PICK r \in Runners : /\ runner' = [runner EXCEPT ![t] = r] /\ r.at = "read" /\ r.digest = body
                             /\ r.row = body /\ r.html = NoBody
    <3> DEFINE q == [runner[t] EXCEPT !.at = "read", !.digest = body, !.row = body]
    <3>1. runner' = [runner EXCEPT ![t] = q]
      BY <1>4 DEF FindSource
    <3>2. q \in Runners /\ q.at = "read" /\ q.digest = body /\ q.row = body /\ q.html = NoBody
      BY <1>0, <1>2 DEF Runners
    <3> HIDE DEF q
    <3> QED BY <3>1, <3>2
  <2>3. body \in Bodies
    BY <1>0, <2>1 DEF MaybeBody
  <2>4. /\ png' \in [Bodies -> MaybeBody] /\ UNCHANGED <<mixed, excused>>
        /\ mixed \subseteq Bodies /\ excused \subseteq Bodies /\ png' = png
    BY <1>0 DEF IndInv, TypeOK, PictureType, HistoryType, history
  <2>5. Shows(r.digest, r.html)' /\ \A d \in Bodies : Shows(d, png[d])'
    BY <1>0, <2>2, <2>4 DEF IndInv, ShowsInv, Shows
  <2> QED BY <1>0, <1>1, <2>1, <2>2, <2>3, <2>4, <2>5, RunnerStep
<1> QED BY <1>3, <1>4

\* preview_source reads the body: what a mutation has replaced since is in mixed.
LEMMA ReadSourceInv ==
  ASSUME IndInv, NEW t \in Tasks, ReadSource(t),
         UNCHANGED <<up, artifact, unscheduled, removal, cache, backfill>>
  PROVE  IndInv'
<1>0. /\ UNCHANGED <<queue, lane, png, tasks, excused>> /\ runner[t].at = "read"
      /\ tasks \in [Tasks -> TaskFiles] /\ runner \in [Tasks -> Runners] /\ body \in MaybeBody
      /\ runner[t] \in Runners
  BY DEF ReadSource, IndInv, TypeOK, TaskType, ArtifactType
<1>1. up
  BY <1>0 DEF IndInv, DownInv
<1>2. runner[t].html = NoBody /\ runner[t].row = runner[t].digest
  BY <1>0 DEF IndInv, ShowsInv
<1>3. CASE Run(t, "fail") /\ UNCHANGED mixed
  <2>1. PICK r \in Runners : /\ runner' = [runner EXCEPT ![t] = r] /\ r.at = "fail"
                             /\ r.digest = runner[t].digest /\ r.html = runner[t].html
    BY <1>0, <1>3, RunFacts
  <2>2. UNCHANGED history
    BY <1>0, <1>3 DEF history
  <2> QED BY <1>0, <1>1, <1>2, <2>1, <2>2, TaskStep
<1>4. CASE ~(Run(t, "fail") /\ UNCHANGED mixed)
  <2>1. body # NoBody /\ Mix(runner[t].digest, runner[t].row)
    BY <1>4 DEF ReadSource
  <2>2. PICK r \in Runners : /\ runner' = [runner EXCEPT ![t] = r] /\ r.at = "remove"
                             /\ r.digest = runner[t].digest /\ r.html = body
    <3> DEFINE q == [runner[t] EXCEPT !.at = "remove", !.html = body, !.row = NoBody]
    <3>1. runner' = [runner EXCEPT ![t] = q] /\ NoBody \in MaybeBody
      BY <1>4 DEF ReadSource, MaybeBody
    <3>2. q \in Runners /\ q.at = "remove" /\ q.digest = runner[t].digest /\ q.html = body
      BY <1>0, <1>2, <3>1 DEF Runners
    <3> HIDE DEF q
    <3> QED BY <3>1, <3>2
  <2>3. runner[t].digest \in Bodies
    BY <1>0 DEF IndInv, JobInv
  <2>4. /\ mixed \subseteq mixed' /\ mixed' \subseteq Bodies
        /\ body = runner[t].digest \/ runner[t].digest \in mixed'
    BY <1>2, <2>1, <2>3 DEF Mix, IndInv, TypeOK, HistoryType
  <2>5. /\ png' \in [Bodies -> MaybeBody] /\ excused' = excused
        /\ excused \subseteq Bodies /\ png' = png
    BY <1>0 DEF IndInv, TypeOK, PictureType, HistoryType
  <2>6. Shows(r.digest, r.html)'
    BY <2>2, <2>4 DEF Shows
  <2>7. \A d \in Bodies : Shows(d, png[d])'
    BY <2>4, <2>5 DEF IndInv, ShowsInv, Shows
  <2> QED BY <1>0, <1>1, <2>1, <2>2, <2>3, <2>4, <2>5, <2>6, <2>7, RunnerStep
<1> QED BY <1>3, <1>4

\* regenerate removes what is stored: for another body than the task's, it is excused.
LEMMA RemoveStoredInv ==
  ASSUME IndInv, NEW t \in Tasks, RemoveStored(t),
         UNCHANGED <<up, artifact, unscheduled, removal, cache, backfill>>
  PROVE  IndInv'
<1>0. /\ UNCHANGED <<queue, lane, tasks, mixed>> /\ runner[t].at = "remove"
      /\ tasks \in [Tasks -> TaskFiles] /\ runner \in [Tasks -> Runners] /\ body \in MaybeBody
      /\ png' = NoPngs /\ excused' = excused \cup TakenFrom(runner[t].digest) /\ Run(t, "enqueue")
  BY DEF RemoveStored, IndInv, TypeOK, TaskType, ArtifactType
<1>1. up
  BY <1>0 DEF IndInv, DownInv
<1>2. PICK r \in Runners : /\ runner' = [runner EXCEPT ![t] = r] /\ r.at = "enqueue"
                           /\ r.digest = runner[t].digest /\ r.html = runner[t].html
  BY <1>0, RunFacts
<1>3. /\ r.digest \in Bodies /\ Shows(r.digest, r.html)' /\ mixed \subseteq Bodies /\ mixed' = mixed
  BY <1>0, <1>2 DEF IndInv, JobInv, ShowsInv, Shows, TypeOK, HistoryType
<1>4. png' \in [Bodies -> MaybeBody] /\ \A d \in Bodies : Shows(d, png[d])'
  BY <1>0 DEF NoPngs, MaybeBody, Shows
<1>5. excused \subseteq excused' /\ excused' \subseteq Bodies
  BY <1>0 DEF TakenFrom, IndInv, TypeOK, HistoryType, MaybeBody
<1>6. body # NoBody /\ png[body] # NoBody => body \in excused' \/ r.digest = body
  BY <1>0, <1>2 DEF TakenFrom
<1> QED BY <1>0, <1>1, <1>2, <1>3, <1>4, <1>5, <1>6, RunnerStep

\* The queue has no room for the task's job.
LEMMA RejectReadyInv ==
  ASSUME IndInv, NEW t \in Tasks, runner[t].at = "enqueue", Reject(runner[t].digest), Run(t, "fail"),
         UNCHANGED <<up, artifact, unscheduled, removal, cache, backfill, tasks, png>>
  PROVE  IndInv'
<1>0. /\ UNCHANGED <<queue, lane, mixed>> /\ excused' = excused \cup {runner[t].digest}
      /\ tasks \in [Tasks -> TaskFiles] /\ runner \in [Tasks -> Runners]
  BY DEF Reject, IndInv, TypeOK, TaskType
<1>1. up
  BY DEF IndInv, DownInv
<1>2. PICK r \in Runners : /\ runner' = [runner EXCEPT ![t] = r] /\ r.at = "fail"
                           /\ r.digest = runner[t].digest /\ r.html = runner[t].html
  BY <1>0, RunFacts
<1>3. /\ runner[t].digest \in Bodies /\ Shows(r.digest, r.html)' /\ mixed \subseteq Bodies /\ mixed' = mixed
  BY <1>0, <1>2 DEF IndInv, JobInv, ShowsInv, Shows, TypeOK, HistoryType
<1>4. png' = png /\ png' \in [Bodies -> MaybeBody] /\ \A d \in Bodies : Shows(d, png[d])'
  BY <1>0 DEF IndInv, TypeOK, PictureType, ShowsInv, Shows
<1>5. excused \subseteq excused' /\ excused' \subseteq Bodies /\ runner[t].digest \in excused'
  BY <1>0, <1>3 DEF IndInv, TypeOK, HistoryType
<1>6. /\ mixed \subseteq mixed' /\ mixed' \subseteq Bodies /\ tasks' \in [Tasks -> TaskFiles]
      /\ \A s \in Tasks \ {t} : tasks'[s] = tasks[s]
  BY <1>0, <1>3
<1>7. UNCHANGED <<up, artifact, unscheduled, removal, cache, backfill, queue, lane>>
  BY <1>0
<1>8. /\ runner[t].at # "wait" /\ r.at \notin {"none", "create", "mark", "find", "read", "remove", "enqueue"}
      /\ png' \in [Bodies -> MaybeBody] /\ \A d \in Bodies : Shows(d, png[d])'
      /\ excused \subseteq excused' /\ excused' \subseteq Bodies /\ Shows(r.digest, r.html)'
      /\ runner' = [runner EXCEPT ![t] = r] /\ r \in Runners
  BY <1>2, <1>3, <1>4, <1>5
<1>9. /\ runner[t].at # "wait" \/ r = runner[t]
      /\ r.at = "read" => r.row = r.digest
      /\ r.at \in {"none", "create", "mark", "find", "read"} => r.html = NoBody
      /\ r.at \in {"read", "remove", "enqueue"} => r.digest \in Bodies
      /\ r.at = "create" => tasks'[t] = NoTask
  BY <1>8
<1>10. body # NoBody /\ png[body] # NoBody =>
         \/ png'[body] # NoBody \/ body \in excused'
         \/ r.digest = body /\ r.at = "enqueue"
  BY <1>4
<1>11. runner[t].digest = body /\ runner[t].at = "enqueue" /\ body # NoBody =>
         \/ body \in excused'
         \/ r.digest = body /\ r.at = "enqueue"
  BY <1>5
<1> QED BY <1>1, <1>6, <1>7, <1>8, <1>9, <1>10, <1>11, RunnerStep

-----------------------------------------------------------------------------
(* What the queue takes and refuses *)

\* A job of a mutation, of the backfill or of a waiting task joins the queue.
LEMMA EnqueueInv ==
  ASSUME IndInv, up, NEW job \in Jobs, NEW p \in {"high", "low"}, Admit(job, p),
         UNCHANGED <<up, artifact, removal, png, cache, tasks, history>>,
         Shows(job.digest, job.html),
         job.html # NoBody => job.from \notin Deferred,
         p = "low" => job.html = NoBody /\ job.from \notin Tasks,
         runner' \in [Tasks -> Runners],
         \A s \in Tasks : s # job.from => runner'[s] = runner[s],
         job.from \in Tasks => /\ runner[job.from].at = "enqueue" /\ runner[job.from].digest = job.digest
                               /\ runner'[job.from].at = "wait" /\ runner'[job.from].html = NoBody,
         unscheduled' \subseteq unscheduled,
         \A u \in unscheduled \ unscheduled' : u[2] = job.digest /\ p = "high",
         backfill' \in {backfill, NoBody}, backfill' # backfill => backfill = job.digest
  PROVE  IndInv'
<1>0. UNCHANGED <<up, body, changes, removal, png, cache, tasks, mixed, excused>>
  BY DEF artifact, history
<1>1. /\ QueueType' /\ QueueLimits' /\ lane' \in Lanes
      /\ lane' = lane \/ (~Busy /\ lane'.at = "pick" /\ lane'.html = NoBody)
  BY AdmitFacts
<1>h. p = "high" =>
        /\ low' = low /\ DOMAIN high' = DOMAIN high \cup {Len(high) + 1}
        /\ Len(high) + 1 \notin DOMAIN high /\ high'[Len(high) + 1] = job
        /\ \A i \in DOMAIN high : high'[i] = high[i]
  BY AdmitFacts
<1>l. p = "low" =>
        /\ high' = high /\ DOMAIN low' = DOMAIN low \cup {Len(low) + 1}
        /\ Len(low) + 1 \notin DOMAIN low /\ low'[Len(low) + 1] = job
        /\ \A i \in DOMAIN low : low'[i] = low[i]
  BY AdmitFacts
<1>2. PICK k : \A i \in DOMAIN high' : \/ i \in DOMAIN high /\ high'[i] = high[i]
                                       \/ i = k /\ i \notin DOMAIN high /\ high'[i] = job /\ p = "high"
  <2>1. CASE p = "high"
    BY <1>h, <2>1
  <2>2. CASE p = "low"
    BY <1>l, <2>2
  <2> QED BY <2>1, <2>2
<1>3. /\ \A i \in DOMAIN high : i \in DOMAIN high' /\ high'[i] = high[i]
      /\ p = "high" => \E i \in DOMAIN high' : high'[i] = job
  BY <1>h, <1>l
<1>4. /\ \A i \in DOMAIN low : i \in DOMAIN low' /\ low'[i] = low[i]
      /\ p = "low" => \E i \in DOMAIN low' : low'[i] = job
  BY <1>h, <1>l
<1>5. \A i \in DOMAIN low' : \/ i \in DOMAIN low /\ low'[i] = low[i]
                             \/ low'[i] = job /\ p = "low"
  BY <1>h, <1>l
<1>6. TypeOK'
  <2>1. ArtifactType' /\ PictureType' /\ HistoryType' /\ up' \in BOOLEAN
    BY <1>0 DEF IndInv, TypeOK, ArtifactType, PictureType, HistoryType
  <2>2. LaneType' /\ TaskType'
    BY <1>0, <1>1 DEF IndInv, TypeOK, LaneType, TaskType, MaybeBody
  <2> QED BY <1>1, <2>1, <2>2 DEF TypeOK
<1>7. DownInv' /\ (removal => body = NoBody)'
  BY <1>0, SMTT(20) DEF DownInv, IndInv
<1>8. \A d, h : Shows(d, h) => Shows(d, h)'
  BY <1>0 DEF Shows
<1>9. ShowsInv'
  <2>1. \A d \in Bodies : Shows(d, png[d])' /\ Shows(d, cache[d])'
    BY <1>0 DEF IndInv, ShowsInv, Shows
  <2>2. \A i \in DOMAIN high' : Shows(high[i].digest, high[i].html)'
    <3> SUFFICES ASSUME NEW i \in DOMAIN high' PROVE Shows(high'[i].digest, high'[i].html)
      BY <1>0 DEF Shows
    <3> QED BY <1>2 DEF IndInv, ShowsInv
  <2>3. \A i \in DOMAIN low' : low'[i].html = NoBody
    BY <1>5 DEF IndInv, ShowsInv
  <2>4. Shows(lane.digest, lane.html)' /\ (lane.at = "read" => lane.row = lane.digest)'
    BY <1>0, <1>1 DEF IndInv, ShowsInv, Shows
  <2>5. ASSUME NEW s \in Tasks
        PROVE  /\ Shows(runner[s].digest, runner[s].html)'
               /\ runner'[s].at = "read" => runner'[s].row = runner'[s].digest
               /\ runner'[s].at \in {"none", "create", "mark", "find", "read"} =>
                    runner'[s].html = NoBody
    <3>1. CASE s = job.from
      BY <3>1 DEF Shows
    <3>2. CASE s # job.from
      <4>1. runner'[s] = runner[s]
        BY <3>2
      <4> QED BY <1>0, <4>1 DEF IndInv, ShowsInv, Shows
    <3> QED BY <3>1, <3>2
  <2> QED BY <2>1, <2>2, <2>3, <2>4, <2>5 DEF ShowsInv
<1>10. JobInv'
  <2>1. \A s \in Tasks : runner[s].at = "wait" => runner'[s].at = "wait" /\ s # job.from
    OBVIOUS
  <2>2. Busy' => Busy /\ lane' = lane
    BY <1>1 DEF Busy
  <2>3. ASSUME NEW i \in DOMAIN high', high'[i].from \in Tasks
        PROVE  /\ runner'[high'[i].from].at = "wait"
               /\ \A j \in DOMAIN high' : high'[j].from = high'[i].from => j = i
               /\ Busy' => lane'.from # high'[i].from
    <3>1. CASE i \in DOMAIN high /\ high'[i] = high[i]
      <4>1. runner[high[i].from].at = "wait" /\ high[i].from \in Tasks
        BY <2>3, <3>1 DEF IndInv, JobInv
      <4>2. ASSUME NEW j \in DOMAIN high', high'[j].from = high'[i].from PROVE j = i
        <5>1. j \in DOMAIN high /\ high'[j] = high[j]
          BY <1>2, <2>1, <3>1, <4>1, <4>2
        <5> QED BY <2>3, <3>1, <4>2, <5>1 DEF IndInv, JobInv
      <4>3. Busy' => lane'.from # high'[i].from
        BY <2>2, <2>3, <3>1 DEF IndInv, JobInv
      <4> QED BY <2>1, <3>1, <4>1, <4>2, <4>3
    <3>2. CASE ~(i \in DOMAIN high /\ high'[i] = high[i])
      <4>1. i = k /\ high'[i] = job /\ job.from \in Tasks
        BY <1>2, <2>3, <3>2
      <4>2. ASSUME NEW j \in DOMAIN high', high'[j].from = high'[i].from PROVE j = i
        <5>1. CASE j \in DOMAIN high /\ high'[j] = high[j]
          <6>1. runner[job.from].at = "wait"
            BY <4>1, <4>2, <5>1 DEF IndInv, JobInv
          <6> QED BY <2>1, <4>1, <6>1
        <5> QED BY <1>2, <4>1, <5>1
      <4>3. Busy' => lane'.from # high'[i].from
        <5>1. Busy /\ lane.from \in Tasks => runner[lane.from].at = "wait"
          BY DEF IndInv, JobInv
        <5> QED BY <2>1, <2>2, <4>1, <5>1
      <4> QED BY <4>1, <4>2, <4>3
    <3> QED BY <3>1, <3>2
  <2>4. \A i \in DOMAIN low' : low'[i].from \notin Tasks
    BY <1>5 DEF IndInv, JobInv
  <2>5. Busy' => (lane'.from \in Tasks => runner'[lane'.from].at = "wait") /\ lane'.digest \in Bodies
    BY <2>1, <2>2 DEF IndInv, JobInv
  <2>6. \A i \in DOMAIN high' : high'[i].html # NoBody => high'[i].from \notin Deferred
    BY <1>2 DEF IndInv, JobInv
  <2>7. lane'.at \in {"render", "persist"} => lane'.html # NoBody
    BY <1>1 DEF IndInv, JobInv
  <2>8. \A s \in Tasks : runner'[s].at \in {"read", "remove", "enqueue"} => runner'[s].digest \in Bodies
    <3> SUFFICES ASSUME NEW s \in Tasks, runner'[s].at \in {"read", "remove", "enqueue"}
                 PROVE  runner'[s].digest \in Bodies
      OBVIOUS
    <3>1. runner'[s] = runner[s]
      <4>1. CASE s = job.from
        BY <4>1
      <4> QED BY <4>1
    <3> QED BY <3>1 DEF IndInv, JobInv
  <2> QED BY <2>3, <2>4, <2>5, <2>6, <2>7, <2>8 DEF JobInv
<1>11. ASSUME NEW b \in Bodies, Queued(b) PROVE Queued(b)'
  <2>1. CASE \E i \in DOMAIN high : high[i].digest = b
    BY <1>3, <2>1 DEF Queued
  <2>2. CASE \E u \in unscheduled : u[2] = b
    <3>1. PICK u \in unscheduled : u[2] = b
      BY <2>2
    <3>2. CASE u \in unscheduled'
      BY <3>1, <3>2 DEF Queued
    <3>3. CASE u \notin unscheduled'
      BY <1>3, <3>1, <3>3, SMTT(20) DEF Queued
    <3> QED BY <3>2, <3>3
  <2> QED BY <1>11, <2>1, <2>2 DEF Queued
<1>12. LaneOrder'
  <2>1. body # NoBody => body \in Bodies
    BY DEF IndInv, TypeOK, ArtifactType, MaybeBody
  <2>2. (Rendering \/ lane.at = "sweep")' => lane' = lane
    BY <1>1 DEF Rendering
  <2>3. (Rendering \/ lane.at = "sweep")' => Rendering \/ lane.at = "sweep"
    BY <2>2 DEF Rendering
  <2> QED BY <1>0, <1>11, <2>1, <2>2, <2>3 DEF IndInv, LaneOrder
<1>13. GalleryInv'
  <2> SUFFICES ASSUME body # NoBody
               PROVE  png[body] # NoBody \/ body \in excused \/ Elsewhere(body)' \/ InLane(body)'
    BY <1>0 DEF GalleryInv
  <2>1. body \in Bodies
    BY DEF IndInv, TypeOK, ArtifactType, MaybeBody
  <2>2. job.digest = body => Elsewhere(body)'
    <3>1. p = "high" /\ job.digest = body' => Elsewhere(body)'
      BY <1>3 DEF Elsewhere, Queued
    <3>2. p = "low" /\ job.digest = body' => Elsewhere(body)'
      BY <1>4 DEF Elsewhere
    <3> QED BY <1>0, <3>1, <3>2
  <2>3. Queued(body) => Elsewhere(body)'
    <3>1. Queued(body) => \E b \in Bodies : b = body /\ Queued(b)'
      BY <1>11, <2>1
    <3> QED BY <1>0, <3>1 DEF Elsewhere, Queued
  <2>4. (\E i \in DOMAIN low : low[i].digest = body) => Elsewhere(body)'
    BY <1>0, <1>4 DEF Elsewhere
  <2>5. backfill = body => Elsewhere(body)' \/ job.digest = body
    BY <1>0 DEF Elsewhere
  <2>6. (\E t \in Tasks : runner[t].digest = body /\ runner[t].at = "enqueue")
          => Elsewhere(body)' \/ job.digest = body
    BY <1>0 DEF Elsewhere
  <2>7. InLane(body) => InLane(body)'
    <3>1. InLane(body) => lane' = lane
      BY <1>1 DEF InLane, Rendering, Busy
    <3> QED BY <1>0, <3>1 DEF InLane, Rendering
  <2>8. Elsewhere(body) => Elsewhere(body)'
    BY <2>2, <2>3, <2>4, <2>5, <2>6 DEF Elsewhere
  <2> QED BY <2>7, <2>8 DEF IndInv, GalleryInv
<1>14. \A s \in Tasks : runner'[s].at = "create" => tasks'[s] = NoTask
  BY <1>0 DEF IndInv
<1> QED BY <1>1, <1>6, <1>7, <1>9, <1>10, <1>12, <1>13, <1>14 DEF IndInv

\* A mutation's or the backfill's job is refused, lost, or not needed.
LEMMA RefuseInv ==
  ASSUME IndInv, up, UNCHANGED <<up, artifact, removal, png, cache, queue, lane, tasks, runner, mixed>>,
         excused \subseteq excused', excused' \subseteq Bodies,
         unscheduled' \subseteq unscheduled, \A u \in unscheduled \ unscheduled' : u[2] \in excused',
         backfill' \in {backfill, NoBody},
         backfill' # backfill => backfill \in excused' \/ png[backfill] # NoBody
  PROVE  IndInv'
<1>0. UNCHANGED <<up, body, changes, removal, png, cache, high, low, reserved, lane, tasks, runner, mixed>>
  BY DEF artifact, queue
<1>1. TypeOK'
  BY <1>0 DEF IndInv, TypeOK, ArtifactType, PictureType, QueueType, LaneType, TaskType, HistoryType,
              MaybeBody
<1>2. QueueLimits' /\ DownInv' /\ (removal => body = NoBody)'
  BY <1>0, SMTT(20) DEF IndInv, QueueLimits, DownInv
<1>3. ShowsInv'
  BY <1>0 DEF IndInv, ShowsInv, Shows
<1>4. JobInv'
  BY <1>0 DEF IndInv, JobInv, Busy
<1>5. Queued(body) => Queued(body)' \/ body \in excused'
  BY <1>0 DEF Queued
<1>6. LaneOrder'
  BY <1>0, <1>5 DEF IndInv, LaneOrder, Rendering
<1>7. GalleryInv'
  <2> SUFFICES ASSUME body # NoBody
               PROVE  png[body] # NoBody \/ body \in excused' \/ Elsewhere(body)' \/ InLane(body)'
    BY <1>0 DEF GalleryInv
  <2>1. InLane(body) => InLane(body)'
    BY <1>0 DEF InLane, Rendering
  <2>2. Elsewhere(body) => Elsewhere(body)' \/ body \in excused' \/ png[body] # NoBody
    BY <1>0, <1>5 DEF Elsewhere
  <2> QED BY <2>1, <2>2 DEF IndInv, GalleryInv
<1>8. \A s \in Tasks : runner'[s].at = "create" => tasks'[s] = NoTask
  BY <1>0 DEF IndInv
<1> QED BY <1>1, <1>2, <1>3, <1>4, <1>6, <1>7, <1>8 DEF IndInv

\* schedule_preview.
LEMMA ScheduleInv ==
  ASSUME IndInv, NEW u \in unscheduled, Schedule(u)
  PROVE  IndInv'
<1>0. /\ UNCHANGED <<up, artifact, removal, png, cache, backfill, tasks, runner>>
      /\ unscheduled' = unscheduled \ {u} /\ u \in Nat \X Bodies /\ runner \in [Tasks -> Runners]
      /\ excused \subseteq Bodies
  BY DEF Schedule, IndInv, TypeOK, ArtifactType, TaskType, HistoryType
<1>1. up /\ u[2] \in Bodies
  BY <1>0 DEF IndInv, DownInv
<1>2. CASE Admit(Job(u[2], NoBody, "mutation"), "high") /\ UNCHANGED history
  <2>1. PICK job : job = Job(u[2], NoBody, "mutation")
    OBVIOUS
  <2>2. /\ job \in Jobs /\ job.digest = u[2] /\ job.html = NoBody /\ job.from \notin Tasks
        /\ Shows(job.digest, job.html) /\ Admit(job, "high") /\ "high" \in {"high", "low"}
    BY PreviewAssumption, <1>1, <1>2, <2>1 DEF Job, Jobs, MaybeBody, Origins, Shows
  <2>3. /\ UNCHANGED <<up, artifact, removal, png, cache, tasks, history>> /\ runner' = runner
        /\ unscheduled' \subseteq unscheduled /\ \A v \in unscheduled \ unscheduled' : v = u
        /\ backfill' = backfill
    BY <1>0, <1>2
  <2> QED BY <1>0, <1>1, <2>2, <2>3, EnqueueInv
<1>3. CASE ~(Admit(Job(u[2], NoBody, "mutation"), "high") /\ UNCHANGED history)
  <2>1. UNCHANGED <<queue, lane, mixed>> /\ excused' = excused \cup {u[2]}
    BY <1>3 DEF Schedule, Reject, Lost
  <2> QED BY <1>0, <1>1, <2>1, RefuseInv
<1> QED BY <1>2, <1>3

\* The backfill's one candidate.
LEMMA BackfillInv ==
  ASSUME IndInv, Backfill
  PROVE  IndInv'
<1>0. /\ UNCHANGED <<up, artifact, unscheduled, removal, png, cache, tasks, runner>>
      /\ backfill # NoBody /\ backfill' = NoBody /\ backfill \in MaybeBody
      /\ runner \in [Tasks -> Runners] /\ excused \subseteq Bodies
  BY DEF Backfill, IndInv, TypeOK, LaneType, TaskType, HistoryType
<1>1. up /\ backfill \in Bodies
  BY <1>0 DEF IndInv, DownInv, MaybeBody
<1>2. CASE Admit(Job(backfill, NoBody, "backfill"), "low") /\ UNCHANGED history
  <2>1. PICK job : job = Job(backfill, NoBody, "backfill")
    OBVIOUS
  <2>2. /\ job \in Jobs /\ job.digest = backfill /\ job.html = NoBody /\ job.from \notin Tasks
        /\ Shows(job.digest, job.html) /\ Admit(job, "low") /\ "low" \in {"high", "low"}
    BY PreviewAssumption, <1>1, <1>2, <2>1 DEF Job, Jobs, MaybeBody, Origins, Shows
  <2>3. /\ UNCHANGED <<up, artifact, removal, png, cache, tasks, history>> /\ runner' = runner
        /\ unscheduled' = unscheduled
    BY <1>0, <1>2
  <2> QED BY <1>0, <1>1, <2>2, <2>3, EnqueueInv
<1>3. CASE UNCHANGED <<queue, lane, history>> /\ png[backfill] # NoBody
  <2>1. UNCHANGED <<queue, lane, mixed, excused>>
    BY <1>3 DEF history
  <2> QED BY <1>0, <1>1, <1>3, <2>1, RefuseInv
<1>4. CASE Reject(backfill)
  <2>1. UNCHANGED <<queue, lane, mixed>> /\ excused' = excused \cup {backfill}
    BY <1>4 DEF Reject
  <2> QED BY <1>0, <1>1, <2>1, RefuseInv
<1> QED BY <1>2, <1>3, <1>4 DEF Backfill

\* enqueue_ready.
LEMMA EnqueueReadyInv ==
  ASSUME IndInv, NEW t \in Tasks, EnqueueReady(t),
         UNCHANGED <<up, artifact, unscheduled, removal, cache, backfill>>
  PROVE  IndInv'
<1>0. /\ UNCHANGED <<up, artifact, unscheduled, removal, cache, backfill, tasks, png>>
      /\ runner[t].at = "enqueue" /\ runner \in [Tasks -> Runners] /\ runner[t] \in Runners
  BY DEF EnqueueReady, IndInv, TypeOK, TaskType
<1>1. up /\ runner[t].digest \in Bodies /\ Shows(runner[t].digest, runner[t].html)
  BY <1>0 DEF IndInv, DownInv, JobInv, ShowsInv
<1>2. CASE Reject(runner[t].digest) /\ Run(t, "fail")
  BY <1>0, <1>2, RejectReadyInv
<1>3. CASE ~(Reject(runner[t].digest) /\ Run(t, "fail"))
  <2>1. /\ Admit(Job(runner[t].digest, runner[t].html, t), "high") /\ UNCHANGED history
        /\ runner' = [runner EXCEPT ![t] = [runner[t] EXCEPT !.at = "wait", !.html = NoBody]]
    BY <1>3 DEF EnqueueReady
  <2>2. PICK job : job = Job(runner[t].digest, runner[t].html, t)
    OBVIOUS
  <2>3. /\ job \in Jobs /\ job.digest = runner[t].digest /\ job.html = runner[t].html /\ job.from = t
        /\ Shows(job.digest, job.html) /\ Admit(job, "high") /\ "high" \in {"high", "low"}
    BY <1>0, <1>1, <2>1, <2>2 DEF Job, Jobs, MaybeBody, Origins, Runners
  <2>a. NoBody \in MaybeBody /\ t \notin Deferred
    BY PreviewAssumption DEF MaybeBody, Deferred
  <2>4. /\ runner' \in [Tasks -> Runners] /\ \A s \in Tasks : s # t => runner'[s] = runner[s]
        /\ runner'[t].at = "wait" /\ runner'[t].html = NoBody
    <3>1. [runner[t] EXCEPT !.at = "wait", !.html = NoBody] \in Runners
      BY <1>0, <2>a DEF Runners
    <3>2. /\ runner' \in [Tasks -> Runners] /\ \A s \in Tasks : s # t => runner'[s] = runner[s]
          /\ runner'[t] = [runner[t] EXCEPT !.at = "wait", !.html = NoBody]
      BY <1>0, <2>1, <3>1
    <3> QED BY <1>0, <3>2 DEF Runners
  <2>5. /\ UNCHANGED <<up, artifact, removal, png, cache, tasks, history>>
        /\ unscheduled' = unscheduled /\ backfill' = backfill
    BY <1>0, <2>1
  <2> QED BY <1>0, <1>1, <2>3, <2>a, <2>4, <2>5, EnqueueInv
<1> QED BY <1>2, <1>3

\* A step of anything else.
LEMMA SameInv ==
  ASSUME IndInv, UNCHANGED <<up, artifact, unscheduled, removal, png, cache, queue, lane, backfill,
                             tasks, runner, history>>
  PROVE  IndInv'
<1>1. UNCHANGED <<up, body, changes, unscheduled, removal, png, cache, high, low, reserved, lane,
                  backfill, tasks, runner, mixed, excused>>
  BY DEF artifact, queue, history
<1>2. TypeOK' /\ QueueLimits' /\ DownInv'
  BY ONLY IndInv, <1>1, ZenonT(30) DEF IndInv, TypeOK, ArtifactType, PictureType, QueueType, LaneType, TaskType, HistoryType, QueueLimits, DownInv
<1>3. ShowsInv' /\ JobInv'
  BY ONLY IndInv, <1>1, ZenonT(30) DEF IndInv, ShowsInv, Shows, JobInv, Busy
<1>4. LaneOrder' /\ GalleryInv'
  BY ONLY IndInv, <1>1, ZenonT(30) DEF IndInv, LaneOrder, GalleryInv, Rendering, Queued, Elsewhere, InLane
<1> QED BY ONLY IndInv, <1>1, <1>2, <1>3, <1>4, ZenonT(30) DEF IndInv

\* A delivery worker looks a preview up, and may enqueue the body it has read.
LEMMA DeliveryStepInv ==
  ASSUME IndInv, LookupInv, NEW w \in Workers, DeliveryStep(w)
  PROVE  IndInv' /\ LookupInv'
<1>0. /\ UNCHANGED <<up, artifact, unscheduled, removal, png, cache, backfill, tasks, runner, history>>
      /\ lookup \in [Workers -> Lookups] /\ runner \in [Tasks -> Runners] /\ body \in MaybeBody
  BY DEF DeliveryStep, LookupInv, IndInv, TypeOK, TaskType, ArtifactType
<1>1. lookup[w] \in Lookups /\ NoLookup \in Lookups /\ NoLookup.at = "none"
  BY <1>0 DEF Lookups, NoLookup, MaybeBody
<1>2. ASSUME NEW l \in Lookups, lookup' = [lookup EXCEPT ![w] = l],
             l.at = "none" \/ (up /\ l.digest \in Bodies)
      PROVE  LookupInv'
  <2>1. /\ lookup' \in [Workers -> Lookups] /\ lookup'[w] = l /\ up' = up
        /\ \A v \in Workers \ {w} : lookup'[v] = lookup[v]
    BY <1>0, <1>2
  <2>2. ASSUME NEW v \in Workers, lookup'[v].at # "none"
        PROVE  up' /\ lookup'[v].digest \in Bodies
    <3>1. CASE v = w
      BY <1>2, <2>1, <2>2, <3>1
    <3>2. CASE v # w
      BY <2>1, <2>2, <3>2 DEF LookupInv
    <3> QED BY <3>1, <3>2
  <2> QED BY <2>1, <2>2 DEF LookupInv
<1>3. CASE FindMeta(w)
  <2>1. [at |-> "read", digest |-> body] \in Lookups /\ [at |-> "read", digest |-> body].digest = body
    BY <1>0 DEF Lookups
  <2>2. body \in Bodies /\ up /\ UNCHANGED <<queue, lane>>
    BY <1>0, <1>3 DEF FindMeta, MaybeBody
  <2>3. lookup' = [lookup EXCEPT ![w] = [at |-> "read", digest |-> body]]
    BY <1>3 DEF FindMeta
  <2>4. LookupInv'
    BY <1>2, <2>1, <2>2, <2>3
  <2> QED BY <1>0, <2>2, <2>4, SameInv
<1>4. CASE ReadReference(w)
  <2>1. UNCHANGED <<queue, lane>> /\ lookup[w].at # "none"
    BY <1>4 DEF ReadReference
  <2>2. up /\ lookup[w].digest \in Bodies
    BY <2>1 DEF LookupInv
  <2>3. LET l == [lookup[w] EXCEPT !.at = "enqueue"] IN l \in Lookups /\ l.digest = lookup[w].digest
    BY <1>1 DEF Lookups
  <2>4. \/ lookup' = [lookup EXCEPT ![w] = [lookup[w] EXCEPT !.at = "enqueue"]]
        \/ lookup' = [lookup EXCEPT ![w] = NoLookup]
    BY <1>4 DEF ReadReference
  <2>5. LookupInv'
    BY <1>1, <1>2, <2>2, <2>3, <2>4
  <2> QED BY <1>0, <2>1, <2>5, SameInv
<1>5. CASE EnqueueLookup(w)
  <2>1. PICK job : job = Job(lookup[w].digest, lookup[w].digest, "delivery")
    OBVIOUS
  <2>2. /\ lookup[w].at = "enqueue" /\ Admit(job, "high") /\ lookup' = [lookup EXCEPT ![w] = NoLookup]
    BY <1>5, <2>1 DEF EnqueueLookup
  <2>3. up /\ lookup[w].digest \in Bodies
    BY <2>2 DEF LookupInv
  <2>4. LookupInv'
    BY <1>1, <1>2, <2>2
  <2>5. /\ job \in Jobs /\ job.from \notin Tasks /\ job.from \notin Deferred
        /\ Shows(job.digest, job.html) /\ "high" \in {"high", "low"}
    BY PreviewAssumption, <2>1, <2>3 DEF Job, Jobs, MaybeBody, Origins, Deferred, Shows
  <2>6. /\ UNCHANGED <<up, artifact, removal, png, cache, tasks, history>> /\ runner' = runner
        /\ unscheduled' = unscheduled /\ backfill' = backfill
    BY <1>0
  <2>7. IndInv'
    BY <1>0, <2>2, <2>3, <2>5, <2>6, EnqueueInv
  <2> QED BY <2>4, <2>7
<1> QED BY <1>3, <1>4, <1>5 DEF DeliveryStep

-----------------------------------------------------------------------------
(* The lane *)

\* A step of the lane with the job it holds.
LEMMA LaneWork ==
  ASSUME IndInv, Busy, UNCHANGED <<up, artifact, unscheduled, removal, queue, backfill, tasks, runner>>,
         lane' \in Lanes, Busy', lane'.digest = lane.digest, lane'.from = lane.from,
         Shows(lane.digest, lane.html)', lane'.at = "read" => lane'.row = lane'.digest,
         lane'.at \in {"render", "persist"} => lane'.html # NoBody,
         png' \in [Bodies -> MaybeBody], cache' \in [Bodies -> MaybeBody],
         \A d \in Bodies : Shows(d, png[d])' /\ Shows(d, cache[d])',
         mixed \subseteq mixed', mixed' \subseteq Bodies, excused' \subseteq Bodies,
         body # NoBody /\ (png[body] # NoBody \/ body \in excused \/ InLane(body)) =>
           png'[body] # NoBody \/ body \in excused' \/ InLane(body)' \/ Queued(body),
         Rendering' \/ lane'.at = "sweep" =>
           \/ lane.digest = body
           \/ (Rendering \/ lane.at = "sweep") /\ (body \in excused => body \in excused')
  PROVE  IndInv'
<1>0. UNCHANGED <<up, body, changes, unscheduled, removal, high, low, reserved, backfill, tasks, runner>>
  BY DEF artifact, queue
<1>1. TypeOK'
  BY <1>0 DEF IndInv, TypeOK, ArtifactType, PictureType, QueueType, LaneType, TaskType, HistoryType
<1>2. lane.at # "off" /\ lane'.at # "off"
  BY DEF Busy
<1>3. QueueLimits' /\ DownInv' /\ (removal => body = NoBody)'
  BY <1>0, <1>2, SMTT(20) DEF IndInv, QueueLimits, DownInv
<1>4. ShowsInv'
  <2>1. \A i \in DOMAIN high' : Shows(high[i].digest, high[i].html)'
    BY <1>0 DEF IndInv, ShowsInv, Shows
  <2>2. \A i \in DOMAIN low' : low'[i].html = NoBody
    BY <1>0 DEF IndInv, ShowsInv
  <2>3. \A t \in Tasks : /\ Shows(runner[t].digest, runner[t].html)'
                         /\ runner'[t].at = "read" => runner'[t].row = runner'[t].digest
                         /\ runner'[t].at \in {"none", "create", "mark", "find", "read"} =>
                              runner'[t].html = NoBody
    BY <1>0 DEF IndInv, ShowsInv, Shows
  <2> QED BY <2>1, <2>2, <2>3 DEF ShowsInv
<1>5. JobInv'
  BY <1>0 DEF IndInv, JobInv
<1>6. \A b : Queued(b) => Queued(b)'
  BY <1>0 DEF Queued
<1>7. LaneOrder'
  BY <1>0, <1>6 DEF IndInv, LaneOrder
<1>8. GalleryInv'
  <2> SUFFICES ASSUME up, body # NoBody
               PROVE  png'[body] # NoBody \/ body \in excused' \/ Elsewhere(body)' \/ InLane(body)'
    BY <1>0, SMTT(20) DEF GalleryInv
  <2>1. Elsewhere(body) => Elsewhere(body)'
    BY <1>0 DEF Elsewhere, Queued
  <2>2. Queued(body) => Elsewhere(body)
    BY DEF Elsewhere
  <2> QED BY <2>1, <2>2 DEF IndInv, GalleryInv
<1>9. \A s \in Tasks : runner'[s].at = "create" => tasks'[s] = NoTask
  BY <1>0 DEF IndInv
<1> QED BY <1>1, <1>3, <1>4, <1>5, <1>7, <1>8, <1>9 DEF IndInv

LEMMA LaneFacts ==
  ASSUME lane \in Lanes, NEW html \in MaybeBody,
         NEW at \in {"ensure", "render", "persist", "sweep", "stored", "nothing"},
         Lane(at, html)
  PROVE  /\ lane' \in Lanes /\ lane'.at = at /\ lane'.html = html
         /\ lane'.digest = lane.digest /\ lane'.from = lane.from /\ Busy'
<1>1. NoBody \in MaybeBody
  BY DEF MaybeBody
<1>2. /\ lane' \in Lanes /\ lane'.at = at /\ lane'.html = html
      /\ lane'.digest = lane.digest /\ lane'.from = lane.from
  BY <1>1 DEF Lane, Lanes
<1> QED BY <1>2 DEF Busy

\* What the lane's steps start from.
LEMMA LaneNow ==
  ASSUME IndInv, Busy
  PROVE  /\ lane \in Lanes /\ lane.digest \in Bodies /\ lane.html \in MaybeBody /\ NoBody \in MaybeBody
         /\ body \in MaybeBody /\ png \in [Bodies -> MaybeBody] /\ cache \in [Bodies -> MaybeBody]
         /\ mixed \subseteq Bodies /\ excused \subseteq Bodies
         /\ Shows(lane.digest, lane.html) /\ \A d \in Bodies : Shows(d, png[d]) /\ Shows(d, cache[d])
BY DEF IndInv, TypeOK, LaneType, ArtifactType, PictureType, HistoryType, JobInv, ShowsInv, Lanes, MaybeBody

\* A read, a render or a write fails: the job leads to no picture.
LEMMA LaneLost ==
  ASSUME IndInv, Busy, UNCHANGED <<up, artifact, unscheduled, removal, queue, backfill, tasks, runner>>,
         NEW at \in {"ensure", "nothing"}, Lane(at, NoBody), Lost(lane.digest), UNCHANGED png,
         cache' \in [Bodies -> MaybeBody], \A d \in Bodies : Shows(d, cache[d])'
  PROVE  IndInv'
<1>0. /\ lane \in Lanes /\ lane.digest \in Bodies /\ NoBody \in MaybeBody /\ body \in MaybeBody
      /\ png \in [Bodies -> MaybeBody] /\ mixed \subseteq Bodies /\ excused \subseteq Bodies
      /\ \A d \in Bodies : Shows(d, png[d])
  BY LaneNow
<1>1. mixed' = mixed /\ excused' = excused \cup {lane.digest} /\ png' = png
  BY DEF Lost
<1>2. /\ lane' \in Lanes /\ lane'.at = at /\ lane'.html = NoBody
      /\ lane'.digest = lane.digest /\ lane'.from = lane.from /\ Busy'
  BY <1>0, LaneFacts
<1>3. Shows(lane.digest, lane.html)' /\ \A d \in Bodies : Shows(d, png[d])'
  BY <1>0, <1>1, <1>2 DEF Shows
<1>4. ~(Rendering' \/ lane'.at = "sweep")
  BY <1>2 DEF Rendering
<1>5. InLane(body) => body \in excused'
  BY <1>1 DEF InLane
<1> QED BY <1>0, <1>1, <1>2, <1>3, <1>4, <1>5, LaneWork

\* The deferred loader looks at the row.
LEMMA LaneFindInv ==
  ASSUME IndInv, LaneFind, UNCHANGED <<png, cache>>,
         UNCHANGED <<up, artifact, unscheduled, removal, queue, backfill, tasks, runner>>
  PROVE  IndInv'
<1>0. lane.at = "find" /\ Busy
  BY DEF LaneFind, Busy
<1>n. /\ lane \in Lanes /\ lane.digest \in Bodies /\ NoBody \in MaybeBody /\ body \in MaybeBody
      /\ lane.html \in MaybeBody /\ Shows(lane.digest, lane.html)
      /\ png \in [Bodies -> MaybeBody] /\ mixed \subseteq Bodies /\ excused \subseteq Bodies
      /\ cache \in [Bodies -> MaybeBody] /\ \A d \in Bodies : Shows(d, png[d]) /\ Shows(d, cache[d])
  BY <1>0, LaneNow
<1>1. CASE Lane("ensure", NoBody) /\ Lost(lane.digest)
  <2>1. cache' \in [Bodies -> MaybeBody] /\ \A d \in Bodies : Shows(d, cache[d])'
    BY <1>1, <1>n DEF Lost, Shows
  <2> QED BY <1>0, <1>1, <2>1, LaneLost
<1>2. CASE UNCHANGED history
  <2>0. UNCHANGED <<mixed, excused>> /\ \A d \in Bodies : Shows(d, png[d])' /\ Shows(d, cache[d])'
    BY <1>2, <1>n DEF history, Shows
  <2>1. CASE body = lane.digest /\ lane' = [lane EXCEPT !.at = "read", !.row = body]
    <3>1. /\ lane' \in Lanes /\ lane'.at = "read" /\ lane'.html = lane.html /\ lane'.row = lane.digest
          /\ lane'.digest = lane.digest /\ lane'.from = lane.from
      BY <1>n, <2>1 DEF Lanes
    <3>2. Busy' /\ InLane(body)' /\ Shows(lane.digest, lane.html)'
      BY <1>n, <2>0, <2>1, <3>1, SMTT(20) DEF Busy, InLane, Rendering, artifact, Shows
    <3> QED BY <1>0, <1>n, <2>0, <2>1, <3>1, <3>2, LaneWork
  <2>2. CASE body # lane.digest /\ Lane("ensure", NoBody)
    <3>1. /\ lane' \in Lanes /\ lane'.at = "ensure" /\ lane'.html = NoBody
          /\ lane'.digest = lane.digest /\ lane'.from = lane.from /\ Busy'
      BY <1>n, <2>2, LaneFacts
    <3>2. ~InLane(body) /\ ~Rendering' /\ Shows(lane.digest, lane.html)'
      BY <2>2, <3>1 DEF InLane, Rendering, Shows
    <3> QED BY <1>0, <1>n, <2>0, <2>2, <3>1, <3>2, LaneWork
  <2> QED BY <1>1, <1>2, <2>1, <2>2 DEF LaneFind
<1> QED BY <1>1, <1>2 DEF LaneFind

\* read_body_for: a body that a mutation has put there since is in mixed.
LEMMA LaneReadInv ==
  ASSUME IndInv, LaneRead, UNCHANGED <<png, cache>>,
         UNCHANGED <<up, artifact, unscheduled, removal, queue, backfill, tasks, runner>>
  PROVE  IndInv'
<1>0. lane.at = "read" /\ Busy
  BY DEF LaneRead, Busy
<1>n. /\ lane \in Lanes /\ lane.digest \in Bodies /\ NoBody \in MaybeBody /\ body \in MaybeBody
      /\ png \in [Bodies -> MaybeBody] /\ mixed \subseteq Bodies /\ excused \subseteq Bodies
      /\ cache \in [Bodies -> MaybeBody] /\ \A d \in Bodies : Shows(d, png[d]) /\ Shows(d, cache[d])
  BY <1>0, LaneNow
<1>r. lane.row = lane.digest
  BY <1>0 DEF IndInv, ShowsInv
<1>1. CASE Lane("ensure", NoBody) /\ Lost(lane.digest)
  <2>1. cache' \in [Bodies -> MaybeBody] /\ \A d \in Bodies : Shows(d, cache[d])'
    BY <1>1, <1>n DEF Lost, Shows
  <2> QED BY <1>0, <1>1, <2>1, LaneLost
<1>2. CASE Lane("ensure", body) /\ Mix(lane.digest, lane.row) /\ UNCHANGED excused
  <2>1. /\ lane' \in Lanes /\ lane'.at = "ensure" /\ lane'.html = body
        /\ lane'.digest = lane.digest /\ lane'.from = lane.from /\ Busy'
    BY <1>n, <1>2, LaneFacts
  <2>2. /\ mixed \subseteq mixed' /\ mixed' \subseteq Bodies
        /\ body \in {NoBody, lane.digest} \/ lane.digest \in mixed'
    BY <1>n, <1>r, <1>2 DEF Mix
  <2>3. /\ \A d \in Bodies : Shows(d, png[d])' /\ Shows(d, cache[d])'
        /\ Shows(lane.digest, lane.html)'
    BY <1>n, <2>1, <2>2 DEF Shows
  <2>4. Rendering /\ (body # NoBody /\ InLane(body) => InLane(body)')
    BY <1>0, <2>1 DEF Rendering, InLane, artifact
  <2> QED BY <1>0, <1>n, <1>2, <2>1, <2>2, <2>3, <2>4, LaneWork
<1> QED BY <1>1, <1>2 DEF LaneRead

\* generate: the stored picture is enough, or there is nothing to render.
LEMMA LaneEnsureInv ==
  ASSUME IndInv, LaneEnsure, UNCHANGED <<png, cache>>,
         UNCHANGED <<up, artifact, unscheduled, removal, queue, backfill, tasks, runner>>
  PROVE  IndInv'
<1>0. lane.at = "ensure" /\ Busy /\ UNCHANGED history
  BY DEF LaneEnsure, Busy
<1>n. /\ lane \in Lanes /\ lane.digest \in Bodies /\ NoBody \in MaybeBody /\ body \in MaybeBody
      /\ lane.html \in MaybeBody /\ Shows(lane.digest, lane.html)
      /\ png \in [Bodies -> MaybeBody] /\ mixed \subseteq Bodies /\ excused \subseteq Bodies
      /\ cache \in [Bodies -> MaybeBody] /\ \A d \in Bodies : Shows(d, png[d]) /\ Shows(d, cache[d])
  BY <1>0, LaneNow
<1>1. UNCHANGED <<mixed, excused>> /\ \A d \in Bodies : Shows(d, png[d])' /\ Shows(d, cache[d])'
  BY <1>0, <1>n DEF history, Shows
<1>2. CASE Lane("render", lane.html) /\ lane.html # NoBody
  <2>1. /\ lane' \in Lanes /\ lane'.at = "render" /\ lane'.html = lane.html
        /\ lane'.digest = lane.digest /\ lane'.from = lane.from /\ Busy'
    BY <1>n, <1>2, LaneFacts
  <2>2. Rendering /\ (InLane(body) => InLane(body)') /\ Shows(lane.digest, lane.html)'
    BY <1>0, <1>1, <1>2, <1>n, <2>1 DEF Rendering, InLane, artifact, Shows
  <2> QED BY <1>0, <1>n, <1>1, <1>2, <2>1, <2>2, LaneWork
<1>3. ASSUME NEW at \in {"stored", "nothing"}, Lane(at, NoBody),
             lane.html = NoBody \/ png[lane.digest] # NoBody
      PROVE  IndInv'
  <2>1. /\ lane' \in Lanes /\ lane'.at = at /\ lane'.html = NoBody
        /\ lane'.digest = lane.digest /\ lane'.from = lane.from /\ Busy'
    BY <1>n, <1>3, LaneFacts
  <2>2. ~Rendering' /\ Shows(lane.digest, lane.html)' /\ (InLane(body) => png[body] # NoBody)
    BY <1>0, <1>3, <2>1 DEF Rendering, InLane, Shows
  <2> QED BY <1>0, <1>n, <1>1, <1>3, <2>1, <2>2, LaneWork
<1> QED BY <1>2, <1>3 DEF LaneEnsure

\* render_revision_preview.
LEMMA LaneRenderInv ==
  ASSUME IndInv, LaneRender, UNCHANGED png,
         UNCHANGED <<up, artifact, unscheduled, removal, queue, backfill, tasks, runner>>
  PROVE  IndInv'
<1>0. lane.at = "render" /\ Busy /\ Rendering
  BY DEF LaneRender, Busy, Rendering
<1>n. /\ lane \in Lanes /\ lane.digest \in Bodies /\ NoBody \in MaybeBody /\ body \in MaybeBody
      /\ lane.html \in MaybeBody /\ Shows(lane.digest, lane.html)
      /\ png \in [Bodies -> MaybeBody] /\ mixed \subseteq Bodies /\ excused \subseteq Bodies
      /\ cache \in [Bodies -> MaybeBody] /\ \A d \in Bodies : Shows(d, png[d]) /\ Shows(d, cache[d])
  BY <1>0, LaneNow
<1>h. lane.html # NoBody
  BY <1>0 DEF IndInv, JobInv
<1>1. ASSUME NEW x \in MaybeBody, cache' = [cache EXCEPT ![lane.digest] = x],
             Shows(lane.digest, x), UNCHANGED mixed
      PROVE  cache' \in [Bodies -> MaybeBody] /\ \A d \in Bodies : Shows(d, cache[d])'
  BY <1>n, <1>1 DEF Shows
<1>2. ASSUME NEW x \in MaybeBody, x # NoBody, Shows(lane.digest, x), Lane("persist", x),
             UNCHANGED history,
             cache' \in [Bodies -> MaybeBody], \A d \in Bodies : Shows(d, cache[d])'
      PROVE  IndInv'
  <2>1. /\ lane' \in Lanes /\ lane'.at = "persist" /\ lane'.html = x
        /\ lane'.digest = lane.digest /\ lane'.from = lane.from /\ Busy'
    BY <1>n, <1>2, LaneFacts
  <2>2. UNCHANGED <<mixed, excused>> /\ \A d \in Bodies : Shows(d, png[d])'
    BY <1>2, <1>n DEF history, Shows
  <2>3. (InLane(body) => InLane(body)') /\ Shows(lane.digest, lane.html)'
    BY <1>0, <1>2, <2>1, <2>2 DEF Rendering, InLane, artifact, Shows
  <2> QED BY <1>0, <1>n, <1>2, <2>1, <2>2, <2>3, LaneWork
<1>3. CASE cache[lane.digest] # NoBody /\ Lane("persist", cache[lane.digest]) /\ UNCHANGED <<cache, history>>
  <2>1. cache[lane.digest] \in MaybeBody /\ Shows(lane.digest, cache[lane.digest])
    BY <1>n
  <2>2. cache' \in [Bodies -> MaybeBody] /\ \A d \in Bodies : Shows(d, cache[d])'
    BY <1>3, <1>n DEF history, Shows
  <2> QED BY <1>2, <1>3, <2>1, <2>2
<1>4. CASE cache' = [cache EXCEPT ![lane.digest] = lane.html] /\ Lane("persist", lane.html) /\ UNCHANGED history
  <2>1. UNCHANGED mixed
    BY <1>4 DEF history
  <2> QED BY <1>1, <1>2, <1>4, <1>h, <1>n, <2>1
<1>5. CASE cache' = [cache EXCEPT ![lane.digest] = NoBody] /\ Lane("nothing", NoBody) /\ Lost(lane.digest)
  <2>1. UNCHANGED mixed /\ Shows(lane.digest, NoBody)
    BY <1>5 DEF Lost, Shows
  <2>2. cache' \in [Bodies -> MaybeBody] /\ \A d \in Bodies : Shows(d, cache[d])'
    BY <1>1, <1>5, <1>n, <2>1
  <2> QED BY <1>0, <1>5, <2>2, LaneLost
<1> QED BY <1>3, <1>4, <1>5 DEF LaneRender

\* persist: the picture is there, whatever was excused before.
LEMMA LanePersistInv ==
  ASSUME IndInv, LanePersist, UNCHANGED cache,
         UNCHANGED <<up, artifact, unscheduled, removal, queue, backfill, tasks, runner>>
  PROVE  IndInv'
<1>0. lane.at = "persist" /\ Busy /\ Rendering
  BY DEF LanePersist, Busy, Rendering
<1>n. /\ lane \in Lanes /\ lane.digest \in Bodies /\ NoBody \in MaybeBody /\ body \in MaybeBody
      /\ lane.html \in MaybeBody /\ Shows(lane.digest, lane.html)
      /\ png \in [Bodies -> MaybeBody] /\ mixed \subseteq Bodies /\ excused \subseteq Bodies
      /\ cache \in [Bodies -> MaybeBody] /\ \A d \in Bodies : Shows(d, png[d]) /\ Shows(d, cache[d])
  BY <1>0, LaneNow
<1>h. lane.html # NoBody
  BY <1>0 DEF IndInv, JobInv
<1>1. CASE Lane("nothing", NoBody) /\ Lost(lane.digest) /\ UNCHANGED png
  <2>1. cache' \in [Bodies -> MaybeBody] /\ \A d \in Bodies : Shows(d, cache[d])'
    BY <1>1, <1>n DEF Lost, Shows
  <2> QED BY <1>0, <1>1, <2>1, LaneLost
<1>2. CASE /\ png' = [png EXCEPT ![lane.digest] = lane.html] /\ excused' = excused \ {lane.digest}
           /\ Lane("sweep", NoBody) /\ UNCHANGED mixed
  <2>1. /\ lane' \in Lanes /\ lane'.at = "sweep" /\ lane'.html = NoBody
        /\ lane'.digest = lane.digest /\ lane'.from = lane.from /\ Busy'
    BY <1>n, <1>2, LaneFacts
  <2>2. /\ png' \in [Bodies -> MaybeBody] /\ png'[lane.digest] = lane.html
        /\ \A d \in Bodies \ {lane.digest} : png'[d] = png[d]
    BY <1>n, <1>2
  <2>3. /\ \A d \in Bodies : Shows(d, png[d])' /\ Shows(d, cache[d])'
        /\ Shows(lane.digest, lane.html)'
    BY <1>n, <1>2, <2>1, <2>2 DEF Shows
  <2>4. body # NoBody /\ (png[body] # NoBody \/ body \in excused \/ InLane(body)) =>
          png'[body] # NoBody \/ body \in excused'
    BY <1>h, <1>n, <1>2, <2>2 DEF InLane, MaybeBody
  <2>5. excused' \subseteq Bodies /\ (lane.digest = body \/ (body \in excused => body \in excused'))
    BY <1>n, <1>2
  <2>6. mixed' = mixed /\ cache' = cache
    BY <1>2
  <2> QED BY <1>0, <1>n, <2>1, <2>2, <2>3, <2>4, <2>5, <2>6, LaneWork
<1> QED BY <1>1, <1>2 DEF LanePersist

\* cleanup_obsolete: the picture of the current body goes only to the job of a task, or while
\* the mutation that made it current is queued.
LEMMA LaneSweepInv ==
  ASSUME IndInv, LaneSweep, UNCHANGED cache,
         UNCHANGED <<up, artifact, unscheduled, removal, queue, backfill, tasks, runner>>
  PROVE  IndInv'
<1>0. lane.at = "sweep" /\ Busy /\ ~Rendering
  BY DEF LaneSweep, Busy, Rendering
<1>n. /\ lane \in Lanes /\ lane.digest \in Bodies /\ NoBody \in MaybeBody /\ body \in MaybeBody
      /\ png \in [Bodies -> MaybeBody] /\ mixed \subseteq Bodies /\ excused \subseteq Bodies
      /\ cache \in [Bodies -> MaybeBody] /\ \A d \in Bodies : Shows(d, png[d]) /\ Shows(d, cache[d])
  BY <1>0, LaneNow
<1>1. /\ png' = [d \in Bodies |-> IF d = lane.digest THEN png[d] ELSE NoBody]
      /\ excused' = excused \cup (IF lane.from \in Deferred THEN {} ELSE TakenFrom(lane.digest))
      /\ Lane("stored", NoBody) /\ UNCHANGED mixed
  BY DEF LaneSweep
<1>2. /\ lane' \in Lanes /\ lane'.at = "stored" /\ lane'.html = NoBody
      /\ lane'.digest = lane.digest /\ lane'.from = lane.from /\ Busy'
  BY <1>n, <1>1, LaneFacts
<1>3. png' \in [Bodies -> MaybeBody] /\ png'[lane.digest] = png[lane.digest]
  BY <1>n, <1>1
<1>4. /\ \A d \in Bodies : Shows(d, png[d])' /\ Shows(d, cache[d])'
      /\ Shows(lane.digest, lane.html)'
  BY <1>n, <1>1, <1>2 DEF Shows
<1>5. excused \subseteq excused' /\ excused' \subseteq Bodies
  BY <1>n, <1>1 DEF TakenFrom, MaybeBody
<1>6. ASSUME body # NoBody, png[body] # NoBody \/ body \in excused \/ InLane(body)
      PROVE  png'[body] # NoBody \/ body \in excused' \/ Queued(body)
  <2>1. ~InLane(body)
    BY <1>0 DEF InLane
  <2>2. CASE body = lane.digest
    BY <1>3, <1>5, <1>6, <2>1, <2>2
  <2>3. CASE body # lane.digest /\ lane.from \notin Deferred
    BY <1>1, <1>5, <1>6, <2>1, <2>3 DEF TakenFrom
  <2>4. CASE body # lane.digest /\ lane.from \in Deferred
    BY <1>0, <1>5, <1>6, <2>4 DEF IndInv, LaneOrder
  <2> QED BY <2>2, <2>3, <2>4
<1>7. ~Rendering' /\ mixed' = mixed /\ cache' = cache
  BY <1>1, <1>2 DEF Rendering
<1> QED BY <1>0, <1>n, <1>2, <1>3, <1>4, <1>5, <1>6, <1>7, LaneWork

\* The lane takes a job from one of the queues; k is how far the jobs of high move up.
LEMMA PickInv ==
  ASSUME IndInv, UNCHANGED <<up, artifact, unscheduled, removal, png, cache, backfill, tasks, runner, history>>,
         lane.at = "pick", NEW job \in Jobs, NEW k \in {0, 1},
         lane' = [at |-> IF job.html = NoBody THEN "find" ELSE "ensure", digest |-> job.digest,
                  html |-> job.html, from |-> job.from, row |-> NoBody],
         QueueType', QueueLimits',
         Shows(job.digest, job.html), job.html # NoBody => job.from \notin Deferred,
         job.from \in Tasks => runner[job.from].at = "wait",
         \A i \in DOMAIN high' : /\ i \in Int /\ i + k \in DOMAIN high /\ high'[i] = high[i + k]
                                 /\ high[i + k].from \in Tasks => high[i + k].from # job.from,
         \A i \in DOMAIN high : high[i] = job \/ \E j \in DOMAIN high' : high'[j] = high[i],
         \A i \in DOMAIN low' : \E j \in DOMAIN low : low'[i] = low[j],
         \A i \in DOMAIN low : low[i] = job \/ \E j \in DOMAIN low' : low'[j] = low[i]
  PROVE  IndInv'
<1>0. UNCHANGED <<up, body, changes, unscheduled, removal, png, cache, backfill, tasks, runner, mixed, excused>>
  BY DEF artifact, history
<1>1. /\ lane' \in Lanes /\ lane'.at \in {"find", "ensure"} /\ lane'.digest = job.digest
      /\ lane'.html = job.html /\ lane'.from = job.from /\ job.digest \in Bodies
      /\ lane'.at = "ensure" <=> job.html # NoBody
  BY DEF Lanes, Jobs, MaybeBody, Origins
<1>2. TypeOK'
  BY <1>0, <1>1 DEF IndInv, TypeOK, ArtifactType, PictureType, LaneType, TaskType, HistoryType
<1>3. DownInv' /\ (removal => body = NoBody)'
  BY <1>0, SMTT(20) DEF IndInv, DownInv
<1>4. ShowsInv'
  <2>1. \A d \in Bodies : Shows(d, png[d])' /\ Shows(d, cache[d])'
    BY <1>0 DEF IndInv, ShowsInv, Shows
  <2>2. \A i \in DOMAIN high' : Shows(high[i].digest, high[i].html)'
    <3> SUFFICES ASSUME NEW i \in DOMAIN high' PROVE Shows(high'[i].digest, high'[i].html)
      BY <1>0 DEF Shows
    <3> QED BY DEF IndInv, ShowsInv
  <2>3. \A i \in DOMAIN low' : low'[i].html = NoBody
    BY SMTT(20) DEF IndInv, ShowsInv
  <2>4. Shows(lane.digest, lane.html)' /\ (lane.at = "read" => lane.row = lane.digest)'
    BY <1>0, <1>1 DEF Shows
  <2>5. \A t \in Tasks : /\ Shows(runner[t].digest, runner[t].html)'
                         /\ runner'[t].at = "read" => runner'[t].row = runner'[t].digest
                         /\ runner'[t].at \in {"none", "create", "mark", "find", "read"} =>
                              runner'[t].html = NoBody
    BY <1>0 DEF IndInv, ShowsInv, Shows
  <2> QED BY <2>1, <2>2, <2>3, <2>4, <2>5 DEF ShowsInv
<1>5. JobInv'
  <2>1. ASSUME NEW i \in DOMAIN high', high'[i].from \in Tasks
        PROVE  /\ runner'[high'[i].from].at = "wait"
               /\ \A j \in DOMAIN high' : high'[j].from = high'[i].from => j = i
               /\ Busy' => lane'.from # high'[i].from
    <3>1. /\ i + k \in DOMAIN high /\ high'[i] = high[i + k] /\ i \in Int
          /\ high[i + k].from # job.from
      BY <2>1
    <3>2. runner'[high'[i].from].at = "wait"
      BY <1>0, <2>1, <3>1 DEF IndInv, JobInv
    <3>3. ASSUME NEW j \in DOMAIN high', high'[j].from = high'[i].from PROVE j = i
      <4>1. j + k \in DOMAIN high /\ high'[j] = high[j + k] /\ j \in Int
        OBVIOUS
      <4>k. i \in Int /\ j \in Int /\ k \in {0, 1}
        BY <3>1, <4>1
      <4>2. j + k = i + k
        BY <2>1, <3>1, <3>3, <4>1 DEF IndInv, JobInv
      <4> QED BY ONLY <4>k, <4>2, SameShift, ZenonT(30)
    <3> QED BY <1>1, <3>1, <3>2, <3>3
  <2>2. \A i \in DOMAIN low' : low'[i].from \notin Tasks
    BY DEF IndInv, JobInv
  <2>3. \A i \in DOMAIN high' : high'[i].html # NoBody => high'[i].from \notin Deferred
    BY SMTT(20) DEF IndInv, JobInv
  <2>4. /\ lane'.from \in Tasks => runner'[lane'.from].at = "wait"
        /\ lane'.digest \in Bodies /\ lane'.at \notin {"render", "persist"}
    BY <1>0, <1>1
  <2>5. \A t \in Tasks : runner'[t].at \in {"read", "remove", "enqueue"} => runner'[t].digest \in Bodies
    BY <1>0 DEF IndInv, JobInv
  <2> QED BY <2>1, <2>2, <2>3, <2>4, <2>5 DEF JobInv
<1>6. LaneOrder'
  BY <1>1 DEF LaneOrder, Rendering
<1>7. GalleryInv'
  <2> SUFFICES ASSUME up, body # NoBody
               PROVE  png[body] # NoBody \/ body \in excused \/ Elsewhere(body)' \/ InLane(body)'
    BY <1>0, SMTT(20) DEF GalleryInv
  <2>1. job.digest = body => InLane(body)'
    BY <1>0, <1>1 DEF InLane, Rendering
  <2>2. Queued(body) => Queued(body)' \/ job.digest = body
    BY <1>0, SMTT(20) DEF Queued
  <2>3. (\E i \in DOMAIN low : low[i].digest = body)
          => job.digest = body \/ \E i \in DOMAIN low' : low'[i].digest = body
    BY SMTT(20)
  <2>4. Elsewhere(body) => Elsewhere(body)' \/ job.digest = body
    BY <1>0, <2>2, <2>3 DEF Elsewhere
  <2>5. ~InLane(body)
    BY DEF InLane, Rendering
  <2> QED BY <2>1, <2>4, <2>5 DEF IndInv, GalleryInv
<1>8. \A s \in Tasks : runner'[s].at = "create" => tasks'[s] = NoTask
  BY <1>0 DEF IndInv
<1> QED BY <1>2, <1>3, <1>4, <1>5, <1>6, <1>7, <1>8 DEF IndInv

\* drain: the next job, high before low, or the end.
LEMMA LanePickInv ==
  ASSUME IndInv, LanePick
  PROVE  IndInv'
<1>0. /\ UNCHANGED <<up, artifact, unscheduled, removal, png, cache, backfill, tasks, runner, history>>
      /\ lane.at = "pick" /\ UNCHANGED reserved /\ lane \in Lanes
      /\ high \in Seq(Jobs) /\ low \in Seq(Jobs) /\ reserved \in Int
      /\ Len(high) + Len(low) <= MaxPending /\ reserved <= MaxPendingBytes /\ MaxPending \in Nat
  BY PreviewAssumption DEF LanePick, IndInv, TypeOK, LaneType, QueueType, QueueLimits
<1>1. CASE high # <<>>
  <2>1. PICK job : job = Head(high)
    OBVIOUS
  <2>2. /\ lane' = [at |-> IF job.html = NoBody THEN "find" ELSE "ensure", digest |-> job.digest,
                    html |-> job.html, from |-> job.from, row |-> NoBody]
        /\ high' = Tail(high) /\ UNCHANGED low
    BY <1>1, <2>1 DEF LanePick
  <2>3. /\ job \in Jobs /\ 1 \in DOMAIN high /\ job = high[1]
        /\ high' \in Seq(Jobs) /\ Len(high') = Len(high) - 1 /\ Len(high) \in Nat
        /\ \A i \in DOMAIN high' : i + 1 \in DOMAIN high /\ high'[i] = high[i + 1] /\ i \in Int /\ i + 1 # 1
        /\ \A i \in DOMAIN high : i # 1 => i - 1 \in DOMAIN high' /\ high'[i - 1] = high[i]
    <3>1. high \in Seq(Jobs) /\ high # <<>> /\ high' = Tail(high) /\ job = Head(high)
      BY <1>0, <1>1, <2>1, <2>2
    <3> QED BY ONLY <3>1, SMTT(20)
  <2>4. QueueType' /\ lane'.at # "off"
    BY <1>0, <2>2, <2>3 DEF QueueType
  <2>5. QueueLimits'
    BY <1>0, <2>2, <2>3, <2>4, SMTT(20) DEF QueueLimits
  <2>6. /\ Shows(job.digest, job.html) /\ (job.html # NoBody => job.from \notin Deferred)
        /\ job.from \in Tasks => runner[job.from].at = "wait"
    BY <2>3 DEF IndInv, ShowsInv, JobInv
  <2>7. \A i \in DOMAIN high' : high[i + 1].from \in Tasks => high[i + 1].from # job.from
    BY <2>3 DEF IndInv, JobInv
  <2>8. \A i \in DOMAIN high : high[i] = job \/ \E j \in DOMAIN high' : high'[j] = high[i]
    BY <2>3
  <2> QED BY <1>0, <2>2, <2>3, <2>4, <2>5, <2>6, <2>7, <2>8, PickInv
<1>2. CASE high = <<>> /\ low # <<>>
  <2>1. PICK job : job = Head(low)
    OBVIOUS
  <2>2. /\ lane' = [at |-> IF job.html = NoBody THEN "find" ELSE "ensure", digest |-> job.digest,
                    html |-> job.html, from |-> job.from, row |-> NoBody]
        /\ low' = Tail(low) /\ UNCHANGED high
    BY <1>2, <2>1 DEF LanePick
  <2>3. /\ job \in Jobs /\ 1 \in DOMAIN low /\ job = low[1]
        /\ low' \in Seq(Jobs) /\ Len(low') = Len(low) - 1 /\ Len(low) \in Nat
        /\ \A i \in DOMAIN low' : i + 1 \in DOMAIN low /\ low'[i] = low[i + 1]
        /\ \A i \in DOMAIN low : i # 1 => i - 1 \in DOMAIN low' /\ low'[i - 1] = low[i]
    BY <1>0, <1>2, <2>1, <2>2, TailJobs, SMTT(20)
  <2>4. QueueType' /\ lane'.at # "off"
    BY <1>0, <2>2, <2>3 DEF QueueType
  <2>5. QueueLimits'
    BY <1>0, <2>2, <2>3, <2>4, SMTT(20) DEF QueueLimits
  <2>6. job.html = NoBody /\ job.from \notin Tasks /\ Shows(job.digest, job.html)
    BY <2>3 DEF IndInv, ShowsInv, JobInv, Shows
  <2>7. DOMAIN high = {} /\ DOMAIN high' = {}
    BY <1>2, <2>2, SMTT(20)
  <2>8. /\ \A i \in DOMAIN low' : \E j \in DOMAIN low : low'[i] = low[j]
        /\ \A i \in DOMAIN low : low[i] = job \/ \E j \in DOMAIN low' : low'[j] = low[i]
    BY <2>3
  <2> QED BY <1>0, <2>2, <2>3, <2>4, <2>5, <2>6, <2>7, <2>8, PickInv
<1>3. CASE high = <<>> /\ low = <<>>
  <2>1. lane' = Off /\ UNCHANGED <<high, low>>
    BY <1>3 DEF LanePick
  <2>2. UNCHANGED <<up, body, changes, unscheduled, removal, png, cache, backfill, tasks, runner,
                    mixed, excused, reserved>>
    BY <1>0 DEF artifact, history
  <2>3. /\ lane' \in Lanes /\ lane'.at = "off" /\ lane'.html = NoBody
    BY <2>1 DEF Off, Lanes, MaybeBody
  <2>4. TypeOK'
    BY <2>1, <2>2, <2>3 DEF IndInv, TypeOK, ArtifactType, PictureType, QueueType, LaneType, TaskType,
                            HistoryType
  <2>5. QueueLimits' /\ DownInv' /\ (removal => body = NoBody)'
    BY <1>3, <2>1, <2>2, <2>3 DEF IndInv, QueueLimits, DownInv
  <2>6. ShowsInv'
    BY <2>1, <2>2, <2>3 DEF IndInv, ShowsInv, Shows
  <2>7. JobInv'
    BY <1>3, <2>1, <2>2, <2>3 DEF IndInv, JobInv, Busy
  <2>8. LaneOrder'
    BY <2>3 DEF LaneOrder, Rendering
  <2>9. \A b : ~InLane(b) /\ (Elsewhere(b) => Elsewhere(b)')
    BY <1>0, <2>1, <2>2 DEF InLane, Rendering, Elsewhere, Queued
  <2>10. GalleryInv'
    BY <2>2, <2>9 DEF IndInv, GalleryInv
  <2>11. \A s \in Tasks : runner'[s].at = "create" => tasks'[s] = NoTask
    BY <2>2 DEF IndInv
  <2> QED BY <2>4, <2>5, <2>6, <2>7, <2>8, <2>10, <2>11 DEF IndInv
<1> QED BY <1>1, <1>2, <1>3

\* The job's reservation is released and its task answered.
LEMMA LaneFinishInv ==
  ASSUME IndInv, LaneFinish,
         UNCHANGED <<up, artifact, unscheduled, removal, png, cache, high, low, backfill, tasks, history>>
  PROVE  IndInv'
<1>0. UNCHANGED <<up, body, changes, unscheduled, removal, png, cache, high, low, backfill, tasks,
                  mixed, excused>>
  BY DEF artifact, history
<1>1. /\ lane.at \in {"stored", "nothing"} /\ reserved' = reserved - Bytes[lane.digest]
      /\ runner' = Answered /\ lane' = [Off EXCEPT !.at = "pick"]
  BY DEF LaneFinish
<1>2. /\ Busy /\ ~Rendering /\ runner \in [Tasks -> Runners] /\ reserved \in Int /\ lane.digest \in Bodies
      /\ reserved <= MaxPendingBytes
      /\ lane.from \in Tasks => runner[lane.from].at = "wait"
  BY <1>1 DEF Busy, Rendering, IndInv, TypeOK, TaskType, QueueType, QueueLimits, JobInv
<1>3. /\ lane' \in Lanes /\ lane'.at = "pick" /\ lane'.html = NoBody
  BY <1>1 DEF Off, Lanes, MaybeBody, Origins
<1>4. /\ runner' \in [Tasks -> Runners] /\ \A t \in Tasks : t # lane.from => runner'[t] = runner[t]
      /\ \A t \in Tasks : t = lane.from => /\ runner'[t].at \in {"complete", "fail"}
                                           /\ runner'[t].digest = runner[t].digest
                                           /\ runner'[t].html = runner[t].html
  <2> DEFINE at == IF lane.at = "stored" THEN "complete" ELSE "fail"
  <2>1. at \in {"complete", "fail"}
    OBVIOUS
  <2>2. runner' = [t \in Tasks |-> IF t # lane.from THEN runner[t] ELSE [runner[t] EXCEPT !.at = at]]
    BY <1>1 DEF Answered
  <2> HIDE DEF at
  <2>3. ASSUME NEW t \in Tasks
        PROVE  LET r == [runner[t] EXCEPT !.at = at]
               IN  r \in Runners /\ r.at = at /\ r.digest = runner[t].digest /\ r.html = runner[t].html
    <3>1. runner[t] \in Runners
      BY <1>2
    <3> QED BY <2>1, <3>1 DEF Runners
  <2> QED BY <1>2, <2>1, <2>2, <2>3
<1>5. reserved' \in Int /\ reserved' <= MaxPendingBytes
  BY <1>1, <1>2, PreviewAssumption, SMTT(20)
<1>6. TypeOK'
  BY <1>0, <1>3, <1>4, <1>5 DEF IndInv, TypeOK, ArtifactType, PictureType, QueueType, LaneType, TaskType,
                                HistoryType
<1>7. QueueLimits'
  BY <1>0, <1>3, <1>5 DEF IndInv, QueueLimits
<1>8. up
  BY <1>1 DEF IndInv, DownInv
<1>9. DownInv' /\ (removal => body = NoBody)'
  BY <1>0, <1>8, SMTT(20) DEF IndInv, DownInv
<1>10. ShowsInv'
  <2>1. \A d \in Bodies : Shows(d, png[d])' /\ Shows(d, cache[d])'
    BY <1>0 DEF IndInv, ShowsInv, Shows
  <2>2. \A i \in DOMAIN high' : Shows(high[i].digest, high[i].html)'
    BY <1>0 DEF IndInv, ShowsInv, Shows
  <2>3. \A i \in DOMAIN low' : low'[i].html = NoBody
    BY <1>0 DEF IndInv, ShowsInv
  <2>4. Shows(lane.digest, lane.html)' /\ (lane.at = "read" => lane.row = lane.digest)'
    BY <1>3 DEF Shows
  <2>5. ASSUME NEW t \in Tasks
        PROVE  /\ Shows(runner[t].digest, runner[t].html)'
               /\ runner'[t].at = "read" => runner'[t].row = runner'[t].digest
               /\ runner'[t].at \in {"none", "create", "mark", "find", "read"} =>
                    runner'[t].html = NoBody
    <3>1. CASE t = lane.from
      BY <1>0, <1>4, <3>1 DEF IndInv, ShowsInv, Shows
    <3>2. CASE t # lane.from
      BY <1>0, <1>4, <3>2 DEF IndInv, ShowsInv, Shows
    <3> QED BY <3>1, <3>2
  <2> QED BY <2>1, <2>2, <2>3, <2>4, <2>5 DEF ShowsInv
<1>11. JobInv'
  <2>1. ~Busy'
    BY <1>3 DEF Busy
  <2>2. \A i \in DOMAIN high : high[i].from \in Tasks =>
          /\ high[i].from # lane.from /\ runner[high[i].from].at = "wait"
          /\ \A j \in DOMAIN high : high[j].from = high[i].from => j = i
    BY <1>2 DEF IndInv, JobInv
  <2>3. \A i \in DOMAIN high' : high'[i].from \in Tasks =>
          /\ runner'[high'[i].from].at = "wait"
          /\ \A j \in DOMAIN high' : high'[j].from = high'[i].from => j = i
    BY <1>0, <1>4, <2>2, SMTT(20)
  <2>4. \A t \in Tasks : runner'[t].at \in {"read", "remove", "enqueue"} => runner'[t].digest \in Bodies
    BY <1>4 DEF IndInv, JobInv
  <2>5. /\ \A i \in DOMAIN low' : low'[i].from \notin Tasks
        /\ \A i \in DOMAIN high' : high'[i].html # NoBody => high'[i].from \notin Deferred
    BY <1>0 DEF IndInv, JobInv
  <2> QED BY <1>3, <2>1, <2>3, <2>4, <2>5 DEF JobInv
<1>12. LaneOrder'
  BY <1>3 DEF LaneOrder, Rendering
<1>13. GalleryInv'
  <2>1. \A t \in Tasks : runner[t].at \in {"remove", "enqueue"} => runner'[t] = runner[t]
    BY <1>2, <1>4
  <2>2. \A b : ~InLane(b) /\ (Elsewhere(b) => Elsewhere(b)')
    BY <1>0, <1>1, <1>2, <2>1 DEF InLane, Elsewhere, Queued
  <2> QED BY <1>0, <2>2, SMTT(20) DEF IndInv, GalleryInv
<1>14. \A s \in Tasks : runner'[s].at = "create" => tasks'[s] = NoTask
  BY <1>0, <1>4 DEF IndInv
<1> QED BY <1>6, <1>7, <1>9, <1>10, <1>11, <1>12, <1>13, <1>14 DEF IndInv

\* Every step of the lane.
LEMMA LaneStepInv ==
  ASSUME IndInv, LaneStep
  PROVE  IndInv'
<1>1. CASE LanePick
  BY <1>1, LanePickInv
<1>2. CASE LaneFinish /\ UNCHANGED <<up, artifact, unscheduled, removal, png, cache, high, low, backfill,
                                     tasks, asked, forgotten, history, faults>>
  <2>1. UNCHANGED <<up, artifact, unscheduled, removal, png, cache, high, low, backfill, tasks, history>>
    BY <1>2
  <2> QED BY <1>2, <2>1, LaneFinishInv
<1>3. CASE /\ \/ (LaneFind \/ LaneRead \/ LaneEnsure) /\ UNCHANGED <<png, cache>>
              \/ LaneRender /\ UNCHANGED png
              \/ (LanePersist \/ LaneSweep) /\ UNCHANGED cache
           /\ UNCHANGED <<up, artifact, unscheduled, removal, queue, backfill, tasks, runner, asked,
                          forgotten>>
  <2>1. UNCHANGED <<up, artifact, unscheduled, removal, queue, backfill, tasks, runner>>
    BY <1>3
  <2> QED BY <1>3, <2>1, LaneFindInv, LaneReadInv, LaneEnsureInv, LaneRenderInv, LanePersistInv,
             LaneSweepInv
<1> QED BY <1>1, <1>2, <1>3 DEF LaneStep

-----------------------------------------------------------------------------
(* The artifact and the process *)

\* A mutation of the artifact: its own job is still to be scheduled.
LEMMA MutateInv ==
  ASSUME IndInv, NEW b \in Bodies, Mutate(b)
  PROVE  IndInv'
<1>0. /\ up /\ body # NoBody /\ body' = b /\ changes' = changes + 1 /\ changes \in Nat
      /\ unscheduled' = unscheduled \cup {<<changes + 1, b>>} /\ unscheduled \subseteq Nat \X Bodies
      /\ UNCHANGED <<up, png, cache, queue, lane, backfill, tasks, runner, history, removal>>
  BY DEF Mutate, IdlePreviews, IndInv, TypeOK, ArtifactType
<1>1. UNCHANGED <<up, png, cache, high, low, reserved, lane, backfill, tasks, runner, mixed, excused, removal>>
  BY <1>0 DEF queue, history
<1>2. ArtifactType' /\ body' \in Bodies
  BY <1>0, SMTT(20) DEF ArtifactType, MaybeBody
<1>3. TypeOK'
  BY <1>1, <1>2 DEF IndInv, TypeOK, PictureType, QueueType, LaneType, TaskType, HistoryType
<1>4. QueueLimits' /\ DownInv' /\ (removal => body = NoBody)'
  BY <1>0, <1>1, SMTT(20) DEF IndInv, QueueLimits, DownInv
<1>5. ShowsInv'
  BY <1>1 DEF IndInv, ShowsInv, Shows
<1>6. JobInv'
  BY <1>1 DEF IndInv, JobInv, Busy
<1>7. Queued(body)'
  <2>1. <<changes + 1, b>> \in unscheduled' /\ <<changes + 1, b>>[2] = body'
    BY <1>0
  <2> QED BY <2>1 DEF Queued
<1>8. LaneOrder' /\ GalleryInv'
  BY <1>7 DEF LaneOrder, GalleryInv, Elsewhere
<1>9. \A s \in Tasks : runner'[s].at = "create" => tasks'[s] = NoTask
  BY <1>1 DEF IndInv
<1> QED BY <1>3, <1>4, <1>5, <1>6, <1>8, <1>9 DEF IndInv

\* The artifact is deleted, and its previews after it.
LEMMA DeleteInv ==
  ASSUME IndInv, Delete \/ RemoveDeleted
  PROVE  IndInv'
<1>0. /\ body' = NoBody /\ changes' \in Nat
      /\ UNCHANGED <<up, unscheduled, cache, queue, lane, backfill, tasks, runner, history>>
      /\ png' \in [Bodies -> MaybeBody] /\ \A d \in Bodies : png'[d] \in {png[d], NoBody}
  <2>1. CASE Delete
    BY <2>1, SMTT(20) DEF Delete, IdlePreviews, IndInv, TypeOK, ArtifactType, PictureType
  <2>2. CASE RemoveDeleted
    BY <2>2 DEF RemoveDeleted, artifact, NoPngs, MaybeBody, IndInv, TypeOK, ArtifactType
  <2> QED BY <2>1, <2>2
<1>1. UNCHANGED <<up, unscheduled, cache, high, low, reserved, lane, backfill, tasks, runner, mixed, excused>>
  BY <1>0 DEF queue, history
<1>2. TypeOK'
  BY <1>0, <1>1 DEF IndInv, TypeOK, ArtifactType, PictureType, QueueType, LaneType, TaskType, HistoryType,
                    MaybeBody
<1>3. QueueLimits' /\ DownInv'
  BY <1>1 DEF IndInv, QueueLimits, DownInv
<1>4. ShowsInv'
  <2>1. \A d \in Bodies : Shows(d, png[d])'
    BY <1>0, <1>1 DEF IndInv, ShowsInv, Shows
  <2> QED BY <1>1, <2>1 DEF IndInv, ShowsInv, Shows
<1>5. JobInv'
  BY <1>1 DEF IndInv, JobInv, Busy
<1>6. LaneOrder' /\ GalleryInv'
  BY <1>0 DEF LaneOrder, GalleryInv
<1>7. \A s \in Tasks : runner'[s].at = "create" => tasks'[s] = NoTask
  BY <1>1 DEF IndInv
<1> QED BY <1>0, <1>2, <1>3, <1>4, <1>5, <1>6, <1>7 DEF IndInv

\* The process dies.
LEMMA CrashInv ==
  ASSUME IndInv, Crash
  PROVE  IndInv'
<1>0. /\ up' = FALSE /\ unscheduled' = {} /\ removal' = FALSE /\ cache' = NoPngs
      /\ high' = <<>> /\ low' = <<>> /\ reserved' = 0 /\ lane' = Off /\ backfill' = NoBody
      /\ runner' = [t \in Tasks |-> NoRunner] /\ UNCHANGED <<body, changes, png, tasks, mixed, excused>>
  BY DEF Crash, artifact, history
<1>1. /\ lane' \in Lanes /\ lane'.at = "off" /\ lane'.html = NoBody /\ cache' \in [Bodies -> MaybeBody]
      /\ \A d \in Bodies : cache'[d] = NoBody
  BY <1>0 DEF Off, Lanes, MaybeBody, NoPngs
<1>2. runner' \in [Tasks -> Runners] /\ \A t \in Tasks : runner'[t].at = "none" /\ runner'[t].html = NoBody
  BY <1>0 DEF NoRunner, Runners, MaybeBody
<1>3. DOMAIN high' = {} /\ DOMAIN low' = {} /\ Len(high') = 0 /\ Len(low') = 0
      /\ high' \in Seq(Jobs) /\ low' \in Seq(Jobs)
  BY <1>0, SMTT(20)
<1>4. TypeOK'
  <2>1. ArtifactType' /\ PictureType' /\ HistoryType' /\ up' \in BOOLEAN
    BY <1>0, <1>1 DEF IndInv, TypeOK, ArtifactType, PictureType, HistoryType
  <2>2. QueueType' /\ LaneType' /\ TaskType'
    BY <1>0, <1>1, <1>2, <1>3, SMTT(20) DEF IndInv, TypeOK, QueueType, LaneType, TaskType, MaybeBody
  <2> QED BY <2>1, <2>2 DEF TypeOK
<1>5. QueueLimits' /\ DownInv' /\ (removal => body = NoBody)'
  BY PreviewAssumption, <1>0, <1>1, <1>2, <1>3, SMTT(20) DEF QueueLimits, DownInv
<1>6. ShowsInv'
  <2>1. \A d \in Bodies : Shows(d, png[d])'
    BY <1>0 DEF IndInv, ShowsInv, Shows
  <2> QED BY <1>1, <1>2, <1>3, <2>1 DEF ShowsInv, Shows
<1>7. JobInv'
  BY <1>1, <1>2, <1>3 DEF JobInv, Busy
<1>8. LaneOrder' /\ GalleryInv'
  BY <1>0, <1>1 DEF LaneOrder, GalleryInv, Rendering
<1>9. \A s \in Tasks : runner'[s].at = "create" => tasks'[s] = NoTask
  BY <1>2
<1> QED BY <1>4, <1>5, <1>6, <1>7, <1>8, <1>9 DEF IndInv

\* The next start: the audit, the backfill for the artifact as it is, the working tasks.
LEMMA RestartInv ==
  ASSUME IndInv, Restart
  PROVE  IndInv'
<1>0. /\ ~up /\ up' = TRUE /\ png' = Audited /\ backfill' = body /\ excused' = {}
      /\ UNCHANGED <<body, changes, unscheduled, removal, cache, high, low, reserved, lane, tasks, mixed>>
  BY DEF Restart, WarmPreviews, artifact, queue
<1>1. lane.at = "off" /\ high = <<>> /\ low = <<>>
  BY <1>0 DEF IndInv, DownInv, QueueLimits
<1>2. PICK skipped \in SUBSET Working : Resume(skipped)
  BY DEF Restart
<1>3. /\ runner' \in [Tasks -> Runners]
      /\ \A t \in Tasks : runner'[t].at \in {"none", "mark"} /\ runner'[t].html = NoBody
  <2>1. /\ NoRunner \in Runners /\ NoRunner.at = "none" /\ NoRunner.html = NoBody
        /\ [NoRunner EXCEPT !.at = "mark"] \in Runners
        /\ [NoRunner EXCEPT !.at = "mark"].at = "mark" /\ [NoRunner EXCEPT !.at = "mark"].html = NoBody
    BY DEF NoRunner, Runners, MaybeBody
  <2> QED BY <1>2, <2>1 DEF Resume
<1>4. png' \in [Bodies -> MaybeBody] /\ \A d \in Bodies : png'[d] \in {png[d], NoBody}
  BY <1>0 DEF Audited, IndInv, TypeOK, PictureType, MaybeBody
<1>5. DOMAIN high' = {} /\ DOMAIN low' = {}
  BY <1>0, <1>1, SMTT(20)
<1>6. TypeOK'
  BY <1>0, <1>3, <1>4 DEF IndInv, TypeOK, ArtifactType, PictureType, QueueType, LaneType, TaskType, HistoryType
<1>7. QueueLimits' /\ DownInv' /\ (removal => body = NoBody)'
  BY <1>0 DEF IndInv, QueueLimits, DownInv
<1>8. ShowsInv'
  <2>1. \A d \in Bodies : Shows(d, png[d])' /\ Shows(d, cache[d])'
    BY <1>0, <1>4 DEF IndInv, ShowsInv, Shows
  <2>2. Shows(lane.digest, lane.html)' /\ (lane.at = "read" => lane.row = lane.digest)'
    BY <1>0 DEF IndInv, ShowsInv, Shows
  <2> QED BY <1>3, <1>5, <2>1, <2>2 DEF ShowsInv, Shows
<1>9. JobInv'
  BY <1>0, <1>1, <1>3, <1>5 DEF JobInv, Busy
<1>10. LaneOrder' /\ GalleryInv'
  BY <1>0, <1>1 DEF LaneOrder, GalleryInv, Rendering, Elsewhere
<1>11. \A s \in Tasks : runner'[s].at = "create" => tasks'[s] = NoTask
  BY <1>3
<1> QED BY <1>6, <1>7, <1>8, <1>9, <1>10, <1>11 DEF IndInv

\* A publish has just committed.
LEMMA InitInv ==
  ASSUME Init
  PROVE  IndInv
<1>0. /\ up = TRUE /\ body \in Bodies /\ changes = 0 /\ unscheduled = {<<0, body>>} /\ removal = FALSE
      /\ png = NoPngs /\ cache = NoPngs /\ high = <<>> /\ low = <<>> /\ reserved = 0
      /\ lane = Off /\ backfill = NoBody /\ tasks = [t \in Tasks |-> NoTask]
      /\ runner = [t \in Tasks |-> NoRunner] /\ mixed = {} /\ excused = {}
  BY DEF Init
<1>1. /\ lane \in Lanes /\ lane.at = "off" /\ lane.html = NoBody
      /\ png \in [Bodies -> MaybeBody] /\ cache \in [Bodies -> MaybeBody]
      /\ \A d \in Bodies : png[d] = NoBody /\ cache[d] = NoBody
  BY <1>0 DEF Off, Lanes, MaybeBody, NoPngs
<1>2. runner \in [Tasks -> Runners] /\ \A t \in Tasks : runner[t].at = "none" /\ runner[t].html = NoBody
  BY <1>0 DEF NoRunner, Runners, MaybeBody
<1>3. DOMAIN high = {} /\ DOMAIN low = {} /\ Len(high) = 0 /\ Len(low) = 0
      /\ high \in Seq(Jobs) /\ low \in Seq(Jobs)
  BY <1>0, SMTT(20)
<1>4. TypeOK
  <2>1. ArtifactType /\ PictureType /\ HistoryType /\ up \in BOOLEAN
    BY <1>0, <1>1, SMTT(20) DEF ArtifactType, PictureType, HistoryType, MaybeBody
  <2>2. QueueType /\ LaneType /\ TaskType
    BY <1>0, <1>1, <1>2, <1>3, SMTT(20) DEF QueueType, LaneType, TaskType, MaybeBody, TaskFiles, NoTask
  <2> QED BY <2>1, <2>2 DEF TypeOK
<1>5. QueueLimits /\ DownInv /\ (removal => body = NoBody)
  BY PreviewAssumption, <1>0, <1>1, <1>3, SMTT(20) DEF QueueLimits, DownInv
<1>6. ShowsInv
  BY <1>1, <1>2, <1>3 DEF ShowsInv, Shows
<1>7. JobInv
  BY <1>1, <1>2, <1>3 DEF JobInv, Busy
<1>8. LaneOrder
  BY <1>1 DEF LaneOrder, Rendering
<1>9. GalleryInv
  <2>1. Queued(body)
    BY <1>0 DEF Queued
  <2> QED BY <2>1 DEF GalleryInv, Elsewhere
<1>10. \A s \in Tasks : runner[s].at = "create" => tasks[s] = NoTask
  BY <1>2
<1> QED BY <1>4, <1>5, <1>6, <1>7, <1>8, <1>9, <1>10 DEF IndInv

\* Every step keeps the invariant.
LEMMA NextInv ==
  ASSUME IndInv, LookupInv, [Next]_vars
  PROVE  IndInv' /\ LookupInv'
<1>l. ASSUME UNCHANGED <<up, lookup>> PROVE LookupInv'
  BY <1>l DEF LookupInv
<1>1. CASE UNCHANGED vars
  <2>1. UNCHANGED <<up, artifact, unscheduled, removal, png, cache, queue, lane, backfill, tasks, runner,
                    history>> /\ UNCHANGED lookup
    BY <1>1 DEF vars, asked
  <2> QED BY <1>l, <2>1, SameInv
<1>2. CASE \E b \in Bodies : Mutate(b)
  BY <1>2, <1>l, MutateInv DEF Mutate, IdlePreviews, asked
<1>3. CASE Delete \/ RemoveDeleted
  BY <1>3, <1>l, DeleteInv DEF Delete, RemoveDeleted, IdlePreviews, asked
<1>4. CASE \E u \in unscheduled : Schedule(u)
  BY <1>4, <1>l, ScheduleInv DEF Schedule, asked
<1>5. CASE LaneStep
  BY <1>5, <1>l, LaneStepInv DEF LaneStep, LanePick, asked
<1>6. CASE Backfill
  BY <1>6, <1>l, BackfillInv DEF Backfill, asked
<1>7. ASSUME NEW t \in Tasks, TaskRequest(t) PROVE IndInv' /\ LookupInv'
  BY <1>7, <1>l, TaskRequestInv DEF TaskRequest
<1>8. ASSUME NEW t \in Tasks, RunTask(t) PROVE IndInv' /\ LookupInv'
  <2>1. UNCHANGED <<up, artifact, unscheduled, removal, cache, backfill>> /\ UNCHANGED lookup
    BY <1>8 DEF RunTask, asked
  <2>2. LookupInv'
    BY <1>l, <2>1
  <2> QED BY <1>8, <2>1, <2>2, RunTaskInv, EndSyncInv, FindSourceInv, ReadSourceInv, RemoveStoredInv,
             EnqueueReadyInv DEF RunTask
<1>9. CASE Crash
  <2>1. NoLookup \in Lookups /\ NoLookup.at = "none" /\ lookup' = [w \in Workers |-> NoLookup]
    BY <1>9 DEF Crash, Lookups, NoLookup, MaybeBody
  <2> QED BY <1>9, <2>1, CrashInv DEF LookupInv
<1>10. CASE Restart
  <2>1. UNCHANGED lookup /\ up'
    BY <1>10 DEF Restart, asked
  <2> QED BY <1>10, <2>1, RestartInv DEF LookupInv
<1>11. ASSUME NEW w \in Workers, DeliveryStep(w) PROVE IndInv' /\ LookupInv'
  BY <1>11, DeliveryStepInv
<1> QED BY <1>1, <1>2, <1>3, <1>4, <1>5, <1>6, <1>7, <1>8, <1>9, <1>10, <1>11 DEF Next

-----------------------------------------------------------------------------
(* The bytes of the queue *)

\* The bytes of the job at position i carry its position.
LEMMA JobUnit ==
  ASSUME NEW i, NEW d \in Bodies, NEW u
  PROVE  u \in JobUnits(i, d) <=> \E k \in Nat : k \in 1..Bytes[d] /\ u = <<i, k>>
<1>0. PICK n \in Nat : n = Bytes[d]
  BY PreviewAssumption
<1>1. JobUnits(i, d) = {i} \X (1..n)
  BY <1>0 DEF JobUnits
<1>2. ASSUME u \in JobUnits(i, d) PROVE \E k \in Nat : k \in 1..n /\ u = <<i, k>>
  BY ONLY <1>1, <1>2, SMTT(20)
<1>3. ASSUME NEW k \in 1..n, u = <<i, k>> PROVE u \in JobUnits(i, d)
  BY ONLY <1>1, <1>3, SMTT(20)
<1> QED BY <1>0, <1>2, <1>3

\* A job occupies as many bytes as it reserves.
LEMMA JobSize ==
  ASSUME NEW i, NEW d \in Bodies
  PROVE  IsFiniteSet(JobUnits(i, d)) /\ Cardinality(JobUnits(i, d)) = Bytes[d] /\ Bytes[d] \in Nat
<1>0. PICK n \in Nat : n = Bytes[d]
  BY PreviewAssumption
<1> DEFINE S == JobUnits(i, d)
           f == [k \in 1..n |-> <<i, k>>]
<1>1. \A u : u \in S <=> \E k \in Nat : k \in 1..n /\ u = <<i, k>>
  <2> SUFFICES ASSUME NEW u PROVE u \in S <=> \E k \in Nat : k \in 1..n /\ u = <<i, k>>
    OBVIOUS
  <2> QED BY ONLY <1>0, JobUnit, SMTT(20)
<1>2. 1..n \subseteq Nat
  BY ONLY SMTT(20)
<1> HIDE DEF S
<1>3. f \in [1..n -> S] /\ \A k \in 1..n : f[k] = <<i, k>>
  BY <1>1, <1>2
<1>4. \A k, l \in 1..n : f[k] = f[l] => k = l
  BY <1>3, SMTT(20)
<1> HIDE DEF f
<1>5. f \in Bijection(1..n, S)
  BY <1>1, <1>3, <1>4 DEF Bijection, Injection, Surjection, IsInjective
<1>6. ExistsBijection(1..n, S)
  BY <1>5 DEF ExistsBijection
<1>7. IsFiniteSet(S) /\ Cardinality(S) = n
  BY <1>6, FS_CountingElements, FS_NatBijection
<1> QED BY <1>0, <1>7 DEF S

\* A byte that waits belongs to a job that waits.
LEMMA UnitsOf ==
  ASSUME NEW s
  PROVE  \A u : u \in Units(s) <=> \E i \in DOMAIN s : u \in JobUnits(i, s[i].digest)
BY DEF Units

\* Jobs are for digests of bodies.
LEMMA JobDigests ==
  ASSUME NEW s \in Seq(Jobs)
  PROVE  \A i \in DOMAIN s : i \in Int /\ s[i].digest \in Bodies
<1>1. \A i \in DOMAIN s : i \in Int /\ s[i] \in Jobs
  BY SMTT(20)
<1> QED BY <1>1 DEF Jobs

\* An admitted job adds its bytes to those that wait.
LEMMA AppendUnits ==
  ASSUME NEW s \in Seq(Jobs), NEW job \in Jobs, IsFiniteSet(Units(s)), NEW r, r = Append(s, job)
  PROVE  /\ IsFiniteSet(Units(r))
         /\ Cardinality(Units(r)) = Cardinality(Units(s)) + Bytes[job.digest]
<1> DEFINE new == JobUnits(Len(s) + 1, job.digest)
<1>1. /\ DOMAIN r = DOMAIN s \cup {Len(s) + 1} /\ Len(s) + 1 \notin DOMAIN s
      /\ r[Len(s) + 1] = job /\ \A i \in DOMAIN s : r[i] = s[i]
  BY AppendJobs, SMTT(20)
<1>2. job.digest \in Bodies /\ \A i \in DOMAIN s : s[i].digest \in Bodies
  BY JobDigests DEF Jobs
<1>3. IsFiniteSet(new) /\ Cardinality(new) = Bytes[job.digest] /\ Bytes[job.digest] \in Nat
  BY <1>2, JobSize
<1>4. Units(r) = Units(s) \cup new
  <2>1. \A u : u \in Units(r) <=> \E i \in DOMAIN r : u \in JobUnits(i, r[i].digest)
    BY UnitsOf
  <2>2. \A u : u \in Units(s) <=> \E i \in DOMAIN s : u \in JobUnits(i, s[i].digest)
    BY UnitsOf
  <2> QED BY ONLY <1>1, <2>1, <2>2, ZenonT(30)
<1>5. Units(s) \cap new = {}
  <2>1. ASSUME NEW u \in Units(s), u \in new PROVE FALSE
    <3>1. PICK i \in DOMAIN s : u \in JobUnits(i, s[i].digest)
      BY DEF Units
    <3>0. s[i].digest \in Bodies
      BY <1>2
    <3>2. PICK k \in Nat : u = <<i, k>>
      BY ONLY <3>0, <3>1, JobUnit, SMTT(20)
    <3>3. PICK l \in Nat : u = <<Len(s) + 1, l>>
      <4>1. job.digest \in Bodies
        BY <1>2
      <4> QED BY ONLY <2>1, <4>1, JobUnit, SMTT(20)
    <3>4. i = Len(s) + 1
      BY ONLY <3>2, <3>3, SMTT(20)
    <3> QED BY <1>1, <3>4
  <2> QED BY <2>1
<1> HIDE DEF new
<1>6. /\ IsFiniteSet(Units(s) \cup new)
      /\ Cardinality(Units(s) \cup new) =
           Cardinality(Units(s)) + Cardinality(new) - Cardinality(Units(s) \cap new)
  BY <1>3, FS_Union
<1>7. Cardinality(Units(s) \cap new) = 0 /\ Cardinality(Units(s)) \in Nat
  BY <1>5, FS_EmptySet, FS_CardinalityType
<1>8. Cardinality(Units(r)) = Cardinality(Units(s)) + Bytes[job.digest]
  BY ONLY <1>3, <1>4, <1>6, <1>7, SMTT(20)
<1> QED BY <1>4, <1>6, <1>8

\* The picked job takes its bytes away from those that wait.
LEMMA TailUnits ==
  ASSUME NEW s \in Seq(Jobs), s # <<>>, IsFiniteSet(Units(s)), NEW r, r = Tail(s)
  PROVE  /\ IsFiniteSet(Units(r)) /\ Bytes[Head(s).digest] \in Nat /\ Cardinality(Units(r)) \in Nat
         /\ Cardinality(Units(s)) = Cardinality(Units(r)) + Bytes[Head(s).digest]
<1> DEFINE n == Bytes[Head(s).digest]
           first == JobUnits(1, Head(s).digest)
           rest == UNION {JobUnits(i, s[i].digest) : i \in DOMAIN s \ {1}}
           f == [u \in rest |-> <<u[1] - 1, u[2]>>]
<1>1. /\ Head(s) \in Jobs /\ 1 \in DOMAIN s /\ Head(s) = s[1]
      /\ r \in Seq(Jobs) /\ Len(r) = Len(s) - 1 /\ Len(s) \in Nat
      /\ \A i \in DOMAIN r : i + 1 \in DOMAIN s /\ r[i] = s[i + 1] /\ i \in Int /\ i + 1 # 1
      /\ \A i \in DOMAIN s : i # 1 => i - 1 \in DOMAIN r /\ r[i - 1] = s[i]
  <2>1. s \in Seq(Jobs) /\ s # <<>> /\ r = Tail(s)
    OBVIOUS
  <2> QED BY ONLY <2>1, SMTT(20)
<1>2. \A i \in DOMAIN s : i \in Int /\ s[i].digest \in Bodies
  BY JobDigests
<1>3. IsFiniteSet(first) /\ Cardinality(first) = n /\ n \in Nat
  BY <1>1, <1>2, JobSize
<1>r. \A u : u \in rest <=> \E i \in DOMAIN s : i # 1 /\ u \in JobUnits(i, s[i].digest)
  OBVIOUS
<1> HIDE DEF rest
<1>4. Units(s) = first \cup rest
  <2>1. \A u : u \in Units(s) <=> \E i \in DOMAIN s : u \in JobUnits(i, s[i].digest)
    BY UnitsOf
  <2> QED BY ONLY <1>1, <1>r, <2>1, ZenonT(30)
<1>5. first \cap rest = {}
  <2>1. ASSUME NEW u \in first, u \in rest PROVE FALSE
    <3>1. PICK i \in DOMAIN s : i # 1 /\ u \in JobUnits(i, s[i].digest)
      BY <1>r, <2>1
    <3>0. s[i].digest \in Bodies
      BY <1>2
    <3>2. PICK k \in Nat : u = <<i, k>>
      BY ONLY <3>0, <3>1, JobUnit, SMTT(20)
    <3>3. PICK l \in Nat : u = <<1, l>>
      <4>1. Head(s).digest \in Bodies
        BY <1>1, <1>2
      <4> QED BY ONLY <2>1, <4>1, JobUnit, SMTT(20)
    <3>4. i = 1
      BY ONLY <3>2, <3>3, SMTT(20)
    <3> QED BY <3>1, <3>4
  <2> QED BY <2>1
<1>6. IsFiniteSet(rest)
  BY <1>4, FS_Subset
<1>7. \A u : u \in rest <=> \E i \in DOMAIN s : i # 1 /\ \E k \in Nat : k \in 1..Bytes[s[i].digest] /\ u = <<i, k>>
  <2>1. ASSUME NEW i \in DOMAIN s, NEW u
        PROVE  u \in JobUnits(i, s[i].digest) <=>
                 \E k \in Nat : k \in 1..Bytes[s[i].digest] /\ u = <<i, k>>
    <3>1. s[i].digest \in Bodies
      BY <1>2
    <3> QED BY ONLY <3>1, JobUnit, SMTT(20)
  <2> QED BY ONLY <1>r, <2>1, SMTT(20)
<1>8. \A u : u \in Units(r) <=> \E i \in DOMAIN r : \E k \in Nat : k \in 1..Bytes[r[i].digest] /\ u = <<i, k>>
  <2>1. \A i \in DOMAIN r : r[i].digest \in Bodies
    BY <1>1, <1>2
  <2>2. \A u : u \in Units(r) <=> \E i \in DOMAIN r : u \in JobUnits(i, r[i].digest)
    BY UnitsOf
  <2>3. ASSUME NEW i \in DOMAIN r, NEW u
        PROVE  u \in JobUnits(i, r[i].digest) <=>
                 \E k \in Nat : k \in 1..Bytes[r[i].digest] /\ u = <<i, k>>
    <3>1. r[i].digest \in Bodies
      BY <2>1
    <3> QED BY ONLY <3>1, JobUnit, SMTT(20)
  <2> QED BY ONLY <2>2, <2>3, SMTT(20)
<1>9. ASSUME NEW u \in rest
      PROVE  f[u] \in Units(r) /\ \E i \in DOMAIN s, k \in Nat : u = <<i, k>> /\ f[u] = <<i - 1, k>>
  <2>1. PICK i \in DOMAIN s, k \in Nat : i # 1 /\ k \in 1..Bytes[s[i].digest] /\ u = <<i, k>>
    BY <1>7, <1>9
  <2>2. f[u] = <<i - 1, k>>
    BY ONLY <1>9, <2>1, SMTT(20)
  <2>3. i - 1 \in DOMAIN r /\ r[i - 1] = s[i]
    BY <1>1, <2>1
  <2> QED BY <1>8, <2>1, <2>2, <2>3
<1>10. f \in [rest -> Units(r)]
  BY <1>9
<1>11. ASSUME NEW u \in rest, NEW v \in rest, f[u] = f[v] PROVE u = v
  <2>1. PICK i \in DOMAIN s, k \in Nat : u = <<i, k>> /\ f[u] = <<i - 1, k>>
    BY <1>9
  <2>2. PICK j \in DOMAIN s, l \in Nat : v = <<j, l>> /\ f[v] = <<j - 1, l>>
    BY <1>9
  <2>3. <<i - 1, k>> = <<j - 1, l>> /\ i \in Int /\ j \in Int
    BY <1>2, <1>11, <2>1, <2>2
  <2>4. i = j /\ k = l
    BY ONLY <2>3, SMTT(20)
  <2> QED BY <2>1, <2>2, <2>4
<1>12. ASSUME NEW w \in Units(r) PROVE \E u \in rest : f[u] = w
  <2>1. PICK i \in DOMAIN r, k \in Nat : k \in 1..Bytes[r[i].digest] /\ w = <<i, k>>
    BY <1>8, <1>12
  <2>2. i + 1 \in DOMAIN s /\ r[i] = s[i + 1] /\ i \in Int /\ i + 1 # 1
    BY <1>1
  <2>3. <<i + 1, k>> \in rest
    BY <1>7, <2>1, <2>2
  <2>4. f[<<i + 1, k>>] = <<(i + 1) - 1, k>>
    BY ONLY <2>3, SMTT(20)
  <2>5. (i + 1) - 1 = i
    BY ONLY <2>2, SMTT(20)
  <2> QED BY <2>1, <2>3, <2>4, <2>5
<1> HIDE DEF f, first, n
<1>13. f \in Bijection(rest, Units(r))
  BY <1>10, <1>11, <1>12 DEF Bijection, Injection, Surjection, IsInjective
<1>14. ExistsBijection(rest, Units(r))
  BY <1>13 DEF ExistsBijection
<1>15. IsFiniteSet(Units(r)) /\ Cardinality(Units(r)) = Cardinality(rest)
  BY <1>6, <1>14, FS_Bijection
<1>16. Cardinality(first \cup rest) =
         Cardinality(first) + Cardinality(rest) - Cardinality(first \cap rest)
  BY <1>3, <1>6, FS_Union
<1>17. Cardinality(first \cap rest) = 0 /\ Cardinality(rest) \in Nat
  BY <1>5, <1>6, FS_EmptySet, FS_CardinalityType
<1>18. Cardinality(Units(s)) = Cardinality(Units(r)) + n
  BY ONLY <1>3, <1>4, <1>15, <1>16, <1>17, SMTT(20)
<1> QED BY <1>3, <1>15, <1>17, <1>18 DEF n

\* The books: what is reserved are the bytes of the jobs that wait and of the lane's job.
Accounts == IsFiniteSet(Units(high)) /\ IsFiniteSet(Units(low)) /\ reserved = Held

\* The bytes of the next state's queue are those of its jobs.
LEMMA NextUnits == Units(high)' = Units(high') /\ Units(low)' = Units(low')
BY DEF Units, JobUnits

\* Steps that neither move a job nor touch the reservation leave the books alone.
LEMMA SameAccounts ==
  ASSUME Accounts, UNCHANGED <<high, low, reserved>>, Busy' <=> Busy, Busy => lane'.digest = lane.digest
  PROVE  Accounts'
<1>1. Units(high)' = Units(high) /\ Units(low)' = Units(low)
  BY NextUnits
<1>2. Held' = Held
  BY <1>1 DEF Held, Busy
<1> QED BY <1>1, <1>2 DEF Accounts

\* Bytes that go from a queue to the lane stay in the sum.
LEMMA MovedBytes ==
  ASSUME NEW h \in Nat, NEW l \in Nat, NEW n \in Nat
  PROVE  (h + n) + l = h + l + n /\ h + (l + n) = h + l + n
BY SMTT(20)

\* try_enqueue and enqueue_ready reserve what they add.
LEMMA AdmitAccounts ==
  ASSUME IndInv, Accounts, NEW job \in Jobs, NEW p \in {"high", "low"}, Admit(job, p)
  PROVE  Accounts'
<1> DEFINE rendered == IF lane.at \in {"off", "pick"} THEN 0 ELSE Bytes[lane.digest]
           h == Cardinality(Units(high))
           l == Cardinality(Units(low))
<1>1. /\ high \in Seq(Jobs) /\ low \in Seq(Jobs) /\ IsFiniteSet(Units(high)) /\ IsFiniteSet(Units(low))
      /\ job.digest \in Bodies /\ reserved' = reserved + Bytes[job.digest]
      /\ reserved = h + l + rendered
  BY DEF IndInv, TypeOK, QueueType, Accounts, Held, Admit, Jobs
<1>2. h \in Nat /\ l \in Nat /\ Bytes[job.digest] \in Nat
  BY <1>1, FS_CardinalityType, JobSize
<1>3. rendered \in Nat
  <2>1. CASE Busy
    <3>1. lane.digest \in Bodies
      BY <2>1 DEF IndInv, JobInv
    <3>2. Bytes[lane.digest] \in Nat
      BY <3>1, JobSize
    <3> QED BY <2>1, <3>2 DEF Busy
  <2>2. CASE ~Busy
    BY <2>2 DEF Busy
  <2> QED BY <2>1, <2>2
<1>a. /\ h + l + rendered + Bytes[job.digest] = (h + Bytes[job.digest]) + l + rendered
      /\ h + l + rendered + Bytes[job.digest] = h + (l + Bytes[job.digest]) + rendered
  <2> HIDE DEF h, l, rendered
  <2> QED BY ONLY <1>2, <1>3, SMTT(20)
<1>4. (IF lane.at \in {"off", "pick"} THEN 0 ELSE Bytes[lane.digest])' = rendered
  <2>1. lane' = lane \/ (~Busy /\ lane'.at = "pick")
    BY AdmitFacts
  <2> QED BY <2>1 DEF Busy
<1>5. Held' = Cardinality(Units(high)') + Cardinality(Units(low)') + rendered
  BY <1>4 DEF Held
<1>6. CASE p = "high"
  <2>1. high' = Append(high, job) /\ low' = low
    BY <1>6 DEF Admit
  <2>2. IsFiniteSet(Units(high)') /\ Cardinality(Units(high)') = h + Bytes[job.digest]
    BY <1>1, <2>1, AppendUnits, NextUnits
  <2>3. Units(low)' = Units(low)
    BY <2>1, NextUnits
  <2>4. reserved' = (h + Bytes[job.digest]) + l + rendered
    BY <1>1, <1>a
  <2> QED BY <1>1, <1>5, <2>2, <2>3, <2>4 DEF Accounts
<1>7. CASE p = "low"
  <2>1. low' = Append(low, job) /\ high' = high
    BY <1>7 DEF Admit
  <2>2. IsFiniteSet(Units(low)') /\ Cardinality(Units(low)') = l + Bytes[job.digest]
    BY <1>1, <2>1, AppendUnits, NextUnits
  <2>3. Units(high)' = Units(high)
    BY <2>1, NextUnits
  <2>4. reserved' = h + (l + Bytes[job.digest]) + rendered
    BY <1>1, <1>a
  <2> QED BY <1>1, <1>5, <2>2, <2>3, <2>4 DEF Accounts
<1> QED BY <1>6, <1>7

\* The picked job keeps its reservation while the lane has it.
LEMMA PickAccounts ==
  ASSUME IndInv, Accounts, LanePick
  PROVE  Accounts'
<1>1. /\ high \in Seq(Jobs) /\ low \in Seq(Jobs) /\ IsFiniteSet(Units(high)) /\ IsFiniteSet(Units(low))
      /\ reserved' = reserved /\ lane.at = "pick"
  BY DEF IndInv, TypeOK, QueueType, Accounts, LanePick
<1>2. Cardinality(Units(high)) \in Nat /\ Cardinality(Units(low)) \in Nat
  BY <1>1, FS_CardinalityType
<1>3. reserved = Cardinality(Units(high)) + Cardinality(Units(low))
  <2>1. reserved = Cardinality(Units(high)) + Cardinality(Units(low)) + 0
    BY <1>1 DEF Accounts, Held
  <2> QED BY ONLY <1>2, <2>1, SMTT(20)
<1>4. ASSUME NEW job, lane' = [at |-> IF job.html = NoBody THEN "find" ELSE "ensure", digest |-> job.digest,
                               html |-> job.html, from |-> job.from, row |-> NoBody]
      PROVE  Held' = Cardinality(Units(high)') + Cardinality(Units(low)') + Bytes[job.digest]
  <2>1. lane'.at \notin {"off", "pick"} /\ lane'.digest = job.digest
    BY ONLY <1>4, SMTT(20)
  <2> QED BY <2>1 DEF Held
<1>5. CASE high # <<>>
  <2>1. high' = Tail(high) /\ low' = low
    BY <1>5 DEF LanePick
  <2>2. Held' = Cardinality(Units(high)') + Cardinality(Units(low)') + Bytes[Head(high).digest]
    BY <1>4, <1>5 DEF LanePick
  <2>3. /\ IsFiniteSet(Units(high)') /\ Bytes[Head(high).digest] \in Nat /\ Cardinality(Units(high)') \in Nat
        /\ Cardinality(Units(high)) = Cardinality(Units(high)') + Bytes[Head(high).digest]
    BY <1>1, <1>5, <2>1, TailUnits, NextUnits
  <2>4. Units(low)' = Units(low)
    BY <2>1, NextUnits
  <2>a. (Cardinality(Units(high)') + Bytes[Head(high).digest]) + Cardinality(Units(low))
          = Cardinality(Units(high)') + Cardinality(Units(low)) + Bytes[Head(high).digest]
    BY ONLY <1>2, <2>3, MovedBytes, ZenonT(30)
  <2>5. reserved' = Held'
    BY ONLY <1>1, <1>3, <2>2, <2>3, <2>4, <2>a, ZenonT(30)
  <2> QED BY <1>1, <2>3, <2>4, <2>5 DEF Accounts
<1>6. CASE high = <<>> /\ low # <<>>
  <2>1. low' = Tail(low) /\ high' = high
    BY <1>6 DEF LanePick
  <2>2. Held' = Cardinality(Units(high)') + Cardinality(Units(low)') + Bytes[Head(low).digest]
    BY <1>4, <1>6 DEF LanePick
  <2>3. /\ IsFiniteSet(Units(low)') /\ Bytes[Head(low).digest] \in Nat /\ Cardinality(Units(low)') \in Nat
        /\ Cardinality(Units(low)) = Cardinality(Units(low)') + Bytes[Head(low).digest]
    BY <1>1, <1>6, <2>1, TailUnits, NextUnits
  <2>4. Units(high)' = Units(high)
    BY <2>1, NextUnits
  <2>a. Cardinality(Units(high)) + (Cardinality(Units(low)') + Bytes[Head(low).digest])
          = Cardinality(Units(high)) + Cardinality(Units(low)') + Bytes[Head(low).digest]
    BY ONLY <1>2, <2>3, MovedBytes, ZenonT(30)
  <2>5. reserved' = Held'
    BY ONLY <1>1, <1>3, <2>2, <2>3, <2>4, <2>a, ZenonT(30)
  <2> QED BY <1>1, <2>3, <2>4, <2>5 DEF Accounts
<1>7. CASE high = <<>> /\ low = <<>>
  <2>1. high' = high /\ low' = low /\ lane' = Off
    BY <1>7 DEF LanePick
  <2>2. ~Busy /\ ~Busy'
    BY <1>1, <2>1 DEF Busy, Off
  <2> QED BY <1>1, <2>1, <2>2, SameAccounts
<1> QED BY <1>5, <1>6, <1>7

\* The reservation of a finished job is released.
LEMMA FinishAccounts ==
  ASSUME IndInv, Accounts, LaneFinish, UNCHANGED <<high, low>>
  PROVE  Accounts'
<1>1. /\ IsFiniteSet(Units(high)) /\ IsFiniteSet(Units(low)) /\ lane.at \in {"stored", "nothing"}
      /\ reserved' = reserved - Bytes[lane.digest] /\ lane' = [Off EXCEPT !.at = "pick"]
  BY DEF Accounts, LaneFinish
<1>2. Units(high)' = Units(high) /\ Units(low)' = Units(low)
  BY NextUnits
<1>3. Cardinality(Units(high)) \in Nat /\ Cardinality(Units(low)) \in Nat
  BY <1>1, FS_CardinalityType
<1>4. Bytes[lane.digest] \in Nat
  <2>1. Busy
    BY <1>1 DEF Busy
  <2> QED BY <2>1, JobSize DEF IndInv, JobInv
<1>5. reserved = Cardinality(Units(high)) + Cardinality(Units(low)) + Bytes[lane.digest]
  BY <1>1 DEF Accounts, Held
<1>6. lane'.at = "pick"
  BY ONLY <1>1, SMTT(20) DEF Off
<1>7. Held' = Cardinality(Units(high)) + Cardinality(Units(low)) + 0
  BY <1>2, <1>6 DEF Held
<1>8. reserved' = Held'
  BY ONLY <1>1, <1>3, <1>4, <1>5, <1>7, SMTT(20)
<1> QED BY <1>1, <1>2, <1>8 DEF Accounts

\* In an empty queue nothing is reserved.
LEMMA EmptyUnits ==
  ASSUME NEW s, s = <<>>
  PROVE  IsFiniteSet(Units(s)) /\ Cardinality(Units(s)) = 0
<1>1. DOMAIN s = {}
  BY SMTT(20)
<1>2. Units(s) = {}
  BY <1>1, UnitsOf
<1> QED BY <1>2, FS_EmptySet

\* A process starts with an empty queue and nothing reserved.
LEMMA InitAccounts ==
  ASSUME Init
  PROVE  Accounts
<1>1. high = <<>> /\ low = <<>> /\ reserved = 0 /\ lane = Off
  BY DEF Init
<1>2. /\ IsFiniteSet(Units(high)) /\ Cardinality(Units(high)) = 0
      /\ IsFiniteSet(Units(low)) /\ Cardinality(Units(low)) = 0
  BY <1>1, EmptyUnits
<1>3. lane.at = "off"
  BY ONLY <1>1, SMTT(20) DEF Off
<1>4. Held = 0 + 0 + 0
  BY <1>2, <1>3 DEF Held
<1>5. Held = 0
  BY ONLY <1>4, SMTT(20)
<1> QED BY <1>1, <1>2, <1>5 DEF Accounts

\* The process dies, and with it the queue and its reservations.
LEMMA CrashAccounts ==
  ASSUME Crash
  PROVE  Accounts'
<1>1. high' = <<>> /\ low' = <<>> /\ reserved' = 0 /\ lane' = Off
  BY DEF Crash
<1>2. /\ IsFiniteSet(Units(high)') /\ Cardinality(Units(high)') = 0
      /\ IsFiniteSet(Units(low)') /\ Cardinality(Units(low)') = 0
  BY <1>1, EmptyUnits, NextUnits
<1>3. lane'.at = "off"
  BY ONLY <1>1, SMTT(20) DEF Off
<1>4. Held' = 0 + 0 + 0
  BY <1>2, <1>3 DEF Held
<1>5. Held' = 0
  BY ONLY <1>4, SMTT(20)
<1> QED BY <1>1, <1>2, <1>5 DEF Accounts

\* Every step keeps the books.
LEMMA NextAccounts ==
  ASSUME IndInv, LookupInv, Accounts, [Next]_vars
  PROVE  Accounts'
<1>0. ASSUME UNCHANGED <<queue, lane>> PROVE Accounts'
  BY <1>0, SameAccounts DEF queue, Busy
<1>1. CASE UNCHANGED vars
  BY <1>0, <1>1 DEF vars
<1>2. CASE (\E b \in Bodies : Mutate(b)) \/ Delete \/ RemoveDeleted \/ Restart
  BY <1>0, <1>2 DEF Mutate, Delete, IdlePreviews, RemoveDeleted, Restart
<1>3. ASSUME NEW d \in Bodies, NEW html \in MaybeBody, NEW from \in Origins, NEW p \in {"high", "low"},
             Admit(Job(d, html, from), p)
      PROVE  Accounts'
  <2>1. Job(d, html, from) \in Jobs
    BY DEF Job, Jobs
  <2> QED BY <1>3, <2>1, AdmitAccounts
<1>4. NoBody \in MaybeBody /\ "mutation" \in Origins /\ "backfill" \in Origins
      /\ "delivery" \in Origins /\ Tasks \subseteq Origins /\ Bodies \subseteq MaybeBody
  BY DEF MaybeBody, Origins
<1>5. ASSUME NEW u \in unscheduled, Schedule(u) PROVE Accounts'
  <2>1. u[2] \in Bodies
    BY <1>5 DEF IndInv, TypeOK, ArtifactType
  <2>2. Admit(Job(u[2], NoBody, "mutation"), "high") \/ UNCHANGED <<queue, lane>>
    BY <1>5 DEF Schedule, Reject
  <2> QED BY <1>0, <1>3, <1>4, <2>1, <2>2
<1>6. CASE Backfill
  <2>1. backfill \in Bodies
    BY <1>6 DEF Backfill, IndInv, TypeOK, LaneType, MaybeBody
  <2>2. Admit(Job(backfill, NoBody, "backfill"), "low") \/ UNCHANGED <<queue, lane>>
    BY <1>6 DEF Backfill, Reject
  <2> QED BY <1>0, <1>3, <1>4, <2>1, <2>2
<1>7. ASSUME NEW t \in Tasks, RunTask(t) PROVE Accounts'
  <2>1. CASE EnqueueReady(t)
    <3>1. runner[t].digest \in Bodies /\ runner[t].html \in MaybeBody
      BY <2>1 DEF EnqueueReady, IndInv, JobInv, TypeOK, TaskType, Runners
    <3>2. Admit(Job(runner[t].digest, runner[t].html, t), "high") \/ UNCHANGED <<queue, lane>>
      BY <2>1 DEF EnqueueReady, Reject
    <3> QED BY <1>0, <1>3, <1>4, <3>1, <3>2
  <2>2. CASE \/ CreateTask(t) \/ MarkRunning(t) \/ FindSource(t) \/ ReadSource(t)
             \/ RemoveStored(t) \/ SettleTask(t) \/ EndSync(t)
    <3>1. UNCHANGED <<queue, lane>>
      BY <2>2 DEF CreateTask, MarkRunning, GiveUp, FindSource, ReadSource, RemoveStored, SettleTask, EndSync
    <3> QED BY <1>0, <3>1
  <2> QED BY <1>7, <2>1, <2>2 DEF RunTask
<1>8. ASSUME NEW t \in Tasks, TaskRequest(t) PROVE Accounts'
  BY <1>0, <1>8 DEF TaskRequest, RequestTask, RequestSync, CancelTask
<1>9. CASE LaneStep
  <2>1. CASE LanePick
    BY <2>1, PickAccounts
  <2>2. CASE LaneFinish /\ UNCHANGED <<high, low>>
    BY <2>2, FinishAccounts
  <2>3. lane \in Lanes
    BY DEF IndInv, TypeOK, LaneType
  <2>4. ASSUME NEW at \in {"ensure", "stored", "nothing", "render", "persist", "sweep"}, NEW html,
               Lane(at, html), Busy, UNCHANGED queue
        PROVE  Accounts'
    <3>1. lane'.at = at /\ lane'.digest = lane.digest
      BY <2>3, <2>4 DEF Lane, Lanes
    <3>2. Busy'
      BY <3>1 DEF Busy
    <3> QED BY <2>4, <3>1, <3>2, SameAccounts DEF queue
  <2>5. ASSUME lane' = [lane EXCEPT !.at = "read", !.row = body], Busy, UNCHANGED queue
        PROVE  Accounts'
    <3>1. lane'.at = "read" /\ lane'.digest = lane.digest
      BY <2>3, <2>5 DEF Lanes
    <3>2. Busy'
      BY <3>1 DEF Busy
    <3> QED BY <2>5, <3>1, <3>2, SameAccounts DEF queue
  <2>6. ASSUME LaneFind \/ LaneRead \/ LaneEnsure \/ LaneRender \/ LanePersist \/ LaneSweep, UNCHANGED queue
        PROVE  Accounts'
    <3>1. Busy
      BY <2>6 DEF LaneFind, LaneRead, LaneEnsure, LaneRender, LanePersist, LaneSweep, Busy
    <3>2. CASE LaneFind \/ LaneRead \/ LaneEnsure
      BY <2>4, <2>5, <2>6, <3>1, <3>2 DEF LaneFind, LaneRead, LaneEnsure
    <3>3. CASE LaneRender \/ LanePersist \/ LaneSweep
      BY <2>4, <2>6, <3>1, <3>3 DEF LaneRender, LanePersist, LaneSweep
    <3> QED BY <2>6, <3>2, <3>3
  <2> QED BY <1>9, <2>1, <2>2, <2>6 DEF LaneStep
<1>10. CASE Crash
  BY <1>10, CrashAccounts
<1>11. ASSUME NEW w \in Workers, DeliveryStep(w) PROVE Accounts'
  <2>1. CASE EnqueueLookup(w)
    <3>1. /\ lookup[w].at = "enqueue" /\ Admit(Job(lookup[w].digest, lookup[w].digest, "delivery"), "high")
      BY <2>1 DEF EnqueueLookup
    <3>2. lookup[w].digest \in Bodies
      BY <3>1 DEF LookupInv
    <3> QED BY <1>3, <1>4, <3>1, <3>2
  <2>2. CASE FindMeta(w) \/ ReadReference(w)
    BY <1>0, <2>2 DEF FindMeta, ReadReference
  <2> QED BY <1>11, <2>1, <2>2 DEF DeliveryStep
<1> QED BY <1>1, <1>2, <1>5, <1>6, <1>7, <1>8, <1>9, <1>10, <1>11 DEF Next

-----------------------------------------------------------------------------
(* The theorems *)

\* The inductive invariant holds throughout: types, the queue's limits, what every carrier of
\* a picture may show, one waiting task per job, nothing in a dead process, the order of the
\* lane's job and the mutations queued behind it, and that something leads to the picture of
\* the current body.
THEOREM PreviewInductive == Spec => [](IndInv /\ LookupInv)
<1>1. Init => IndInv /\ LookupInv
  <2>1. NoLookup \in Lookups /\ NoLookup.at = "none"
    BY DEF Lookups, NoLookup, MaybeBody
  <2>2. Init => LookupInv
    BY <2>1 DEF Init, LookupInv
  <2> QED BY <2>2, InitInv
<1>2. (IndInv /\ LookupInv) /\ [Next]_vars => (IndInv /\ LookupInv)'
  BY NextInv
<1> QED BY <1>1, <1>2, PTL DEF Spec

\* try_enqueue and enqueue_ready keep the queue within its number of jobs and bytes, whoever
\* enqueues while the lane works; the reserved bytes are exactly those of the jobs that wait and
\* of the one being rendered, through every enqueue, pick, release and crash; and no job waits
\* while the lane is off.
THEOREM AlwaysQueueAccounts == Spec => []QueueAccounts
<1>1. Init => Accounts
  BY InitAccounts
<1>2. IndInv /\ LookupInv /\ Accounts /\ [Next]_vars => Accounts'
  BY NextAccounts
<1>3. IndInv /\ Accounts => QueueAccounts
  BY DEF IndInv, QueueLimits, Accounts, QueueAccounts
<1> QED BY <1>1, <1>2, <1>3, PreviewInductive, PTL DEF Spec

\* A stored picture shows the body of its digest, unless a mutation committed between a
\* reader's look at the row and its read of the body.
THEOREM AlwaysPictureOfBody == Spec => []PictureOfBody
<1>1. IndInv => PictureOfBody
  BY DEF IndInv, ShowsInv, Shows, PictureOfBody
<1> QED BY <1>1, PreviewInductive, PTL

\* At rest the current body has its picture, in whatever order jobs were rendered and swept
\* and wherever the process died, unless its last job was refused, failed or never queued, or
\* a regeneration or a delivery for an older body took the picture away.
THEOREM AlwaysGalleryComplete == Spec => []GalleryComplete
<1>1. ASSUME IndInv, Quiet, body # NoBody PROVE png[body] # NoBody \/ body \in excused
  <2>1. /\ up /\ unscheduled = {} /\ lane.at = "off" /\ backfill = NoBody
        /\ \A t \in Tasks : runner[t].at = "none"
    BY <1>1 DEF Quiet
  <2>2. high = <<>> /\ low = <<>>
    BY <1>1, <2>1 DEF IndInv, QueueLimits
  <2>3. ~Elsewhere(body)
    BY <1>1, <2>1, <2>2, SMTT(20) DEF Elsewhere, Queued
  <2>4. ~InLane(body)
    BY <2>1 DEF InLane, Rendering
  <2> QED BY <1>1, <2>1, <2>3, <2>4 DEF IndInv, GalleryInv
<1>2. IndInv => GalleryComplete
  BY <1>1 DEF GalleryComplete
<1> QED BY <1>2, PreviewInductive, PTL

\* A task that is completed, failed or cancelled stays so, with its result, whichever of
\* cancel, complete and fail comes last and across crashes.
THEOREM AlwaysTaskFinal == Spec => TaskFinal
<1> DEFINE Final == \A t \in Tasks : tasks[t].status \in Terminal => tasks'[t] = tasks[t]
<1>1. ASSUME IndInv, [Next]_vars PROVE [Final]_vars
  <2>0. tasks \in [Tasks -> TaskFiles] /\ runner \in [Tasks -> Runners]
    BY <1>1 DEF IndInv, TypeOK, TaskType
  <2>1. ASSUME NEW t \in Tasks, NEW status \in Terminal, NEW result \in MaybeBody,
               Transition(t, status, result)
        PROVE  Final
    BY <2>0, <2>1, TransitionFacts
  <2>2. ASSUME UNCHANGED tasks PROVE Final
    BY <2>2
  <2>3. ASSUME NEW t \in Tasks, TaskRequest(t) PROVE Final
    <3>1. CASE RequestTask(t) \/ RequestSync(t)
      BY <2>2, <3>1 DEF RequestTask, RequestSync
    <3>2. CASE CancelTask(t)
      <4>1. Transition(t, "cancelled", NoBody) /\ "cancelled" \in Terminal /\ NoBody \in MaybeBody
        BY <3>2 DEF CancelTask, Terminal, MaybeBody
      <4> QED BY <2>1, <4>1
    <3> QED BY <2>3, <3>1, <3>2 DEF TaskRequest
  <2>4. ASSUME NEW t \in Tasks, RunTask(t) PROVE Final
    <3>1. CASE CreateTask(t)
      <4>1. tasks[t] = NoTask
        BY <1>1, <3>1 DEF CreateTask, IndInv
      <4>2. tasks[t].status \notin Terminal
        BY <4>1, SMTT(20) DEF NoTask, Terminal
      <4>3. \A s \in Tasks \ {t} : tasks'[s] = tasks[s]
        BY <2>0, <3>1 DEF CreateTask
      <4> QED BY <4>2, <4>3
    <3>2. CASE SettleTask(t)
      <4>1. runner[t].digest \in MaybeBody /\ NoBody \in MaybeBody
        BY <2>0 DEF Runners, MaybeBody
      <4>2. UNCHANGED tasks \/ \E s \in Terminal, x \in MaybeBody : Transition(t, s, x)
        BY <3>2, <4>1 DEF SettleTask, GiveUp, Terminal
      <4> QED BY <2>1, <2>2, <4>2
    <3>3. CASE \/ MarkRunning(t) \/ FindSource(t) \/ ReadSource(t) \/ RemoveStored(t) \/ EnqueueReady(t)
               \/ EndSync(t)
      <4>1. UNCHANGED tasks
        BY <3>3 DEF MarkRunning, GiveUp, FindSource, ReadSource, RemoveStored, EnqueueReady, EndSync
      <4> QED BY <2>2, <4>1
    <3> QED BY <2>4, <3>1, <3>2, <3>3 DEF RunTask
  <2>5. CASE \/ \E b \in Bodies : Mutate(b)
             \/ Delete \/ RemoveDeleted \/ (\E u \in unscheduled : Schedule(u)) \/ LaneStep \/ Backfill
             \/ (\E w \in Workers : DeliveryStep(w)) \/ Crash \/ Restart
    <3>1. UNCHANGED tasks
      BY <2>5 DEF Mutate, Delete, IdlePreviews, RemoveDeleted, Schedule, LaneStep, LanePick, Backfill,
                  DeliveryStep, Crash, Restart
    <3> QED BY <2>2, <3>1
  <2> HIDE DEF Final
  <2> QED BY <1>1, <2>3, <2>4, <2>5 DEF Next
<1>2. IndInv /\ [Next]_vars => [Final]_vars
  BY <1>1
<1> QED BY <1>2, PreviewInductive, PTL DEF Spec, TaskFinal

=============================================================================
