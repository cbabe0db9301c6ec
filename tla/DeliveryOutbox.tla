--------------------------- MODULE DeliveryOutbox ---------------------------
(***************************************************************************)
(* The durable delivery outbox and the workers that drain it               *)
(* (src/src/persistence/outbox, src/src/integrations/delivery_worker,      *)
(* .../delivery_runtime.rs).                                               *)
(*                                                                         *)
(* A row is one event for one ordering key.  Each worker step below is one *)
(* SQL transaction or one provider call; between any two of them the other *)
(* worker runs, the lease may run out, or the process may stop.  Time is   *)
(* kept as what it decides: `late' (the lease ran out), `due' (the retry   *)
(* delay is over) and `limits' (provider back-offs still in force).        *)
(***************************************************************************)
EXTENDS Integers, FiniteSets

CONSTANTS
  Events,          \* event ids
  Keys,            \* ordering keys: a webhook target, or a discussion generation
  Discussions,     \* the ordering keys of discussions
  Tenant,          \* the tenant of each ordering key
  Workers,         \* the worker tasks of one process
  NoRow, NoWorker, \* no predecessor; no lease owner
  MaxAttempts,     \* MAX_ATTEMPTS
  MaxQueueGlobal,  \* MAX_QUEUE_GLOBAL
  MaxQueueTenant,  \* MAX_QUEUE_TENANT
  MaxRows,         \* bound: rows ever inserted
  MaxStops,        \* bound: shutdowns and crashes
  MaxErrors,       \* bound: storage errors a worker turn meets
  MaxLimits        \* bound: back-offs in force at once (a further one has lapsed)

Rows == Events \X Keys

ASSUME OutboxAssumption ==
  /\ IsFiniteSet(Events) /\ IsFiniteSet(Keys) /\ IsFiniteSet(Workers)
  /\ Discussions \subseteq Keys
  /\ DOMAIN Tenant = Keys
  /\ NoRow \notin Rows /\ NoWorker \notin Workers
  /\ MaxAttempts \in Nat \ {0}
  /\ MaxQueueGlobal \in Nat /\ MaxQueueTenant \in Nat
  /\ MaxRows \in Nat /\ MaxStops \in Nat /\ MaxErrors \in Nat
  /\ MaxLimits \in Nat

VARIABLES
  box,       \* provider_delivery_outbox
  limits,    \* provider_delivery_rate_limits still in force
  worker,    \* what each worker task holds between two awaits
  stopping,  \* the shutdown watch of the runtime
  posts,     \* how many messages the provider has created for each row
  stops, errors

vars == <<box, limits, worker, stopping, posts, stops, errors>>

Active   == {"blocked", "ready", "leased", "retry"}
Waiting  == {"ready", "retry"}
Terminal == {"accepted", "dead_letter"}

\* `at' is created_at, which only orders the rows of one key; `gated' is a
\* durability intent; `bucketed' tells a discovered provider bucket from the
\* target key that a fresh row starts with.
Absent == [state |-> "absent", at |-> 0, gated |-> FALSE, dep |-> NoRow,
           attempts |-> 0, version |-> 0, owner |-> NoWorker, due |-> TRUE,
           late |-> FALSE, risk |-> FALSE, bucketed |-> FALSE]
Idle   == [phase |-> "idle", row |-> NoRow, version |-> 0, attempts |-> 0,
           verdict |-> "none", risk |-> FALSE]

KeyOf(r)     == r[2]
RowsOf(b, k) == {r \in Rows : KeyOf(r) = k /\ b[r].state # "absent"}

-----------------------------------------------------------------------------
(* enqueue_many_in_transaction and the durability gate *)

ActiveRows == {r \in Rows : box[r].state \in Active}

\* One capacity decision for the whole fan-out.
HasCapacity(fresh) ==
  /\ Cardinality(ActiveRows) + Cardinality(fresh) <= MaxQueueGlobal
  /\ \A t \in {Tenant[KeyOf(r)] : r \in fresh} :
       Cardinality({r \in ActiveRows \cup fresh : Tenant[KeyOf(r)] = t}) <= MaxQueueTenant

\* created_at: past every earlier row of the ordering key.
NextAt(k) == Cardinality(RowsOf(box, k)) + 1

\* `dep' gives the predecessor of each row that is asked for.  A repeated event id
\* returns the row it already has; all fresh rows are inserted, or none.
Enqueue(dep, gated) ==
  LET rows  == DOMAIN dep
      fresh == {r \in rows : box[r].state = "absent"}
  IN  /\ \A r \in rows \ fresh : box[r].gated = gated /\ box[r].dep = dep[r]
      /\ fresh # {} /\ HasCapacity(fresh)
      /\ Cardinality({r \in Rows : box[r].state # "absent"} \cup fresh) <= MaxRows
      /\ box' = [r \in Rows |->
                   IF r \notin fresh THEN box[r]
                   ELSE [Absent EXCEPT !.state = IF gated THEN "blocked" ELSE "ready",
                                       !.at = NextAt(KeyOf(r)), !.gated = gated,
                                       !.dep = dep[r]]]
      /\ UNCHANGED <<limits, worker, stopping, posts, stops, errors>>

\* fanout_with_policy: one event for every subscribed webhook.
Fanout(e, targets, gated) ==
  /\ targets # {}
  /\ Enqueue([r \in {e} \X targets |-> NoRow], gated)

\* submit: the feedback's event for the webhooks and its message for the discussion
\* in one transaction.  A discussion's first row may wait for the notification of
\* the publication, the later rows wait for the first.  Feedback needs an artifact
\* without an intent, so that notification is past its gate.
SubmitFeedback(e, targets, k, dep) ==
  /\ IF RowsOf(box, k) = {}
     THEN dep # NoRow => /\ KeyOf(dep) \notin Discussions
                         /\ box[dep].state \in Terminal \cup (Active \ {"blocked"})
     ELSE dep \in RowsOf(box, k) /\ box[dep].at = 1
  /\ Enqueue([r \in {e} \X (targets \cup {k}) |->
                IF KeyOf(r) = k THEN dep ELSE NoRow], FALSE)

\* finalize_durability_success_in_transaction, compensate_durability_in_transaction.
SettleIntent(e, success) ==
  /\ \E k \in Keys : box[<<e, k>>].state = "blocked"
  /\ box' = [r \in Rows |->
               IF r[1] = e /\ box[r].state = "blocked"
               THEN [box[r] EXCEPT !.state = IF success THEN "ready" ELSE "deleted",
                                   !.gated = FALSE]
               ELSE box[r]]
  /\ UNCHANGED <<limits, worker, stopping, posts, stops, errors>>

-----------------------------------------------------------------------------
(* claim_next *)

Exhausted(x) == x.attempts >= MaxAttempts

\* Mutant: the interrupted attempt is not counted.
RecoveredRefunding(b) ==
  [r \in Rows |->
     IF b[r].state = "leased" /\ b[r].late
     THEN [b[r] EXCEPT !.state = "retry", !.attempts = @ - 1,
                       !.owner = NoWorker, !.risk = TRUE, !.due = TRUE, !.late = FALSE]
     ELSE b[r]]

\* Mutant: a lease is taken back before it ran out.
RecoveredEarly(b) ==
  [r \in Rows |->
     IF b[r].state = "leased"
     THEN [b[r] EXCEPT !.state = IF Exhausted(b[r]) THEN "dead_letter" ELSE "retry",
                       !.owner = NoWorker, !.risk = TRUE, !.due = TRUE, !.late = FALSE]
     ELSE b[r]]

\* Mutant: a lease that ran out is not taken back.
RecoveredNever(b) == b

\* Leases that ran out go back to the queue, or are dead after the last attempt.
Recovered(b) ==
  [r \in Rows |->
     IF b[r].state = "leased" /\ b[r].late
     THEN [b[r] EXCEPT !.state = IF Exhausted(b[r]) THEN "dead_letter" ELSE "retry",
                       !.owner = NoWorker, !.risk = TRUE, !.due = TRUE, !.late = FALSE]
     ELSE b[r]]

Failed(b, r) == b[r].dep # NoRow /\ b[b[r].dep].state = "dead_letter"

\* propagate_terminal_dependencies: the loop's body, and the loop.  A chain of
\* dependencies is reply, thread, notification: a third pass changes nothing
\* (PropagatedFixpoint).
PropagateOnce(b) ==
  [r \in Rows |->
     IF b[r].state \in Waiting /\ Failed(b, r)
     THEN [b[r] EXCEPT !.state = "dead_letter", !.owner = NoWorker, !.risk = FALSE]
     ELSE b[r]]

Propagated(b) == PropagateOnce(PropagateOnce(b))

Limited(b, r) ==
  \/ <<"global">> \in limits
  \/ <<"target", KeyOf(r)>> \in limits
  \/ <<"bucket", KeyOf(r), b[r].bucketed>> \in limits

Earlier(b, r) == {q \in RowsOf(b, KeyOf(r)) : b[q].at < b[r].at}

\* Mutant: a leased row does not hold back the rows behind it.
EligiblePastLeased(b) ==
  {r \in Rows :
     /\ b[r].state \in Waiting
     /\ ~b[r].gated
     /\ ~Exhausted(b[r])
     /\ b[r].due
     /\ b[r].dep # NoRow => b[b[r].dep].state = "accepted"
     /\ ~Limited(b, r)
     /\ \A q \in Earlier(b, r) : b[q].state \notin Active \ {"leased"}}

\* Mutant: a leased predecessor is enough.
EligibleAfterLease(b) ==
  {r \in Rows :
     /\ b[r].state \in Waiting
     /\ ~b[r].gated
     /\ ~Exhausted(b[r])
     /\ b[r].due
     /\ b[r].dep # NoRow => b[b[r].dep].state \in {"leased", "accepted"}
     /\ ~Limited(b, r)
     /\ \A q \in Earlier(b, r) : b[q].state \notin Active}

\* Mutant: the durability gate is not read.
EligibleUngated(b) ==
  {r \in Rows :
     /\ b[r].state \in Waiting \cup {"blocked"}
     /\ ~Exhausted(b[r])
     /\ b[r].due
     /\ b[r].dep # NoRow => b[b[r].dep].state = "accepted"
     /\ ~Limited(b, r)
     /\ \A q \in Earlier(b, r) : b[q].state \notin Active}

Eligible(b) ==
  {r \in Rows :
     /\ b[r].state \in Waiting
     /\ ~b[r].gated
     /\ ~Exhausted(b[r])
     /\ b[r].due
     /\ b[r].dep # NoRow => b[b[r].dep].state = "accepted"
     /\ ~Limited(b, r)
     /\ \A q \in Earlier(b, r) : b[q].state \notin Active}

\* Mutant: a dead predecessor is not looked for.
HasClaimableWorkIndependent ==
  \/ \E r \in Rows : box[r].state = "leased" /\ box[r].late
  \/ Eligible(box) # {}

\* The read that decides whether a claim takes the writer slot at all.
HasClaimableWork ==
  \/ \E r \in Rows : box[r].state = "leased" /\ box[r].late
  \/ Eligible(box) # {}
  \/ \E r \in Rows : box[r].state \in Waiting /\ Failed(box, r)

\* One claim transaction: recover, propagate, lease at most one row.  The code takes
\* the oldest; created_at is kept per ordering key only, so any key may be oldest.
Claim(w) ==
  LET b == Propagated(Recovered(box))
  IN  /\ worker[w] = Idle /\ ~stopping /\ HasClaimableWork
      /\ \/ Eligible(b) = {} /\ box' = b /\ UNCHANGED worker
         \/ \E r \in Eligible(b) :
              /\ box' = [b EXCEPT ![r] = [b[r] EXCEPT !.state = "leased", !.owner = w,
                                            !.attempts = b[r].attempts + 1,
                                            !.version = b[r].version + 1,
                                            !.late = FALSE]]
              /\ worker' = [worker EXCEPT ![w] =
                              [Idle EXCEPT !.phase = "claimed", !.row = r,
                                           !.version = b[r].version + 1,
                                           !.attempts = b[r].attempts + 1]]
      /\ UNCHANGED <<limits, stopping, posts, stops, errors>>

-----------------------------------------------------------------------------
(* run_once, process_event and process_discussion after the claim *)

\* A storage error ends the turn; the row stays leased.
TurnFails(w) ==
  /\ errors < MaxErrors /\ errors' = errors + 1
  /\ worker' = [worker EXCEPT ![w] = Idle]

Decide(w, verdict, risk, phase) ==
  worker' = [worker EXCEPT ![w] = [@ EXCEPT !.phase = phase, !.verdict = verdict,
                                            !.risk = risk]]

\* A shutdown seen after the claim gives the row back.  Otherwise decode, resolve
\* and build: no provider call, and every early exit is one verdict.  A failed
\* webhook look-up is reported as risky although nothing was sent.
Prepare(w) ==
  /\ worker[w].phase = "claimed"
  /\ \/ stopping /\ Decide(w, "retry", FALSE, "settle") /\ UNCHANGED errors
     \/ /\ ~stopping
        /\ \/ Decide(w, "none", FALSE, "sending") /\ UNCHANGED errors
           \/ Decide(w, "dead_letter", FALSE, "settle") /\ UNCHANGED errors
           \/ Decide(w, "retry", KeyOf(worker[w].row) \notin Discussions, "settle")
                /\ UNCHANGED errors
           \/ KeyOf(worker[w].row) \in Discussions /\ TurnFails(w)
  /\ UNCHANGED <<box, limits, stopping, posts, stops>>

\* Mutant: an answer that never arrived counts as an acceptance.
DeliverAssumed(w) ==
  LET r == worker[w].row
  IN  /\ worker[w].phase = "sending"
      /\ \E created \in {0, 1} :
           /\ posts' = [posts EXCEPT ![r] = @ + created]
           /\ Decide(w, "accepted", TRUE, "settle")
      /\ UNCHANGED <<box, limits, stopping, stops, errors>>

\* provider.deliver and its classification: a definite acceptance; an answer that
\* never arrived, whether or not the message was created; an acceptance that does
\* not name the thread it made; a 429; a terminal answer, which a gateway may
\* give after the message was created.
Deliver(w) ==
  LET r == worker[w].row
  IN  /\ worker[w].phase = "sending"
      /\ \E created \in {0, 1} :
           /\ posts' = [posts EXCEPT ![r] = @ + created]
           /\ \/ created = 1 /\ Decide(w, "accepted", FALSE, "limiting")
              \/ Decide(w, "retry", TRUE, "settle")
              \/ /\ created = 1 /\ KeyOf(r) \in Discussions
                 /\ Decide(w, "retry", TRUE, "limiting")
              \/ created = 0 /\ Decide(w, "retry", FALSE, "limiting")
              \/ Decide(w, "dead_letter", FALSE, "settle")
      /\ UNCHANGED <<box, limits, stopping, stops, errors>>

\* persist_rate_limit: a 429 starts a back-off, an acceptance does when nothing is
\* left of the window, and any answer at bucket scope names the bucket to the
\* rows of the target that are not leased.
PersistRateLimit(w) ==
  LET r == worker[w].row
      k == KeyOf(r)
  IN  /\ worker[w].phase = "limiting"
      /\ \/ /\ Decide(w, worker[w].verdict, worker[w].risk, "settle")
            /\ \E blocks \in BOOLEAN, found \in BOOLEAN,
                  scope \in {"global", "target", "bucket"} :
                 /\ worker[w].verdict = "retry" /\ ~worker[w].risk => blocks
                 /\ scope # "bucket" => ~found
                 /\ box[r].bucketed => (scope = "bucket" => found)
                 /\ limits' = IF ~blocks \/ Cardinality(limits) >= MaxLimits THEN limits
                              ELSE limits \cup
                                   {CASE scope = "global" -> <<"global">>
                                      [] scope = "target" -> <<"target", k>>
                                      [] OTHER -> <<"bucket", k, found>>}
                 /\ box' = [q \in Rows |->
                              IF /\ scope = "bucket" /\ KeyOf(q) = k
                                 /\ box[q].state \in Active \ {"leased"}
                              THEN [box[q] EXCEPT !.bucketed = found] ELSE box[q]]
            /\ UNCHANGED errors
         \/ TurnFails(w) /\ UNCHANGED <<limits, box>>
      /\ UNCHANGED <<stopping, posts, stops>>

\* Mutant: the row is found by its id alone.
HoldsLeaseById(w) == box[worker[w].row].state # "deleted"

\* The lease guard of every transition: state, owner, token and version.
HoldsLease(w) ==
  LET x == box[worker[w].row]
  IN  x.state = "leased" /\ x.owner = w /\ x.version = worker[w].version

\* retry_or_exhaust and the guarded UPDATE.
NewState(w) ==
  IF worker[w].verdict = "retry" /\ worker[w].attempts >= MaxAttempts
  THEN "dead_letter" ELSE worker[w].verdict

\* accepted, retry and dead_letter; a lost lease is a conflict and changes nothing.
Settle(w) ==
  LET r == worker[w].row
  IN  /\ worker[w].phase = "settle"
      /\ \/ /\ worker' = [worker EXCEPT ![w] = Idle] /\ UNCHANGED errors
            /\ box' = IF ~HoldsLease(w) THEN box
                      ELSE [box EXCEPT ![r] =
                              [@ EXCEPT !.state = NewState(w), !.owner = NoWorker,
                                        !.risk = worker[w].risk,
                                        !.due = NewState(w) # "retry", !.late = FALSE]]
         \/ TurnFails(w) /\ UNCHANGED box
      /\ UNCHANGED <<limits, stopping, posts, stops>>

-----------------------------------------------------------------------------
(* Time, shutdown and process end *)

LeaseRunsOut(r) ==
  /\ box[r].state = "leased" /\ ~box[r].late
  /\ box' = [box EXCEPT ![r] = [@ EXCEPT !.late = TRUE]]
  /\ UNCHANGED <<limits, worker, stopping, posts, stops, errors>>

BecomesDue(r) ==
  /\ box[r].state = "retry" /\ ~box[r].due
  /\ box' = [box EXCEPT ![r] = [@ EXCEPT !.due = TRUE]]
  /\ UNCHANGED <<limits, worker, stopping, posts, stops, errors>>

LimitLapses ==
  /\ \E l \in limits : limits' = limits \ {l}
  /\ UNCHANGED <<box, worker, stopping, posts, stops, errors>>

Shutdown ==
  /\ ~stopping /\ stops < MaxStops
  /\ stopping' = TRUE /\ stops' = stops + 1
  /\ UNCHANGED <<box, limits, worker, posts, errors>>

\* The grace period ends and the tasks are aborted, or the process crashes; the
\* next process starts with idle workers.
Exit ==
  /\ stopping \/ stops < MaxStops
  /\ stops' = IF stopping THEN stops ELSE stops + 1
  /\ stopping' = FALSE
  /\ worker' = [w \in Workers |-> Idle]
  /\ UNCHANGED <<box, limits, posts, errors>>

-----------------------------------------------------------------------------
Init ==
  /\ box = [r \in Rows |-> Absent]
  /\ limits = {}
  /\ worker = [w \in Workers |-> Idle]
  /\ stopping = FALSE
  /\ posts = [r \in Rows |-> 0]
  /\ stops = 0 /\ errors = 0

\* Within the bound on rows: the first conjunct only spares the search for inputs.
Produce ==
  /\ Cardinality({r \in Rows : box[r].state # "absent"}) < MaxRows
  /\ \E e \in Events, targets \in SUBSET (Keys \ Discussions) :
       \/ \E gated \in BOOLEAN : Fanout(e, targets, gated)
       \/ \E k \in Discussions, dep \in Rows \cup {NoRow} : SubmitFeedback(e, targets, k, dep)

Turn(w) == Claim(w) \/ Prepare(w) \/ Deliver(w) \/ PersistRateLimit(w) \/ Settle(w)

Tick == LimitLapses \/ \E r \in Rows : LeaseRunsOut(r) \/ BecomesDue(r)

Next ==
  \/ Produce
  \/ \E e \in Events, success \in BOOLEAN : SettleIntent(e, success)
  \/ \E w \in Workers : Turn(w)
  \/ Tick \/ Shutdown \/ Exit

\* Workers poll, time passes, a shutdown ends, and a producer's mutation ends: of
\* several leases, retries or mutations that wait, one or another goes on.  All but
\* a turn change the variable they are fair for.
Fairness ==
  /\ \A w \in Workers : WF_vars(Turn(w))
  /\ WF_limits(LimitLapses)
  /\ WF_box(\E r \in Rows : LeaseRunsOut(r) \/ BecomesDue(r))
  /\ WF_stopping(stopping /\ Exit)
  /\ WF_box(\E e \in Events, success \in BOOLEAN : SettleIntent(e, success))

Spec == Init /\ [][Next]_vars /\ Fairness

-----------------------------------------------------------------------------
(* Properties *)

States == Active \cup Terminal \cup {"absent", "deleted"}

OutboxRows ==
  [state : States, at : Nat, gated : BOOLEAN, dep : Rows \cup {NoRow},
   attempts : 0..MaxAttempts, version : Nat, owner : Workers \cup {NoWorker},
   due : BOOLEAN, late : BOOLEAN, risk : BOOLEAN, bucketed : BOOLEAN]

WorkerStates ==
  [phase : {"idle", "claimed", "sending", "limiting", "settle"},
   row : Rows \cup {NoRow}, version : Nat, attempts : 0..MaxAttempts,
   verdict : {"none", "accepted", "retry", "dead_letter"}, risk : BOOLEAN]

\* The shape of the outbox, the back-offs and the worker tasks.
TypeOK ==
  /\ box \in [Rows -> OutboxRows]
  /\ limits \subseteq {<<"global">>} \cup ({"target"} \X Keys)
                        \cup ({"bucket"} \X Keys \X BOOLEAN)
  /\ worker \in [Workers -> WorkerStates]
  /\ stopping \in BOOLEAN
  /\ posts \in [Rows -> Nat]
  /\ stops \in 0..MaxStops /\ errors \in 0..MaxErrors

\* Per-key FIFO: once a message of a row exists, every earlier row of its ordering
\* key has its final outcome, whichever worker posted it and however late.
PostedInOrder ==
  \A r \in Rows : posts[r] > 0 =>
    \A q \in Earlier(box, r) : box[q].state \notin Active

\* A thread is not created before its notification, a reply not before its thread:
\* a row is posted only when the row it waits for was accepted.
PostedAfterDependency ==
  \A r \in Rows : posts[r] > 0 /\ box[r].dep # NoRow =>
    box[box[r].dep].state = "accepted"

\* At least once: an accepted row has a message.
AcceptedMeansPosted == \A r \in Rows : box[r].state = "accepted" => posts[r] > 0

\* The workers that still have to send the row they claimed.
Unsent(r) ==
  {w \in Workers : worker[w].row = r /\ worker[w].phase \in {"claimed", "sending"}}

\* Bounded: every message of a row is paid for by one of its attempts, and a
\* worker that still has to send holds an attempt that made none.
PostsBounded ==
  \A r \in Rows : posts[r] + Cardinality(Unsent(r)) <= box[r].attempts

\* A row whose producer never settled, or failed, is not delivered.
GatedNotPosted ==
  \A r \in Rows : box[r].gated \/ box[r].state = "deleted" => posts[r] = 0

\* Two workers never hold two rows of one ordering key under live leases.
OneLeasePerKey ==
  \A r \in Rows, q \in Rows :
    KeyOf(r) = KeyOf(q) /\ box[r].state = "leased" /\ box[q].state = "leased" => r = q

\* No waiting row has used up its attempts: it would never be claimed again and
\* would block its ordering key for ever.
NoneStarved == \A r \in Rows : box[r].state \in Waiting => ~Exhausted(box[r])

\* The unlocked read of has_claimable_work never hides work from the claim
\* transaction: when it says no, the transaction would change nothing.
ClaimCheckComplete ==
  ~HasClaimableWork =>
    Propagated(Recovered(box)) = box /\ Eligible(box) = {}

\* A final outcome is final: no late worker, claim or producer changes it.
TerminalIsFinal ==
  [][\A r \in Rows : box[r].state \in Terminal => box'[r] = box[r]]_vars

\* Only the holder of the lease moves a leased row, unless the lease ran out.
LeaseProtects ==
  [][\A r \in Rows :
       box[r].state = "leased" /\ ~box[r].late /\ box'[r].state # "leased"
         => \E w \in Workers : worker[w].phase = "settle" /\ worker[w].row = r
                                 /\ HoldsLease(w) /\ worker'[w] = Idle]_vars

\* discord-durable-delivery.md: a row that may have been delivered twice carries
\* explicit duplicate-risk state.
DuplicatesCarryRisk == \A r \in Rows : posts[r] > 1 => box[r].risk

\* Every row that was inserted reaches an outcome: none stays active for ever.
EveryRowSettles == \A r \in Rows : []<>(box[r].state \notin Active)
=============================================================================
