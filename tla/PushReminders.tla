--------------------------- MODULE PushReminders ---------------------------
(***************************************************************************)
(* Scheduled reminders of one artifact, delivered by Web Push              *)
(* (persistence/push, integrations/push_runtime).  Viewers and publishers  *)
(* arm and clear reminders, register devices and opt in.  A sweeper turns  *)
(* every due reminder into one delivery per eligible subscription, and a   *)
(* single sender leases deliveries, sends them and stores each outcome.    *)
(* Each database call is one transaction and one step; a lease, a back-off *)
(* or an expiry is a flag that a step of time sets.                        *)
(***************************************************************************)
EXTENDS Integers, FiniteSets, Functions

CONSTANTS
  Keys,          \* the (scope, owner, key) triples of the artifact's reminders
  Viewers,
  Owner,         \* Owner[k]: the viewer of a viewer-scope reminder, or Everyone
  Everyone,
  Endpoints,     \* push-service endpoints, one per device
  Orgs,
  Admin,         \* the administrator tenant, which reads every organization
  NoOrg,         \* the organization of a deleted artifact
  NoSub,         \* an endpoint without a subscription
  Registered,    \* the subscriptions the devices start with
  OptedIn,       \* the viewers who have opted in at the start
  ArmedReminderLimit,
  SubscriptionsPerViewer,
  MaxArmings,       \* bound: calls of set_reminder
  MaxSubscriptions, \* bound: subscription rows ever inserted
  MaxChanges        \* bound: requests that clear a reminder, change an opt-in, take a
                    \* subscription over or away, or move or delete the artifact

Subscriptions == [id: 1..MaxSubscriptions, viewer: Viewers, org: Orgs]

ASSUME LimitAssumption ==
  /\ IsFiniteSet(Keys)
  /\ ArmedReminderLimit \in Nat /\ SubscriptionsPerViewer \in Nat \ {0}
  /\ MaxArmings \in Nat /\ MaxSubscriptions \in Nat /\ MaxChanges \in Nat

ASSUME NameAssumption ==
  /\ Owner \in [Keys -> Viewers \cup {Everyone}]
  /\ Admin \in Orgs /\ NoOrg \notin Orgs
  /\ OptedIn \subseteq Viewers
  /\ NoSub \notin Subscriptions

\* Registered devices have distinct subscriptions, numbered from 1, and no
\* viewer has more of them than save_subscription leaves.
ASSUME RegisteredAssumption ==
  LET devices == {e \in Endpoints : Registered[e] # NoSub}
  IN  /\ Registered \in [Endpoints -> Subscriptions \cup {NoSub}]
      /\ Cardinality(devices) \in 0..MaxSubscriptions
      /\ \A e \in devices : Registered[e].id <= Cardinality(devices)
      /\ \A e, f \in devices : Registered[e].id = Registered[f].id => e = f
      /\ \A v \in Viewers :
           Cardinality({e \in devices : Registered[e].viewer = v}) <= SubscriptionsPerViewer

VARIABLES
  artifactOrg,   \* artifacts.org
  reminders,     \* artifact_reminders
  armings,       \* number of successful set_reminder calls
  optins,        \* artifact_push_optins: the viewers who opted in
  subs,          \* push_subscriptions, by endpoint
  issued,        \* subscription ids handed out; ids grow with created_at
  deliveries,    \* push_deliveries, by the sweep that queued them
  sweeps,        \* sweeper transactions that fired something
  inFlight,      \* deliveries the sender has claimed and not yet settled
  changes        \* uses of the bound MaxChanges

vars == <<artifactOrg, reminders, armings, optins, subs, issued, deliveries,
          sweeps, inFlight, changes>>

----------------------------------------------------------------------------
(* Rows.                                                                   *)

\* fire_at against the clock: not reached, reached, or more than six hours ago.
Moments == {"future", "due", "late"}
States == {"pending", "accepted", "dead"}

\* `arming` numbers the set_reminder call that armed the row.
Reminders == [state: {"absent", "armed", "fired"}, when: Moments, arming: 0..MaxArmings]
NoReminder == [state |-> "absent", when |-> "future", arming |-> 0]

\* A sweep queues at most one row per subscription and reminder.
DeliveryIds == Nat \X (1..MaxSubscriptions) \X Keys

\* `viewer` and `org` record whom the row was queued for; the table has neither.
\* `when` is the clock against next_attempt_at and expires_at; only a pending row
\* is asked for it, so a settled one goes back to "waiting".
Deliveries == [state: States, when: {"waiting", "due", "expired"},
               arming: 1..MaxArmings, viewer: Viewers, org: Orgs]

Saved == {e \in Endpoints : subs[e] # NoSub}
SubOf(i) == i[2]
Armed == {k \in Keys : reminders[k].state = "armed"}
Pending(i) == deliveries[i].state = "pending"
Settled(i) == deliveries[i].state \in {"accepted", "dead"}

Without(gone) == Restrict(deliveries, DOMAIN deliveries \ gone)
QueuedFor(ids) == {i \in DOMAIN deliveries : SubOf(i) \in ids}
PendingFor(ids) == {i \in QueuedFor(ids) : Pending(i)}

Change == changes < MaxChanges /\ changes' = changes + 1

----------------------------------------------------------------------------
(* Reminders.                                                              *)

\* A new key, or a fired key that is armed again, is a new armed row.
BadWithinLimit(k) ==
  k \in Armed \/ Cardinality({j \in Armed : Owner[j] = Owner[k]}) < ArmedReminderLimit
WithinLimit(k) == k \in Armed \/ Cardinality(Armed) < ArmedReminderLimit

SetReminder(k) ==
  /\ artifactOrg # NoOrg
  /\ armings < MaxArmings
  /\ WithinLimit(k)
  /\ armings' = armings + 1
  /\ reminders' = [reminders EXCEPT ![k] =
                     [state |-> "armed", when |-> "future", arming |-> armings']]
  /\ UNCHANGED <<artifactOrg, optins, subs, issued, deliveries, sweeps, inFlight,
                 changes>>

\* The row is deleted; deliveries it already queued stay.
ClearReminder(k) ==
  /\ reminders[k].state # "absent"
  /\ Change
  /\ reminders' = [reminders EXCEPT ![k] = NoReminder]
  /\ UNCHANGED <<artifactOrg, armings, optins, subs, issued, deliveries, sweeps,
                 inFlight>>

----------------------------------------------------------------------------
(* Opt-ins and subscriptions.                                              *)

OptIn(v) ==
  /\ artifactOrg # NoOrg
  /\ v \notin optins
  /\ Change
  /\ optins' = optins \cup {v}
  /\ UNCHANGED <<artifactOrg, reminders, armings, subs, issued, deliveries, sweeps,
                 inFlight>>

OptOut(v) ==
  /\ v \in optins
  /\ Change
  /\ optins' = optins \ {v}
  /\ UNCHANGED <<artifactOrg, reminders, armings, subs, issued, deliveries, sweeps,
                 inFlight>>

\* The other subscriptions of a viewer who saves one at endpoint e.
Others(e, v) == {f \in Saved \ {e} : subs[f].viewer = v}

\* The oldest of them, as many as exceed the limit once e is counted.
Excess(e, v) ==
  LET others == Others(e, v)
      excess == Cardinality(others) - (SubscriptionsPerViewer - 1)
  IN  {f \in others : Cardinality({g \in others : subs[g].id < subs[f].id}) < excess}

\* Rows that were queued under the eligibility of the subscription's previous owner.
BadReaddressed(e, v, o) ==
  IF e \in Saved /\ subs[e].viewer # v THEN PendingFor({subs[e].id}) ELSE {}
Readdressed(e, v, o) ==
  IF e \in Saved /\ (subs[e].viewer # v \/ subs[e].org # o)
  THEN PendingFor({subs[e].id})
  ELSE {}

\* Upsert by endpoint; a deleted subscription takes its deliveries with it.
SaveSubscription(e, v, o) ==
  LET new == e \notin Saved
      id == IF new THEN issued + 1 ELSE subs[e].id
      excess == Excess(e, v)
  IN  /\ new => issued < MaxSubscriptions
      /\ ~new => subs[e].viewer # v \/ subs[e].org # o
      /\ IF new THEN UNCHANGED changes ELSE Change
      /\ issued' = IF new THEN issued + 1 ELSE issued
      /\ subs' = [f \in Endpoints |-> IF f = e THEN [id |-> id, viewer |-> v, org |-> o]
                                      ELSE IF f \in excess THEN NoSub ELSE subs[f]]
      /\ deliveries' = Without(Readdressed(e, v, o) \cup QueuedFor({subs[f].id : f \in excess}))
      /\ UNCHANGED <<artifactOrg, reminders, armings, optins, sweeps, inFlight>>

\* The first call of every signed-in request: the viewer's subscriptions follow
\* the viewer to their current organization.
RefreshSubscriptionOrg(v, o) ==
  LET stale == {e \in Saved : subs[e].viewer = v /\ subs[e].org # o}
  IN  /\ stale # {}
      /\ subs' = [e \in Endpoints |-> IF e \in stale
                    THEN [id |-> subs[e].id, viewer |-> subs[e].viewer, org |-> o]
                    ELSE subs[e]]
      /\ deliveries' = Without(PendingFor({subs[e].id : e \in stale}))
      /\ UNCHANGED <<artifactOrg, reminders, armings, optins, issued, sweeps, inFlight,
                     changes>>

\* remove_subscription by its viewer: the row and, by cascade, its deliveries.
RemoveSubscription(e) ==
  /\ e \in Saved
  /\ Change
  /\ subs' = [subs EXCEPT ![e] = NoSub]
  /\ deliveries' = Without(QueuedFor({subs[e].id}))
  /\ UNCHANGED <<artifactOrg, reminders, armings, optins, issued, sweeps, inFlight>>

\* move_to_org_sync changes none of the push tables.
MoveArtifact(o) ==
  /\ artifactOrg \notin {NoOrg, o}
  /\ Change
  /\ artifactOrg' = o
  /\ UNCHANGED <<reminders, armings, optins, subs, issued, deliveries, sweeps, inFlight>>

\* Reminders and opt-ins reference the artifact and go with it; deliveries do not.
DeleteArtifact ==
  /\ artifactOrg # NoOrg
  /\ Change
  /\ artifactOrg' = NoOrg
  /\ reminders' = [k \in Keys |-> NoReminder]
  /\ optins' = {}
  /\ UNCHANGED <<armings, subs, issued, deliveries, sweeps, inFlight>>

----------------------------------------------------------------------------
(* The sweeper.                                                            *)

\* Every opted-in viewer's subscriptions in the artifact's current organization
\* or in the administrator tenant; only the owner's for a viewer-scope reminder.
Recipients(k) ==
  {e \in Saved : /\ subs[e].viewer \in optins
                 /\ subs[e].org \in {artifactOrg, Admin}
                 /\ Owner[k] \in {Everyone, subs[e].viewer}}

\* A late reminder is fired like any other, only without deliveries.
BadDueReminders == {k \in Armed : reminders[k].when = "due"}
DueReminders == {k \in Armed : reminders[k].when # "future"}

BadFired(k) == IF Owner[k] = Everyone THEN [reminders[k] EXCEPT !.state = "fired"]
               ELSE reminders[k]
Fired(k) == [reminders[k] EXCEPT !.state = "fired"]

\* The rows one sweep queues.
Queued ==
  {i \in {sweeps + 1} \X (1..MaxSubscriptions) \X DueReminders :
     /\ reminders[i[3]].when = "due"
     /\ \E e \in Recipients(i[3]) : subs[e].id = SubOf(i)}

Subscriber(id) == subs[CHOOSE e \in Saved : subs[e].id = id]

NewDelivery(i) ==
  [state |-> "pending", when |-> "due", arming |-> reminders[i[3]].arming,
   viewer |-> Subscriber(SubOf(i)).viewer, org |-> Subscriber(SubOf(i)).org]

\* sweep_due: one transaction over every due reminder.
Sweep ==
  /\ DueReminders # {}
  /\ sweeps' = sweeps + 1
  /\ deliveries' = [i \in DOMAIN deliveries \cup Queued |->
                      IF i \in Queued THEN NewDelivery(i) ELSE deliveries[i]]
  /\ reminders' = [k \in Keys |-> IF k \in DueReminders THEN Fired(k) ELSE reminders[k]]
  /\ UNCHANGED <<artifactOrg, armings, optins, subs, issued, inFlight, changes>>

----------------------------------------------------------------------------
(* The sender.                                                             *)

Overdue == {i \in DOMAIN deliveries : Pending(i) /\ deliveries[i].when = "expired"}
Claimable == {i \in DOMAIN deliveries : Pending(i) /\ deliveries[i].when = "due"}
Finished == {i \in DOMAIN deliveries : Settled(i)}

\* One sender task: a turn starts when every attempt of the last one has returned.
BadTurnOver == TRUE
TurnOver == inFlight = {}

\* send_due up to the claim: delete some finished rows older than the retention,
\* mark overdue rows dead, lease every due row.
SendDue(pruned) ==
  LET dead == Overdue
      claimed == Claimable
  IN  /\ TurnOver
      /\ pruned # {} \/ dead # {} \/ claimed # {}
      /\ deliveries' = [i \in DOMAIN deliveries \ pruned |->
                          IF i \in dead THEN [deliveries[i] EXCEPT !.state = "dead", !.when = "waiting"]
                          ELSE IF i \in claimed THEN [deliveries[i] EXCEPT !.when = "waiting"]
                          ELSE deliveries[i]]
      /\ inFlight' = inFlight \cup claimed
      /\ UNCHANGED <<artifactOrg, reminders, armings, optins, subs, issued, sweeps,
                     changes>>

\* The outcome is stored by id, whatever the row says by then; a row that was
\* deleted meanwhile is not updated.
Stored(i, state) ==
  [j \in DOMAIN deliveries |->
     IF j = i THEN [deliveries[j] EXCEPT !.state = state, !.when = "waiting"] ELSE deliveries[j]]

Returned(i) ==
  /\ i \in inFlight
  /\ inFlight' = inFlight \ {i}
  /\ UNCHANGED <<artifactOrg, reminders, armings, optins, issued, sweeps>>

\* 200 to 202.
MarkAccepted(i) ==
  /\ Returned(i)
  /\ deliveries' = Stored(i, "accepted")
  /\ UNCHANGED <<subs, changes>>

\* 404 or 410: remove_subscription_by_id, and its deliveries with it.
Gone(i) ==
  /\ Returned(i)
  /\ subs' = [e \in Endpoints |-> IF e \in Saved /\ subs[e].id = SubOf(i) THEN NoSub ELSE subs[e]]
  /\ deliveries' = Without(QueuedFor({SubOf(i)}))
  /\ UNCHANGED changes

\* 429, 5xx or no answer: back to pending with a later attempt, or dead when that
\* attempt would fall at or past the expiry.
MarkRetry(i) ==
  /\ Returned(i)
  /\ \/ /\ i \in DOMAIN deliveries => deliveries[i].when # "expired"
        /\ deliveries' = Stored(i, "pending")
     \/ deliveries' = Stored(i, "dead")
  /\ UNCHANGED <<subs, changes>>

\* Any other status, or an endpoint that the allowlist no longer has.
MarkDead(i) ==
  /\ Returned(i)
  /\ deliveries' = Stored(i, "dead")
  /\ UNCHANGED <<subs, changes>>

\* The outcome cannot be stored: the row keeps its lease.
StoreFails(i) ==
  /\ Returned(i)
  /\ UNCHANGED <<subs, deliveries, changes>>

\* The process stops and starts again; claims live in the database only.
Crash ==
  /\ inFlight # {}
  /\ inFlight' = {}
  /\ UNCHANGED <<artifactOrg, reminders, armings, optins, subs, issued, deliveries,
                 sweeps, changes>>

Attempt(i) ==
  MarkAccepted(i) \/ Gone(i) \/ MarkRetry(i) \/ MarkDead(i) \/ StoreFails(i)

----------------------------------------------------------------------------
(* Time.                                                                   *)

ReminderTime(k) ==
  /\ reminders[k].state = "armed" /\ reminders[k].when # "late"
  /\ reminders' = [reminders EXCEPT ![k].when = IF @ = "future" THEN "due" ELSE "late"]
  /\ UNCHANGED <<artifactOrg, armings, optins, subs, issued, deliveries, sweeps, inFlight,
                 changes>>

\* A lease or a back-off ends, or the 30 minutes are over.
DeliveryTime(i, moment) ==
  /\ i \in DOMAIN deliveries /\ Pending(i)
  /\ deliveries[i].when \in (IF moment = "due" THEN {"waiting"} ELSE {"waiting", "due"})
  /\ deliveries' = [deliveries EXCEPT ![i].when = moment]
  /\ UNCHANGED <<artifactOrg, reminders, armings, optins, subs, issued, sweeps, inFlight,
                 changes>>

----------------------------------------------------------------------------
\* Devices are registered and viewers have opted in; nothing is armed yet.
Init ==
  /\ artifactOrg \in Orgs \ {Admin}
  /\ reminders = [k \in Keys |-> NoReminder]
  /\ armings = 0
  /\ optins = OptedIn
  /\ subs = Registered
  /\ issued = Cardinality(Saved)
  /\ deliveries = [i \in {} |-> 0]
  /\ sweeps = 0
  /\ inFlight = {}
  /\ changes = 0

Clock ==
  \/ \E k \in Keys : ReminderTime(k)
  \/ \E i \in DOMAIN deliveries : DeliveryTime(i, "expired")

SenderStep == \E pruned \in SUBSET Finished : SendDue(pruned)
AttemptStep == \E i \in inFlight : Attempt(i)

Next ==
  \/ \E k \in Keys : SetReminder(k) \/ ClearReminder(k)
  \/ \E v \in Viewers : OptIn(v) \/ OptOut(v)
  \/ \E v \in Viewers, o \in Orgs :
       \/ RefreshSubscriptionOrg(v, o)
       \/ \E e \in Endpoints : SaveSubscription(e, v, o)
  \/ \E e \in Endpoints : RemoveSubscription(e)
  \/ \E o \in Orgs : MoveArtifact(o)
  \/ DeleteArtifact
  \/ Sweep
  \/ SenderStep
  \/ AttemptStep
  \/ Crash
  \/ Clock
  \/ \E i \in DOMAIN deliveries : DeliveryTime(i, "due")

\* The sweeper and the sender loop on timers and on wake-ups, every send has a
\* 10-second timeout, and the clock advances.
Fairness ==
  /\ WF_vars(Sweep)
  /\ WF_vars(SenderStep)
  /\ WF_vars(AttemptStep)
  /\ WF_vars(Clock)

Spec == Init /\ [][Next]_vars /\ Fairness

----------------------------------------------------------------------------
(* Properties.                                                             *)

\* Every row of the push tables and the sender's batch has its shape.
TypeOK ==
  /\ artifactOrg \in Orgs \cup {NoOrg}
  /\ reminders \in [Keys -> Reminders]
  /\ armings \in 0..MaxArmings
  /\ optins \subseteq Viewers
  /\ subs \in [Endpoints -> Subscriptions \cup {NoSub}]
  /\ issued \in 0..MaxSubscriptions
  /\ deliveries \in [DOMAIN deliveries -> Deliveries]
  /\ DOMAIN deliveries \subseteq DeliveryIds
  /\ sweeps \in Nat
  /\ inFlight \subseteq DeliveryIds
  /\ changes \in 0..MaxChanges

\* Subscription ids are unique and every delivery's subscription exists: each
\* removal of a subscription cascades to, or deletes, its deliveries.
References ==
  /\ \A e \in Saved : subs[e].id <= issued
  /\ \A e, f \in Saved : subs[e].id = subs[f].id => e = f
  /\ \A i \in DOMAIN deliveries : \E e \in Saved : subs[e].id = SubOf(i)

\* A queued delivery is still addressed to whoever owned the subscription when
\* it was queued: when a device changes hands or its viewer changes
\* organization, save_subscription and refresh_subscription_org drop what was
\* queued under the previous eligibility.
PendingAddressee ==
  \A i \in DOMAIN deliveries, e \in Endpoints :
    Pending(i) /\ e \in Saved /\ subs[e].id = SubOf(i) =>
      deliveries[i].viewer = subs[e].viewer /\ deliveries[i].org = subs[e].org

\* One call of set_reminder reaches a subscription at most once through the
\* queue, however sweeps, crashes and re-armings interleave: sweep_due queues
\* and marks fired in one transaction.
OncePerArming ==
  \A i, j \in DOMAIN deliveries :
    SubOf(i) = SubOf(j) /\ deliveries[i].arming = deliveries[j].arming => i = j

ArmedWithinLimit == Cardinality(Armed) <= ArmedReminderLimit

Devices(v) == {e \in Saved : subs[e].viewer = v}
DevicesWithinLimit == \A v \in Viewers : Cardinality(Devices(v)) <= SubscriptionsPerViewer

\* An artifact never has more than ARMED_REMINDER_LIMIT armed reminders, over
\* every scope and with fired keys armed again, and a viewer never keeps more
\* than SUBSCRIPTIONS_PER_VIEWER devices, with devices that change hands.
LimitsHold == ArmedWithinLimit /\ DevicesWithinLimit

\* A settled delivery is never settled again and never returns to the queue.
\* mark_accepted, mark_retry and mark_dead update by id with no guard on the
\* state or the lease, so this rests on there being one sender, whose turn
\* waits for all of its attempts.
SettledStays ==
  [][\A i \in DOMAIN deliveries \cap DOMAIN deliveries' :
       Settled(i) => deliveries'[i].state = deliveries[i].state]_vars

\* Once nobody arms reminders any more (MaxArmings), every reminder has been
\* fired or cleared and every delivery has settled or was dropped, whatever the
\* push service answers and although the process may stop: late reminders are
\* fired too, a lost claim is only a lease, and expire_overdue ends the retries.
QueueDrains == <>[](Armed = {} /\ \A i \in DOMAIN deliveries : Settled(i))
=============================================================================
