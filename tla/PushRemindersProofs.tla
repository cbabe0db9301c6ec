------------------------ MODULE PushRemindersProofs ------------------------
(***************************************************************************)
(* Proofs about the reminder queue for every number of reminders, viewers, *)
(* devices, organizations and every bound.  The inductive invariant adds   *)
(* to the properties what the code relies on without saying so: an armed   *)
(* reminder has queued nothing yet, rows queued by later sweeps are new    *)
(* rows, and a row the sender holds is still pending.                      *)
(***************************************************************************)
EXTENDS PushReminders, FiniteSetTheorems, TLAPS

\* An armed reminder's arming is its own and has queued nothing.
ArmingsUnused ==
  /\ \A k \in Armed : reminders[k].arming \in 1..armings
  /\ \A k, l \in Armed : reminders[k].arming = reminders[l].arming => k = l
  /\ \A i \in DOMAIN deliveries : deliveries[i].arming <= armings
  /\ \A i \in DOMAIN deliveries, k \in Armed : deliveries[i].arming # reminders[k].arming

\* Queued rows carry the number of a sweep that has happened.
SweptBefore == \A i \in DOMAIN deliveries : i[1] <= sweeps

\* No one but the sender settles a row it holds.
HeldPending == \A i \in inFlight \cap DOMAIN deliveries : Pending(i)

IndInv ==
  /\ TypeOK /\ References
  /\ ArmingsUnused /\ SweptBefore /\ HeldPending
  /\ PendingAddressee /\ OncePerArming /\ ArmedWithinLimit

\* A step that queues nothing: rows only go, and a row that stays keeps what it
\* was queued for.
KeepsRows ==
  /\ DOMAIN deliveries' \subseteq DOMAIN deliveries
  /\ deliveries' \in [DOMAIN deliveries' -> Deliveries]
  /\ \A i \in DOMAIN deliveries' : /\ deliveries'[i].arming = deliveries[i].arming
                                   /\ deliveries'[i].viewer = deliveries[i].viewer
                                   /\ deliveries'[i].org = deliveries[i].org

\* A step that arms nothing: reminders only leave the armed state.
KeepsArmed ==
  /\ Armed' \subseteq Armed
  /\ \A k \in Armed' : reminders'[k].arming = reminders[k].arming
  /\ UNCHANGED <<armings, sweeps>>

\* Leaves are left to Zenon unless they name another backend.
USE ZenonT(30)

LEMMA ArmedFinite ==
  IsFiniteSet(Armed) /\ Cardinality(Armed) \in Nat
<1>1. IsFiniteSet(Armed)
  BY FS_Subset, LimitAssumption DEF Armed
<1> QED BY <1>1, FS_CardinalityType

\* Queuing nothing and arming nothing keeps every arming unused and every sent
\* arming unique.
LEMMA KeepsArmings ==
  ASSUME IndInv, KeepsRows, KeepsArmed
  PROVE  ArmingsUnused' /\ SweptBefore' /\ OncePerArming' /\ ArmedWithinLimit'
<1>1. ArmingsUnused'
  BY SMTT(20) DEF IndInv, ArmingsUnused, KeepsRows, KeepsArmed
<1>2. SweptBefore'
  BY DEF IndInv, SweptBefore, KeepsRows, KeepsArmed
<1>3. OncePerArming'
  BY DEF IndInv, OncePerArming, KeepsRows, SubOf
<1>4. ArmedWithinLimit'
  <2>1. Cardinality(Armed') <= Cardinality(Armed) /\ Cardinality(Armed') \in Nat
    BY ArmedFinite, FS_Subset, FS_CardinalityType DEF KeepsArmed
  <2>2. Cardinality(Armed) <= ArmedReminderLimit
    BY DEF IndInv, ArmedWithinLimit
  <2> QED BY <2>1, <2>2, ArmedFinite, LimitAssumption, SMTT(20) DEF ArmedWithinLimit
<1> QED BY <1>1, <1>2, <1>3, <1>4

LEMMA SameArmed ==
  ASSUME UNCHANGED <<reminders, armings, sweeps>>
  PROVE  KeepsArmed
BY DEF KeepsArmed, Armed

LEMMA SameRows ==
  ASSUME IndInv, UNCHANGED deliveries
  PROVE  KeepsRows
BY DEF IndInv, TypeOK, KeepsRows

\* Deleting rows is such a step.
LEMMA WithoutKeeps ==
  ASSUME IndInv, NEW gone, deliveries' = Without(gone)
  PROVE  /\ KeepsRows
         /\ DOMAIN deliveries' = DOMAIN deliveries \ gone
         /\ \A i \in DOMAIN deliveries' : deliveries'[i] = deliveries[i]
<1>1. deliveries' = [i \in DOMAIN deliveries \ gone |-> deliveries[i]]
  BY DEF Without, Restrict
<1>2. deliveries \in [DOMAIN deliveries -> Deliveries]
  BY DEF IndInv, TypeOK
<1> QED BY <1>1, <1>2 DEF KeepsRows

----------------------------------------------------------------------------
(* Reminders, opt-ins and the artifact: the queue is not touched.          *)

\* What depends only on subscriptions, the queue and the sender's batch.
LEMMA QueueUntouched ==
  ASSUME IndInv, UNCHANGED <<subs, issued, deliveries, inFlight>>
  PROVE  References' /\ PendingAddressee' /\ HeldPending'
<1>1. References'
  BY DEF IndInv, References, Saved, SubOf
<1>2. PendingAddressee'
  BY DEF IndInv, PendingAddressee, Saved, Pending, SubOf
<1>3. HeldPending'
  BY DEF IndInv, HeldPending, Pending
<1> QED BY <1>1, <1>2, <1>3

LEMMA SetReminderKeeps ==
  ASSUME IndInv, NEW k \in Keys, SetReminder(k)
  PROVE  IndInv'
<1> USE DEF SetReminder
<1>t. TypeOK
  BY DEF IndInv
<1>1. TypeOK'
  BY <1>t, LimitAssumption, SMTT(20) DEF TypeOK, Reminders, Moments
<1>2. /\ Armed' = Armed \cup {k}
      /\ reminders'[k].arming = armings + 1
      /\ \A l \in Keys \ {k} : reminders'[l] = reminders[l]
      /\ Armed \subseteq Keys /\ armings \in Nat
  BY <1>t, LimitAssumption, SMTT(20) DEF Armed, TypeOK, Reminders
<1>3. ArmingsUnused'
  <2>1. \A l \in Keys : reminders[l].arming \in Int
    BY <1>t, LimitAssumption, SMTT(20) DEF TypeOK, Reminders
  <2>2. \A i \in DOMAIN deliveries : deliveries[i].arming \in Int
    BY <1>t, LimitAssumption, SMTT(20) DEF TypeOK, Deliveries
  <2> QED BY <1>2, <2>1, <2>2, SMTT(20) DEF IndInv, ArmingsUnused
<1>4. SweptBefore' /\ OncePerArming'
  BY DEF IndInv, SweptBefore, OncePerArming, SubOf
<1>5. ArmedWithinLimit'
  <2>1. CASE k \in Armed
    <3>1. Armed' = Armed
      BY <1>2, <2>1
    <3> QED BY <3>1 DEF IndInv, ArmedWithinLimit
  <2>2. CASE k \notin Armed
    <3>1. Cardinality(Armed') = Cardinality(Armed) + 1
      BY <1>2, <2>2, ArmedFinite, FS_AddElement
    <3>2. Cardinality(Armed) < ArmedReminderLimit
      BY <2>2 DEF WithinLimit
    <3> QED BY <3>1, <3>2, ArmedFinite, LimitAssumption, SMTT(20) DEF ArmedWithinLimit
  <2> QED BY <2>1, <2>2
<1> QED BY <1>1, <1>3, <1>4, <1>5, QueueUntouched DEF IndInv

\* Clearing, ageing and deleting reminders, opting in and out, and moving the
\* artifact arm nothing.
LEMMA ReminderStepsKeep ==
  ASSUME IndInv, TypeOK', KeepsArmed, UNCHANGED <<subs, issued, deliveries, inFlight>>
  PROVE  IndInv'
BY SameRows, KeepsArmings, QueueUntouched DEF IndInv

LEMMA ClearReminderKeeps ==
  ASSUME IndInv, NEW k \in Keys, ClearReminder(k)
  PROVE  IndInv'
<1>t. TypeOK
  BY DEF IndInv
<1>1. TypeOK'
  BY <1>t, LimitAssumption, SMTT(20) DEF TypeOK, Reminders, Moments, NoReminder, ClearReminder, Change
<1>2. KeepsArmed
  BY <1>t DEF TypeOK, KeepsArmed, Armed, NoReminder, ClearReminder
<1> QED BY <1>1, <1>2, ReminderStepsKeep DEF ClearReminder

LEMMA ReminderTimeKeeps ==
  ASSUME IndInv, NEW k \in Keys, ReminderTime(k)
  PROVE  IndInv'
<1>t. TypeOK
  BY DEF IndInv
<1>1. PICK w \in Moments : reminders' = [reminders EXCEPT ![k].when = w]
  BY DEF ReminderTime, Moments
<1>2. TypeOK'
  BY <1>t, <1>1, SMTT(20) DEF TypeOK, Reminders, ReminderTime
<1>3. KeepsArmed
  BY <1>t, <1>1, SMTT(20) DEF TypeOK, KeepsArmed, Armed, Reminders, ReminderTime
<1> QED BY <1>2, <1>3, ReminderStepsKeep DEF ReminderTime

LEMMA ArtifactStepsKeep ==
  ASSUME IndInv,
         \/ \E v \in Viewers : OptIn(v) \/ OptOut(v)
         \/ \E o \in Orgs : MoveArtifact(o)
         \/ DeleteArtifact
  PROVE  IndInv'
<1>t. TypeOK
  BY DEF IndInv
<1>1. ASSUME NEW v \in Viewers, OptIn(v) \/ OptOut(v) PROVE IndInv'
  <2>1. TypeOK'
    BY <1>t, <1>1, LimitAssumption, SMTT(20) DEF TypeOK, OptIn, OptOut, Change
  <2> QED BY <1>1, <2>1, SameArmed, ReminderStepsKeep DEF OptIn, OptOut
<1>2. ASSUME NEW o \in Orgs, MoveArtifact(o) PROVE IndInv'
  <2>1. TypeOK'
    BY <1>t, <1>2, LimitAssumption, SMTT(20) DEF TypeOK, MoveArtifact, Change
  <2> QED BY <1>2, <2>1, SameArmed, ReminderStepsKeep DEF MoveArtifact
<1>3. ASSUME DeleteArtifact PROVE IndInv'
  <2>1. TypeOK'
    BY <1>t, <1>3, LimitAssumption, SMTT(20) DEF TypeOK, DeleteArtifact, Change, Reminders, Moments,
                                       NoReminder
  <2>2. KeepsArmed
    BY <1>t, <1>3 DEF TypeOK, KeepsArmed, Armed, NoReminder, DeleteArtifact
  <2> QED BY <1>3, <2>1, <2>2, ReminderStepsKeep DEF DeleteArtifact
<1> QED BY <1>1, <1>2, <1>3

----------------------------------------------------------------------------
(* Subscriptions: rows go with the eligibility they were queued under.     *)

\* Every subscription step: it deletes queue rows and changes subscriptions
\* so that what stays refers to an unchanged owner.
LEMMA SubscriptionStepsKeep ==
  ASSUME IndInv, TypeOK', NEW gone, deliveries' = Without(gone),
         UNCHANGED <<reminders, armings, sweeps>>, inFlight' \subseteq inFlight,
         References', PendingAddressee'
  PROVE  IndInv'
<1>1. ArmingsUnused' /\ SweptBefore' /\ OncePerArming' /\ ArmedWithinLimit'
  BY WithoutKeeps, SameArmed, KeepsArmings
<1>2. HeldPending'
  BY WithoutKeeps DEF IndInv, HeldPending, Pending
<1> QED BY <1>1, <1>2 DEF IndInv

\* The queue keeps its type when rows are deleted.
LEMMA WithoutTyped ==
  ASSUME IndInv, NEW gone, deliveries' = Without(gone)
  PROVE  /\ deliveries' \in [DOMAIN deliveries' -> Deliveries]
         /\ DOMAIN deliveries' \subseteq DeliveryIds
BY WithoutKeeps DEF KeepsRows, IndInv, TypeOK

LEMMA SubscriptionTyped ==
  ASSUME IndInv, NEW e \in Saved
  PROVE  subs[e] \in Subscriptions /\ e \in Endpoints /\ subs[e].id \in 1..MaxSubscriptions
BY DEF IndInv, TypeOK, Saved, Subscriptions

LEMMA SaveSubscriptionKeeps ==
  ASSUME IndInv, NEW e \in Endpoints, NEW v \in Viewers, NEW o \in Orgs,
         SaveSubscription(e, v, o)
  PROVE  IndInv'
<1> DEFINE new == e \notin Saved
           id == IF new THEN issued + 1 ELSE subs[e].id
           excess == Excess(e, v)
           gone == Readdressed(e, v, o) \cup QueuedFor({subs[f].id : f \in excess})
<1>t. TypeOK
  BY DEF IndInv
<1>1. /\ new => issued < MaxSubscriptions
      /\ issued' = IF new THEN issued + 1 ELSE issued
      /\ subs' = [f \in Endpoints |-> IF f = e THEN [id |-> id, viewer |-> v, org |-> o]
                                      ELSE IF f \in excess THEN NoSub ELSE subs[f]]
      /\ deliveries' = Without(gone)
      /\ UNCHANGED <<artifactOrg, reminders, armings, optins, sweeps, inFlight>>
      /\ changes' \in 0..MaxChanges
  BY <1>t, LimitAssumption, SMTT(20) DEF SaveSubscription, TypeOK, Change
<1>2. excess \subseteq Saved \ {e}
  BY DEF Excess, Others
<1>3. id \in 1..MaxSubscriptions /\ issued' \in 0..MaxSubscriptions /\ id <= issued'
      /\ issued <= issued'
  BY <1>1, <1>t, SubscriptionTyped, LimitAssumption, SMTT(20) DEF TypeOK, IndInv, References
<1> HIDE DEF id, excess, gone
<1>4. subs'[e] \in Subscriptions
  BY <1>1, <1>3 DEF Subscriptions
<1>5. subs' \in [Endpoints -> Subscriptions \cup {NoSub}]
  BY <1>1, <1>4, <1>t DEF TypeOK
<1>6. TypeOK'
  BY <1>1, <1>3, <1>5, <1>t, WithoutTyped DEF TypeOK
<1>7. /\ Saved' = (Saved \ excess) \cup {e}
      /\ \A f \in Saved \ (excess \cup {e}) : subs'[f] = subs[f]
      /\ subs'[e].id = id /\ subs'[e].viewer = v /\ subs'[e].org = o
  BY <1>1, <1>2, <1>4, NameAssumption DEF Saved
<1>8. \A f \in Saved \ (excess \cup {e}) : subs[f].id # id
  <2>1. CASE new
    <3>1. \A f \in Saved : subs[f].id <= issued /\ subs[f].id \in Int
      BY SubscriptionTyped, SMTT(20) DEF IndInv, References
    <3> QED BY <2>1, <3>1, <1>t, SMTT(20) DEF id, TypeOK
  <2>2. CASE ~new
    BY <2>2 DEF id, IndInv, References
  <2> QED BY <2>1, <2>2
<1>9. References'
  <2>1. \A f \in Saved' : subs'[f].id <= issued'
    BY <1>3, <1>7, SubscriptionTyped, <1>t, SMTT(20) DEF IndInv, References, TypeOK
  <2>2. \A f, g \in Saved' : subs'[f].id = subs'[g].id => f = g
    BY <1>7, <1>8, SMTT(20) DEF IndInv, References
  <2>3. ASSUME NEW i \in DOMAIN deliveries' PROVE \E f \in Saved' : subs'[f].id = SubOf(i)
    <3>1. i \in DOMAIN deliveries /\ i \notin gone
      BY <1>1, WithoutKeeps
    <3>2. PICK f \in Saved : subs[f].id = SubOf(i)
      BY <3>1 DEF IndInv, References
    <3>3. f \notin excess
      BY <3>1, <3>2 DEF gone, QueuedFor
    <3>4. CASE f = e
      BY <3>2, <3>4, <1>7 DEF id
    <3>5. CASE f # e
      BY <3>2, <3>3, <3>5, <1>7
    <3> QED BY <3>4, <3>5
  <2> QED BY <2>1, <2>2, <2>3 DEF References, SubOf
<1>10. PendingAddressee'
  <2>1. SUFFICES ASSUME NEW i \in DOMAIN deliveries', NEW f \in Saved',
                        deliveries'[i].state = "pending", subs'[f].id = SubOf(i)
                 PROVE  deliveries'[i].viewer = subs'[f].viewer /\ deliveries'[i].org = subs'[f].org
    BY DEF PendingAddressee, Pending, SubOf
  <2>2. i \in DOMAIN deliveries /\ i \notin gone /\ deliveries'[i] = deliveries[i]
    BY <1>1, WithoutKeeps
  <2>3. CASE f # e
    <3>1. f \in Saved /\ subs'[f] = subs[f]
      BY <2>3, <1>7
    <3> QED BY <2>1, <2>2, <3>1, SubscriptionTyped DEF IndInv, PendingAddressee, Pending
  <2>4. CASE f = e
    <3>1. SubOf(i) = id
      BY <2>1, <2>4, <1>7
    <3>2. PICK g \in Saved : subs[g].id = SubOf(i)
      BY <2>2 DEF IndInv, References
    <3>3. g \notin excess
      BY <2>2, <3>2 DEF gone, QueuedFor
    <3>4. g = e
      BY <1>8, <3>1, <3>2, <3>3
    <3>5. subs[e].viewer = v /\ subs[e].org = o
      BY <2>1, <2>2, <3>2, <3>4 DEF gone, Readdressed, PendingFor, QueuedFor, Pending
    <3> QED BY <2>1, <2>2, <2>4, <3>2, <3>4, <3>5, <1>7
            DEF IndInv, PendingAddressee, Pending
  <2> QED BY <2>3, <2>4
<1> QED BY <1>1, <1>6, <1>9, <1>10, SubscriptionStepsKeep

LEMMA RefreshSubscriptionOrgKeeps ==
  ASSUME IndInv, NEW v \in Viewers, NEW o \in Orgs, RefreshSubscriptionOrg(v, o)
  PROVE  IndInv'
<1> DEFINE stale == {e \in Saved : subs[e].viewer = v /\ subs[e].org # o}
           gone == PendingFor({subs[e].id : e \in stale})
<1>t. TypeOK
  BY DEF IndInv
<1>1. /\ subs' = [e \in Endpoints |-> IF e \in stale
                    THEN [id |-> subs[e].id, viewer |-> subs[e].viewer, org |-> o]
                    ELSE subs[e]]
      /\ deliveries' = Without(gone)
      /\ UNCHANGED <<artifactOrg, reminders, armings, optins, issued, sweeps, inFlight, changes>>
  BY DEF RefreshSubscriptionOrg
<1>2. stale \subseteq Saved
  OBVIOUS
<1> HIDE DEF stale, gone
<1>3. \A e \in stale : subs'[e] \in Subscriptions /\ subs'[e].id = subs[e].id
  BY <1>1, <1>2, SubscriptionTyped DEF Subscriptions
<1>4. \A e \in Endpoints \ stale : subs'[e] = subs[e]
  BY <1>1
<1>5. Saved' = Saved /\ \A e \in Saved : subs'[e].id = subs[e].id
  BY <1>2, <1>3, <1>4, NameAssumption, SubscriptionTyped DEF Saved
<1>6. subs' \in [Endpoints -> Subscriptions \cup {NoSub}]
  BY <1>1, <1>3, <1>4, <1>t DEF TypeOK
<1>7. TypeOK'
  BY <1>1, <1>6, <1>t, WithoutTyped DEF TypeOK
<1>8. References'
  <2>1. DOMAIN deliveries' \subseteq DOMAIN deliveries
    BY <1>1, WithoutKeeps
  <2> QED BY <1>1, <1>5, <2>1, SMTT(20) DEF IndInv, References, SubOf
<1>9. PendingAddressee'
  <2>1. SUFFICES ASSUME NEW i \in DOMAIN deliveries', NEW e \in Saved',
                        deliveries'[i].state = "pending", subs'[e].id = SubOf(i)
                 PROVE  deliveries'[i].viewer = subs'[e].viewer /\ deliveries'[i].org = subs'[e].org
    BY DEF PendingAddressee, Pending, SubOf
  <2>2. i \in DOMAIN deliveries /\ i \notin gone /\ deliveries'[i] = deliveries[i]
    BY <1>1, WithoutKeeps
  <2>3. e \in Saved /\ subs[e].id = SubOf(i)
    BY <1>5, <2>1
  <2>4. e \notin stale
    BY <2>1, <2>2, <2>3 DEF gone, PendingFor, QueuedFor, Pending
  <2> QED BY <1>4, <2>1, <2>2, <2>3, <2>4, SubscriptionTyped DEF IndInv, PendingAddressee, Pending
<1> QED BY <1>1, <1>7, <1>8, <1>9, SubscriptionStepsKeep

\* Removing a subscription together with its whole queue.
LEMMA RemovalKeeps ==
  ASSUME IndInv, TypeOK', NEW id,
         subs' = [e \in Endpoints |-> IF e \in Saved /\ subs[e].id = id THEN NoSub ELSE subs[e]],
         deliveries' = Without(QueuedFor({id})),
         UNCHANGED <<reminders, armings, issued, sweeps>>, inFlight' \subseteq inFlight
  PROVE  IndInv'
<1>1. /\ \A e \in Saved' : e \in Endpoints /\ e \in Saved /\ subs'[e] = subs[e]
      /\ \A e \in Saved : subs[e].id # id => e \in Saved' /\ subs'[e] = subs[e]
  BY DEF Saved
<1>2. \A i \in DOMAIN deliveries' : /\ i \in DOMAIN deliveries /\ SubOf(i) # id
                                    /\ deliveries'[i] = deliveries[i]
  BY WithoutKeeps DEF QueuedFor
<1>3. References'
  <2>1. \A e \in Saved' : subs'[e].id <= issued'
    BY <1>1 DEF IndInv, References
  <2>2. \A e, f \in Saved' : subs'[e].id = subs'[f].id => e = f
    BY <1>1, SMTT(20) DEF IndInv, References
  <2>3. ASSUME NEW i \in DOMAIN deliveries'
        PROVE  \E e \in Saved' : subs'[e].id = SubOf(i)
    <3>1. PICK e \in Saved : subs[e].id = SubOf(i)
      BY <1>2 DEF IndInv, References
    <3>2. subs[e].id # id
      BY <1>2, <3>1
    <3> QED BY <1>1, <3>1, <3>2
  <2> QED BY <2>1, <2>2, <2>3 DEF References, SubOf
<1>4. PendingAddressee'
  <2>1. SUFFICES ASSUME NEW i \in DOMAIN deliveries', NEW e \in Saved',
                        deliveries'[i].state = "pending", subs'[e].id = SubOf(i)
                 PROVE  deliveries'[i].viewer = subs'[e].viewer /\ deliveries'[i].org = subs'[e].org
    BY DEF PendingAddressee, Pending, SubOf
  <2>2. i \in DOMAIN deliveries /\ deliveries'[i] = deliveries[i]
    BY <1>2
  <2>3. e \in Endpoints /\ e \in Saved /\ subs'[e] = subs[e]
    BY <1>1
  <2> QED BY <2>1, <2>2, <2>3 DEF IndInv, PendingAddressee, Pending
<1> QED BY <1>3, <1>4, SubscriptionStepsKeep

LEMMA RemoveSubscriptionKeeps ==
  ASSUME IndInv, NEW e \in Endpoints, RemoveSubscription(e)
  PROVE  IndInv'
<1>t. TypeOK
  BY DEF IndInv
<1>1. subs' = [f \in Endpoints |-> IF f \in Saved /\ subs[f].id = subs[e].id THEN NoSub ELSE subs[f]]
  BY <1>t DEF RemoveSubscription, TypeOK, IndInv, References
<1>2. deliveries' = Without(QueuedFor({subs[e].id}))
  BY DEF RemoveSubscription
<1>3. subs' \in [Endpoints -> Subscriptions \cup {NoSub}]
  BY <1>1, <1>t DEF TypeOK
<1>4. changes' \in 0..MaxChanges
  BY <1>t, LimitAssumption, SMTT(20) DEF TypeOK, RemoveSubscription, Change
<1>5. TypeOK'
  BY <1>2, <1>3, <1>4, <1>t, WithoutTyped DEF TypeOK, RemoveSubscription
<1>6. UNCHANGED <<reminders, armings, issued, sweeps>> /\ inFlight' \subseteq inFlight
  BY DEF RemoveSubscription
<1> QED BY <1>1, <1>2, <1>5, <1>6, RemovalKeeps

LEMMA GoneKeeps ==
  ASSUME IndInv, NEW i \in inFlight, Gone(i)
  PROVE  IndInv'
<1>t. TypeOK
  BY DEF IndInv
<1>1. subs' \in [Endpoints -> Subscriptions \cup {NoSub}]
  BY <1>t DEF TypeOK, Gone
<1>2. TypeOK'
  BY <1>1, <1>t, WithoutTyped DEF TypeOK, Gone, Returned
<1> QED BY <1>2, RemovalKeeps DEF Gone, Returned

----------------------------------------------------------------------------
(* The sweeper.                                                            *)

LEMMA SweepKeeps ==
  ASSUME IndInv, Sweep
  PROVE  IndInv'
<1>t. TypeOK
  BY DEF IndInv
<1>1. /\ sweeps' = sweeps + 1
      /\ deliveries' = [i \in DOMAIN deliveries \cup Queued |->
                          IF i \in Queued THEN NewDelivery(i) ELSE deliveries[i]]
      /\ reminders' = [k \in Keys |-> IF k \in DueReminders THEN Fired(k) ELSE reminders[k]]
      /\ UNCHANGED <<artifactOrg, armings, optins, subs, issued, inFlight, changes>>
  BY DEF Sweep
<1>2. /\ Armed' = Armed \ DueReminders
      /\ \A k \in Armed' : reminders'[k] = reminders[k]
      /\ DueReminders \subseteq Armed /\ Armed \subseteq Keys
      /\ reminders' \in [Keys -> Reminders]
  BY <1>1, <1>t DEF Armed, Fired, TypeOK, Reminders, DueReminders
<1>3. ASSUME NEW i \in Queued
      PROVE  /\ i \in DeliveryIds /\ i[1] = sweeps + 1 /\ i[3] \in DueReminders
             /\ \E e \in Saved : subs[e].id = SubOf(i)
  BY <1>2, <1>t, SMTT(20) DEF Queued, DeliveryIds, Recipients, TypeOK, SubOf
<1>4. ASSUME NEW i \in Queued, NEW e \in Saved, subs[e].id = SubOf(i)
      PROVE  Subscriber(SubOf(i)) = subs[e]
  BY <1>4 DEF Subscriber, IndInv, References
<1>5. ASSUME NEW i \in Queued
      PROVE  NewDelivery(i) \in Deliveries /\ NewDelivery(i).arming = reminders[i[3]].arming
  <2>1. PICK e \in Saved : subs[e].id = SubOf(i)
    BY <1>3
  <2>2. Subscriber(SubOf(i)) \in Subscriptions
    BY <1>4, <2>1, SubscriptionTyped
  <2>3. reminders[i[3]].arming \in 1..MaxArmings
    BY <1>2, <1>3, <1>t, LimitAssumption, SMTT(20) DEF IndInv, ArmingsUnused, TypeOK
  <2> QED BY <2>2, <2>3 DEF NewDelivery, Deliveries, States, Subscriptions
<1>6. DOMAIN deliveries' = DOMAIN deliveries \cup Queued
  BY <1>1
<1>7. \A i \in DOMAIN deliveries : i \notin Queued /\ deliveries'[i] = deliveries[i]
  <2>1. \A i \in DOMAIN deliveries : i[1] <= sweeps /\ i[1] \in Int
    BY <1>t, SMTT(20) DEF IndInv, SweptBefore, TypeOK, DeliveryIds
  <2> QED BY <1>1, <1>3, <2>1, <1>t, SMTT(20) DEF TypeOK
<1>8. \A i \in Queued : deliveries'[i] = NewDelivery(i)
  BY <1>1
<1> HIDE DEF Queued
<1>9. TypeOK'
  <2>1. deliveries' \in [DOMAIN deliveries' -> Deliveries] /\ DOMAIN deliveries' \subseteq DeliveryIds
    BY <1>1, <1>3, <1>5, <1>6, <1>7, <1>8, <1>t DEF TypeOK
  <2> QED BY <1>1, <1>2, <2>1, <1>t, SMTT(20) DEF TypeOK
<1>10. References'
  BY <1>1, <1>3, <1>6 DEF IndInv, References, Saved, SubOf
<1>11. ArmingsUnused'
  BY <1>1, <1>2, <1>3, <1>5, <1>6, <1>7, <1>8, <1>t, SMTT(20) DEF IndInv, ArmingsUnused, TypeOK
<1>12. SweptBefore'
  <2>1. \A i \in DOMAIN deliveries : i[1] <= sweeps /\ i[1] \in Int
    BY <1>t, SMTT(20) DEF IndInv, SweptBefore, TypeOK, DeliveryIds
  <2> QED BY <1>1, <1>3, <1>6, <2>1, <1>t, SMTT(20) DEF SweptBefore, TypeOK
<1>13. HeldPending'
  BY <1>1, <1>6, <1>7, <1>8 DEF IndInv, HeldPending, Pending, NewDelivery
<1>14. PendingAddressee'
  <2>1. SUFFICES ASSUME NEW i \in DOMAIN deliveries', NEW e \in Saved,
                        deliveries'[i].state = "pending", subs[e].id = SubOf(i)
                 PROVE  deliveries'[i].viewer = subs[e].viewer /\ deliveries'[i].org = subs[e].org
    <3>1. Saved' = Saved /\ subs' = subs
      BY <1>1 DEF Saved
    <3> QED BY <3>1 DEF PendingAddressee, Pending, SubOf
  <2>2. CASE i \in Queued
    <3>1. Subscriber(SubOf(i)) = subs[e]
      BY <1>4, <2>1, <2>2
    <3>2. deliveries'[i] = NewDelivery(i)
      BY <1>8, <2>2
    <3> QED BY <3>1, <3>2, SMTT(20) DEF NewDelivery
  <2>3. CASE i \notin Queued
    BY <1>6, <1>7, <2>1, <2>3, SubscriptionTyped, SMTT(20) DEF IndInv, PendingAddressee, Pending
  <2> QED BY <2>2, <2>3
<1>15. OncePerArming'
  <2>1. SUFFICES ASSUME NEW i \in DOMAIN deliveries', NEW j \in DOMAIN deliveries',
                        SubOf(i) = SubOf(j), deliveries'[i].arming = deliveries'[j].arming
                 PROVE  i = j
    BY DEF OncePerArming, SubOf
  <2>2. CASE i \in Queued /\ j \in Queued
    <3>1. i[3] = j[3]
      BY <1>2, <1>3, <1>5, <1>8, <2>1, <2>2, SMTT(20) DEF IndInv, ArmingsUnused
    <3> QED BY <1>3, <2>1, <2>2, <3>1, SMTT(20) DEF SubOf, DeliveryIds
  <2>3. CASE i \in Queued /\ j \notin Queued
    BY <1>2, <1>3, <1>5, <1>6, <1>7, <1>8, <2>1, <2>3, SMTT(20) DEF IndInv, ArmingsUnused
  <2>4. CASE i \notin Queued /\ j \in Queued
    BY <1>2, <1>3, <1>5, <1>6, <1>7, <1>8, <2>1, <2>4, SMTT(20) DEF IndInv, ArmingsUnused
  <2>5. CASE i \notin Queued /\ j \notin Queued
    BY <1>6, <1>7, <2>1, <2>5 DEF IndInv, OncePerArming
  <2> QED BY <2>2, <2>3, <2>4, <2>5
<1>16. ArmedWithinLimit'
  <2>1. Cardinality(Armed') <= Cardinality(Armed) /\ Cardinality(Armed') \in Nat
    BY <1>2, ArmedFinite, FS_Subset, FS_CardinalityType
  <2> QED BY <2>1, ArmedFinite, LimitAssumption, SMTT(20) DEF IndInv, ArmedWithinLimit
<1> QED BY <1>9, <1>10, <1>11, <1>12, <1>13, <1>14, <1>15, <1>16 DEF IndInv

----------------------------------------------------------------------------
(* The sender and the clock: rows change state, nothing else does.         *)

LEMMA RowStepsKeep ==
  ASSUME IndInv, TypeOK', KeepsRows, HeldPending',
         \A i \in DOMAIN deliveries' : deliveries'[i].state = "pending" => Pending(i),
         UNCHANGED <<subs, issued, reminders, armings, sweeps>>
  PROVE  IndInv'
<1>1. ArmingsUnused' /\ SweptBefore' /\ OncePerArming' /\ ArmedWithinLimit'
  BY SameArmed, KeepsArmings
<1>2. Saved' = Saved
  BY DEF Saved
<1>3. References'
  BY <1>2 DEF IndInv, References, SubOf, KeepsRows
<1>4. PendingAddressee'
  BY <1>2 DEF IndInv, PendingAddressee, Pending, SubOf, KeepsRows
<1> QED BY <1>1, <1>3, <1>4 DEF IndInv

LEMMA SendDueKeeps ==
  ASSUME IndInv, NEW pruned \in SUBSET Finished, SendDue(pruned)
  PROVE  /\ IndInv'
         /\ \A i \in DOMAIN deliveries' : Settled(i) => deliveries'[i].state = deliveries[i].state
<1> DEFINE Row(i) == IF i \in Overdue
                     THEN [deliveries[i] EXCEPT !.state = "dead", !.when = "waiting"]
                     ELSE IF i \in Claimable THEN [deliveries[i] EXCEPT !.when = "waiting"]
                     ELSE deliveries[i]
<1>t. TypeOK
  BY DEF IndInv
<1>1. /\ inFlight = {} /\ inFlight' = Claimable
      /\ deliveries' = [i \in DOMAIN deliveries \ pruned |-> Row(i)]
      /\ UNCHANGED <<artifactOrg, reminders, armings, optins, subs, issued, sweeps, changes>>
  BY DEF SendDue, TurnOver
<1>2. \A i \in DOMAIN deliveries : deliveries[i] \in Deliveries
  BY <1>t DEF TypeOK
<1>3. ASSUME NEW i \in DOMAIN deliveries
      PROVE  /\ Row(i) \in Deliveries
             /\ Row(i).arming = deliveries[i].arming
             /\ Row(i).viewer = deliveries[i].viewer
             /\ Row(i).org = deliveries[i].org
             /\ Row(i).state = "pending" => Pending(i)
             /\ i \in Claimable => Row(i).state = "pending"
             /\ Settled(i) => Row(i).state = deliveries[i].state
  BY <1>2 DEF Deliveries, States, Overdue, Claimable, Pending, Settled
<1>4. \A i \in DOMAIN deliveries' : i \in DOMAIN deliveries /\ deliveries'[i] = Row(i)
  BY <1>1
<1>5. deliveries' \in [DOMAIN deliveries' -> Deliveries] /\ DOMAIN deliveries' \subseteq DOMAIN deliveries
  <2> HIDE DEF Row
  <2> QED BY <1>1, <1>3
<1> HIDE DEF Row
<1>6. TypeOK'
  <2>1. Claimable \subseteq DeliveryIds
    BY <1>t DEF Claimable, TypeOK
  <2> QED BY <1>1, <1>5, <2>1, <1>t DEF TypeOK
<1>7. KeepsRows
  BY <1>3, <1>4, <1>5 DEF KeepsRows
<1>8. HeldPending'
  BY <1>1, <1>3, <1>4 DEF HeldPending, Pending
<1>9. \A i \in DOMAIN deliveries' : deliveries'[i].state = "pending" => Pending(i)
  BY <1>3, <1>4
<1>10. IndInv'
  BY <1>1, <1>6, <1>7, <1>8, <1>9, RowStepsKeep
<1> QED BY <1>3, <1>4, <1>10

\* The three outcomes that a held row is updated with.
LEMMA StoredKeeps ==
  ASSUME IndInv, NEW i \in inFlight, NEW state \in States, Returned(i),
         deliveries' = Stored(i, state), UNCHANGED <<subs, changes>>
  PROVE  /\ IndInv'
         /\ \A j \in DOMAIN deliveries' : Settled(j) => deliveries'[j].state = deliveries[j].state
<1>t. TypeOK
  BY DEF IndInv
<1>1. DOMAIN deliveries' = DOMAIN deliveries
  BY DEF Stored
<1>2. \A j \in DOMAIN deliveries : deliveries[j] \in Deliveries
  BY <1>t DEF TypeOK
<1>3. i \in DOMAIN deliveries => Pending(i)
  BY DEF IndInv, HeldPending
<1>4. ASSUME NEW j \in DOMAIN deliveries, j # i PROVE deliveries'[j] = deliveries[j]
  BY <1>4 DEF Stored
<1>5. i \in DOMAIN deliveries => deliveries'[i] = [deliveries[i] EXCEPT !.state = state, !.when = "waiting"]
  BY DEF Stored
<1>6. i \in DOMAIN deliveries =>
        /\ deliveries'[i] \in Deliveries
        /\ deliveries'[i].arming = deliveries[i].arming
        /\ deliveries'[i].viewer = deliveries[i].viewer
        /\ deliveries'[i].org = deliveries[i].org
  BY <1>2, <1>5 DEF Deliveries
<1>7. deliveries' \in [DOMAIN deliveries' -> Deliveries]
  <2>1. deliveries' = [j \in DOMAIN deliveries |-> deliveries'[j]]
    BY DEF Stored
  <2> QED BY <1>1, <1>2, <1>4, <1>6, <2>1
<1>8. TypeOK'
  BY <1>1, <1>7, <1>t DEF TypeOK, Returned
<1>9. KeepsRows
  BY <1>1, <1>4, <1>6, <1>7 DEF KeepsRows
<1>10. HeldPending'
  BY <1>1, <1>4 DEF IndInv, HeldPending, Pending, Returned
<1>11. \A j \in DOMAIN deliveries' : deliveries'[j].state = "pending" => Pending(j)
  BY <1>1, <1>3, <1>4 DEF Pending
<1>12. IndInv'
  BY <1>8, <1>9, <1>10, <1>11, RowStepsKeep DEF Returned
<1> QED BY <1>1, <1>3, <1>4, <1>12 DEF Settled, Pending

LEMMA AttemptKeeps ==
  ASSUME IndInv, NEW i \in inFlight, Attempt(i)
  PROVE  /\ IndInv'
         /\ \A j \in DOMAIN deliveries \cap DOMAIN deliveries' :
              Settled(j) => deliveries'[j].state = deliveries[j].state
<1>1. CASE MarkAccepted(i)
  BY <1>1, StoredKeeps DEF MarkAccepted, States
<1>2. CASE Gone(i)
  <2>1. \A j \in DOMAIN deliveries' : deliveries'[j] = deliveries[j]
    BY <1>2, WithoutKeeps DEF Gone
  <2> QED BY <1>2, <2>1, GoneKeeps
<1>3. CASE MarkRetry(i)
  BY <1>3, StoredKeeps DEF MarkRetry, States
<1>4. CASE MarkDead(i)
  BY <1>4, StoredKeeps DEF MarkDead, States
<1>5. CASE StoreFails(i)
  <2>1. TypeOK'
    BY <1>5 DEF IndInv, TypeOK, StoreFails, Returned
  <2>2. HeldPending'
    BY <1>5 DEF IndInv, HeldPending, StoreFails, Returned, Pending
  <2>3. KeepsRows
    BY <1>5, SameRows DEF StoreFails
  <2> QED BY <1>5, <2>1, <2>2, <2>3, RowStepsKeep DEF StoreFails, Returned, Pending
<1> QED BY <1>1, <1>2, <1>3, <1>4, <1>5 DEF Attempt

LEMMA CrashKeeps ==
  ASSUME IndInv, Crash
  PROVE  IndInv'
<1>1. TypeOK'
  BY DEF IndInv, TypeOK, Crash
<1>2. HeldPending'
  BY DEF HeldPending, Crash
<1>3. KeepsRows
  BY SameRows DEF Crash
<1> QED BY <1>1, <1>2, <1>3, RowStepsKeep DEF Crash, Pending

LEMMA DeliveryTimeKeeps ==
  ASSUME IndInv, NEW i \in DOMAIN deliveries, NEW moment \in {"due", "expired"},
         DeliveryTime(i, moment)
  PROVE  /\ IndInv'
         /\ \A j \in DOMAIN deliveries' : deliveries'[j].state = deliveries[j].state
<1>t. TypeOK
  BY DEF IndInv
<1>1. /\ deliveries' = [deliveries EXCEPT ![i].when = moment]
      /\ UNCHANGED <<artifactOrg, reminders, armings, optins, subs, issued, sweeps, inFlight, changes>>
  BY DEF DeliveryTime
<1>2. deliveries \in [DOMAIN deliveries -> Deliveries]
  BY <1>t DEF TypeOK
<1>3. DOMAIN deliveries' = DOMAIN deliveries
  BY <1>1
<1>4. \A j \in DOMAIN deliveries \ {i} : deliveries'[j] = deliveries[j]
  BY <1>1
<1>5. deliveries'[i] = [deliveries[i] EXCEPT !.when = moment] /\ deliveries[i] \in Deliveries
  BY <1>1, <1>2
<1>6. /\ deliveries'[i] \in Deliveries
      /\ deliveries'[i].state = deliveries[i].state
      /\ deliveries'[i].arming = deliveries[i].arming
      /\ deliveries'[i].viewer = deliveries[i].viewer
      /\ deliveries'[i].org = deliveries[i].org
  BY <1>5 DEF Deliveries
<1>7. deliveries' \in [DOMAIN deliveries' -> Deliveries]
  BY <1>1, <1>2, <1>3, <1>6
<1>8. TypeOK'
  BY <1>1, <1>3, <1>7, <1>t DEF TypeOK
<1>9. KeepsRows
  BY <1>3, <1>4, <1>6, <1>7 DEF KeepsRows
<1>10. \A j \in DOMAIN deliveries' : deliveries'[j].state = deliveries[j].state
  BY <1>3, <1>4, <1>6
<1>11. HeldPending'
  BY <1>1, <1>3, <1>10 DEF IndInv, HeldPending, Pending
<1>12. IndInv'
  BY <1>1, <1>8, <1>9, <1>10, <1>11, RowStepsKeep DEF Pending
<1> QED BY <1>10, <1>12

----------------------------------------------------------------------------
(* Devices per viewer: save_subscription deletes the oldest beyond the     *)
(* limit, and no other step gives a viewer a device.                       *)

\* Ids are unique, so there are no more devices than ids.
LEMMA DevicesFinite ==
  ASSUME IndInv
  PROVE  IsFiniteSet(Saved)
<1> DEFINE f == [e \in Saved |-> subs[e].id]
<1>1. f \in [Saved -> 1..MaxSubscriptions]
  BY SubscriptionTyped
<1>2. \A x, y \in Saved : f[x] = f[y] => x = y
  BY DEF IndInv, References
<1>3. f \in Injection(Saved, 1..MaxSubscriptions)
  BY <1>1, <1>2 DEF Injection, IsInjective
<1>4. IsFiniteSet(1..MaxSubscriptions)
  BY FS_Interval, LimitAssumption, SMTT(20)
<1> QED BY <1>3, <1>4, FS_Injection

\* What a step does to one viewer's devices: none is added.
LEMMA FewerDevices ==
  ASSUME IndInv, DevicesWithinLimit, NEW v \in Viewers, NEW D \in SUBSET Devices(v)
  PROVE  Cardinality(D) <= SubscriptionsPerViewer
<1>1. IsFiniteSet(Devices(v))
  BY DevicesFinite, FS_Subset DEF Devices
<1>2. Cardinality(Devices(v)) \in Nat /\ Cardinality(D) \in Nat /\ Cardinality(D) <= Cardinality(Devices(v))
  BY <1>1, FS_Subset, FS_CardinalityType
<1> QED BY <1>2, LimitAssumption, SMTT(20) DEF DevicesWithinLimit

\* The age rank of a device among the viewer's others is a place of its own.
LEMMA RankInjective ==
  ASSUME IndInv, NEW S \in SUBSET Saved, NEW f \in S, NEW h \in S, f # h
  PROVE  Cardinality({g \in S : subs[g].id < subs[f].id}) #
         Cardinality({g \in S : subs[g].id < subs[h].id})
<1> DEFINE Below(x) == {g \in S : subs[g].id < subs[x].id}
<1>0. \A x \in S : subs[x].id \in Nat
  BY SubscriptionTyped, SMTT(20)
<1>1. IsFiniteSet(S)
  BY DevicesFinite, FS_Subset
<1>2. \A x \in S : IsFiniteSet(Below(x)) /\ Cardinality(Below(x)) \in Nat
  BY <1>1, FS_Subset, FS_CardinalityType
<1>3. ASSUME NEW x \in S, NEW y \in S, subs[x].id < subs[y].id
      PROVE  Cardinality(Below(x)) # Cardinality(Below(y))
  <2>1. Below(x) \subseteq Below(y)
    BY <1>0, <1>3, SMTT(20)
  <2>2. x \in Below(y) /\ x \notin Below(x)
    BY <1>0, <1>3, SMTT(20)
  <2>3. Below(x) # Below(y)
    BY <2>2
  <2> HIDE DEF Below
  <2> QED BY <1>2, <2>1, <2>3, FS_Subset
<1>4. subs[f].id # subs[h].id
  BY DEF IndInv, References
<1>5. subs[f].id < subs[h].id \/ subs[h].id < subs[f].id
  BY <1>0, <1>4, SMTT(20)
<1> HIDE DEF Below
<1>6. Cardinality(Below(f)) # Cardinality(Below(h))
  BY <1>3, <1>5
<1> QED BY <1>6 DEF Below

\* After the deletion there is room for the device that is being saved.
LEMMA RoomForOne ==
  ASSUME IndInv, NEW e \in Endpoints, NEW v \in Viewers
  PROVE  /\ IsFiniteSet(Others(e, v) \ Excess(e, v))
         /\ Cardinality(Others(e, v) \ Excess(e, v)) <= SubscriptionsPerViewer - 1
<1> DEFINE S == Others(e, v)
           Below(x) == {g \in S : subs[g].id < subs[x].id}
           n == Cardinality(S)
           x == n - (SubscriptionsPerViewer - 1)
           K == S \ Excess(e, v)
           rank == [f \in K |-> Cardinality(Below(f))]
<1>0. S \in SUBSET Saved
  BY DEF Others
<1>1. IsFiniteSet(S) /\ n \in Nat
  BY <1>0, DevicesFinite, FS_Subset, FS_CardinalityType
<1>2. ASSUME NEW f \in S
      PROVE  Cardinality(Below(f)) \in 0..(n - 1)
  <2>1. f \notin Below(f)
    BY <1>0, SubscriptionTyped, SMTT(20)
  <2>2. Below(f) \in SUBSET (S \ {f})
    BY <2>1
  <2> HIDE DEF Below
  <2>3. IsFiniteSet(S \ {f}) /\ Cardinality(S \ {f}) = n - 1
    BY <1>1, <1>2, FS_RemoveElement
  <2> QED BY <1>1, <2>2, <2>3, FS_Subset, FS_CardinalityType, SMTT(20)
<1>3. \A f \in K : f \in S /\ ~(Cardinality(Below(f)) < x)
  BY DEF Excess
<1>4. \A f, h \in S : f # h => Cardinality(Below(f)) # Cardinality(Below(h))
  BY <1>0, RankInjective
<1> HIDE DEF S, Below, K
<1>5. x \in Int
  BY <1>1, LimitAssumption, SMTT(20)
<1>6. \A f \in K : Cardinality(Below(f)) \in x..(n - 1)
  BY <1>1, <1>2, <1>3, <1>5, SMTT(20)
<1>7. rank \in [K -> x..(n - 1)]
  BY <1>6
<1>8. \A f, h \in K : rank[f] = rank[h] => f = h
  BY <1>3, <1>4
<1>9. rank \in Injection(K, x..(n - 1))
  BY <1>7, <1>8 DEF Injection, IsInjective
<1> HIDE DEF rank, n
<1>10. IsFiniteSet(x..(n - 1)) /\ Cardinality(x..(n - 1)) = SubscriptionsPerViewer - 1
  <2>1. PICK a \in Int : a = x
    BY <1>5
  <2>2. PICK b \in Int : b = n - 1
    BY <1>1, SMTT(20)
  <2>3. IsFiniteSet(a..b) /\ Cardinality(a..b) = IF a > b THEN 0 ELSE b - a + 1
    BY FS_Interval
  <2>4. SubscriptionsPerViewer \in Nat \ {0}
    BY LimitAssumption
  <2>5. (IF a > b THEN 0 ELSE b - a + 1) = SubscriptionsPerViewer - 1
    BY <1>1, <2>1, <2>2, <2>4, SMTT(20)
  <2> QED BY <2>1, <2>2, <2>3, <2>5
<1>11. IsFiniteSet(K) /\ Cardinality(K) <= SubscriptionsPerViewer - 1
  BY <1>9, <1>10, FS_Injection, SMTT(20)
<1> QED BY <1>11 DEF K, S

LEMMA SaveKeepsDevices ==
  ASSUME IndInv, DevicesWithinLimit, NEW e \in Endpoints, NEW v \in Viewers, NEW o \in Orgs,
         SaveSubscription(e, v, o)
  PROVE  DevicesWithinLimit'
<1> DEFINE id == IF e \notin Saved THEN issued + 1 ELSE subs[e].id
<1>1. subs' = [f \in Endpoints |-> IF f = e THEN [id |-> id, viewer |-> v, org |-> o]
                                   ELSE IF f \in Excess(e, v) THEN NoSub ELSE subs[f]]
  BY DEF SaveSubscription
<1> HIDE DEF id
<1>2. subs'[e].viewer = v
  BY <1>1
<1>3. \A f \in Saved' \ {e} : f \in Saved /\ f \notin Excess(e, v) /\ subs'[f] = subs[f]
  BY <1>1 DEF Saved
<1>4. \A w \in Viewers : w # v => Devices(w)' \in SUBSET Devices(w)
  BY <1>2, <1>3 DEF Devices
<1>5. Devices(v)' \in SUBSET ((Others(e, v) \ Excess(e, v)) \cup {e})
  BY <1>3 DEF Devices, Others
<1>6. Cardinality(Devices(v)') <= SubscriptionsPerViewer
  <2> DEFINE K == Others(e, v) \ Excess(e, v)
  <2>1. IsFiniteSet(K) /\ Cardinality(K) <= SubscriptionsPerViewer - 1
    BY RoomForOne
  <2>2. e \notin K
    BY DEF Others
  <2> HIDE DEF K
  <2>3. Cardinality(K) \in Nat /\ IsFiniteSet(K \cup {e}) /\ Cardinality(K \cup {e}) = Cardinality(K) + 1
    BY <2>1, <2>2, FS_AddElement, FS_CardinalityType
  <2>4. PICK D : D = Devices(v)'
    OBVIOUS
  <2>5. D \in SUBSET (K \cup {e})
    BY <1>5, <2>4 DEF K
  <2>6. Cardinality(D) \in Nat /\ Cardinality(D) <= Cardinality(K \cup {e})
    BY <2>3, <2>5, FS_Subset, FS_CardinalityType
  <2> QED BY <2>1, <2>3, <2>4, <2>6, LimitAssumption, SMTT(20)
<1>7. \A w \in Viewers : w # v => Cardinality(Devices(w)') <= SubscriptionsPerViewer
  BY <1>4, FewerDevices
<1> QED BY <1>6, <1>7 DEF DevicesWithinLimit

\* Any other step: a device that is saved afterwards was saved before, with the
\* same viewer.
LEMMA OthersKeepDevices ==
  ASSUME IndInv, DevicesWithinLimit,
         \A f \in Saved' : f \in Saved /\ subs'[f].viewer = subs[f].viewer
  PROVE  DevicesWithinLimit'
<1>1. \A w \in Viewers : Devices(w)' \in SUBSET Devices(w)
  BY DEF Devices
<1> QED BY <1>1, FewerDevices DEF DevicesWithinLimit

LEMMA NextKeepsDevices ==
  ASSUME IndInv, DevicesWithinLimit, [Next]_vars
  PROVE  DevicesWithinLimit'
<1>1. CASE UNCHANGED subs
  BY <1>1, OthersKeepDevices DEF Saved
<1>2. CASE \E e \in Endpoints, v \in Viewers, o \in Orgs : SaveSubscription(e, v, o)
  BY <1>2, SaveKeepsDevices
<1>3. ASSUME NEW v \in Viewers, NEW o \in Orgs, RefreshSubscriptionOrg(v, o)
      PROVE  DevicesWithinLimit'
  <2> DEFINE stale == {e \in Saved : subs[e].viewer = v /\ subs[e].org # o}
  <2>1. subs' = [e \in Endpoints |-> IF e \in stale
                    THEN [id |-> subs[e].id, viewer |-> subs[e].viewer, org |-> o]
                    ELSE subs[e]]
    BY <1>3 DEF RefreshSubscriptionOrg
  <2>2. stale \subseteq Saved
    OBVIOUS
  <2> HIDE DEF stale
  <2>3. \A f \in Saved' : f \in Saved /\ subs'[f].viewer = subs[f].viewer
    BY <2>1, <2>2 DEF Saved
  <2> QED BY <2>3, OthersKeepDevices
<1>4. ASSUME NEW e \in Endpoints, RemoveSubscription(e)
      PROVE  DevicesWithinLimit'
  <2>1. \A f \in Saved' : f \in Saved /\ subs'[f].viewer = subs[f].viewer
    BY <1>4 DEF RemoveSubscription, Saved, IndInv, TypeOK
  <2> QED BY <2>1, OthersKeepDevices
<1>5. ASSUME NEW i \in inFlight, Gone(i)
      PROVE  DevicesWithinLimit'
  <2>1. \A f \in Saved' : f \in Saved /\ subs'[f].viewer = subs[f].viewer
    BY <1>5 DEF Gone, Saved
  <2> QED BY <2>1, OthersKeepDevices
<1>6. CASE \E k \in Keys : SetReminder(k) \/ ClearReminder(k)
  BY <1>1, <1>6 DEF SetReminder, ClearReminder
<1>7. CASE (\E v \in Viewers : OptIn(v) \/ OptOut(v)) \/ (\E o \in Orgs : MoveArtifact(o)) \/ DeleteArtifact
  BY <1>1, <1>7 DEF OptIn, OptOut, MoveArtifact, DeleteArtifact
<1>8. CASE Sweep \/ SenderStep \/ Crash
  BY <1>1, <1>8 DEF Sweep, SenderStep, SendDue, Crash
<1>9. CASE AttemptStep
  BY <1>1, <1>5, <1>9 DEF AttemptStep, Attempt, MarkAccepted, MarkRetry, MarkDead, StoreFails
<1>10. CASE \/ \E k \in Keys : ReminderTime(k)
            \/ \E i \in DOMAIN deliveries, moment \in {"due", "expired"} : DeliveryTime(i, moment)
  BY <1>1, <1>10 DEF ReminderTime, DeliveryTime
<1>11. CASE UNCHANGED vars
  BY <1>1, <1>11 DEF vars
<1> QED BY <1>2, <1>3, <1>4, <1>6, <1>7, <1>8, <1>9, <1>10, <1>11 DEF Next, Clock

----------------------------------------------------------------------------
(* The theorems.                                                           *)

LEMMA InitHolds == Init => IndInv
<1> SUFFICES ASSUME Init PROVE IndInv
  OBVIOUS
<1> USE DEF Init
<1>1. Saved = {e \in Endpoints : Registered[e] # NoSub}
  BY DEF Saved
<1>2. DOMAIN deliveries = {} /\ Armed = {}
  BY DEF Armed, NoReminder
<1>3. TypeOK
  <2>1. reminders \in [Keys -> Reminders]
    BY LimitAssumption, SMTT(20) DEF Reminders, NoReminder, Moments
  <2>2. deliveries \in [DOMAIN deliveries -> Deliveries]
    BY <1>2
  <2> QED BY <1>1, <1>2, <2>1, <2>2, RegisteredAssumption, LimitAssumption, NameAssumption, SMTT(20)
          DEF TypeOK
<1>4. References
  BY <1>1, <1>2, RegisteredAssumption DEF References
<1>5. ArmedWithinLimit
  BY <1>2, FS_EmptySet, LimitAssumption, SMTT(20) DEF ArmedWithinLimit
<1> QED BY <1>2, <1>3, <1>4, <1>5 DEF IndInv, ArmingsUnused, SweptBefore, HeldPending,
                                      PendingAddressee, OncePerArming

LEMMA StutterKeeps ==
  ASSUME IndInv, UNCHANGED vars
  PROVE  IndInv'
<1>1. TypeOK'
  BY DEF IndInv, TypeOK, vars
<1>2. HeldPending'
  BY DEF IndInv, HeldPending, Pending, vars
<1>3. KeepsRows
  BY SameRows DEF vars
<1> QED BY <1>1, <1>2, <1>3, RowStepsKeep DEF vars, Pending

\* Rows of the queue that a step outside the sender leaves keep their state.
LEMMA OthersKeepStates ==
  ASSUME IndInv,
         \/ UNCHANGED deliveries
         \/ Sweep
         \/ \E gone \in SUBSET DOMAIN deliveries : deliveries' = Without(gone)
  PROVE  \A i \in DOMAIN deliveries \cap DOMAIN deliveries' : deliveries'[i] = deliveries[i]
<1>1. CASE UNCHANGED deliveries
  BY <1>1
<1>2. CASE Sweep
  <2>1. ASSUME NEW i \in DOMAIN deliveries PROVE i \notin Queued
    <3>1. i[1] <= sweeps /\ i[1] \in Nat /\ sweeps \in Nat
      BY DEF IndInv, SweptBefore, TypeOK, DeliveryIds
    <3> QED BY <3>1, SMTT(20) DEF Queued
  <2> QED BY <1>2, <2>1 DEF Sweep
<1>3. CASE \E gone \in SUBSET DOMAIN deliveries : deliveries' = Without(gone)
  BY <1>3, WithoutKeeps
<1> QED BY <1>1, <1>2, <1>3

\* One step of the system preserves the invariant and leaves settled rows alone.
LEMMA NextKeeps ==
  ASSUME IndInv, [Next]_vars
  PROVE  /\ IndInv'
         /\ \A i \in DOMAIN deliveries \cap DOMAIN deliveries' :
              Settled(i) => deliveries'[i].state = deliveries[i].state
<1>1. CASE \E k \in Keys : SetReminder(k) \/ ClearReminder(k)
  <2>1. UNCHANGED deliveries
    BY <1>1 DEF SetReminder, ClearReminder
  <2> QED BY <1>1, <2>1, SetReminderKeeps, ClearReminderKeeps
<1>2. CASE (\E v \in Viewers : OptIn(v) \/ OptOut(v)) \/ (\E o \in Orgs : MoveArtifact(o)) \/ DeleteArtifact
  <2>1. UNCHANGED deliveries
    BY <1>2 DEF OptIn, OptOut, MoveArtifact, DeleteArtifact
  <2> QED BY <1>2, <2>1, ArtifactStepsKeep
<1>3. CASE \E v \in Viewers, o \in Orgs :
             RefreshSubscriptionOrg(v, o) \/ \E e \in Endpoints : SaveSubscription(e, v, o)
  <2>1. \E gone \in SUBSET DOMAIN deliveries : deliveries' = Without(gone)
    BY <1>3 DEF RefreshSubscriptionOrg, SaveSubscription, PendingFor, QueuedFor, Readdressed
  <2> QED BY <1>3, <2>1, OthersKeepStates, RefreshSubscriptionOrgKeeps, SaveSubscriptionKeeps
<1>4. CASE \E e \in Endpoints : RemoveSubscription(e)
  <2>1. \E gone \in SUBSET DOMAIN deliveries : deliveries' = Without(gone)
    BY <1>4 DEF RemoveSubscription, QueuedFor
  <2> QED BY <1>4, <2>1, OthersKeepStates, RemoveSubscriptionKeeps
<1>5. CASE Sweep
  BY <1>5, SweepKeeps, OthersKeepStates
<1>6. CASE SenderStep
  BY <1>6, SendDueKeeps DEF SenderStep
<1>7. CASE AttemptStep
  BY <1>7, AttemptKeeps DEF AttemptStep
<1>8. CASE Crash
  BY <1>8, CrashKeeps DEF Crash
<1>9. CASE \E k \in Keys : ReminderTime(k)
  BY <1>9, ReminderTimeKeeps DEF ReminderTime
<1>10. CASE \E i \in DOMAIN deliveries, moment \in {"due", "expired"} : DeliveryTime(i, moment)
  BY <1>10, DeliveryTimeKeeps
<1>11. CASE UNCHANGED vars
  BY <1>11, StutterKeeps DEF vars
<1> QED BY <1>1, <1>2, <1>3, <1>4, <1>5, <1>6, <1>7, <1>8, <1>9, <1>10, <1>11
        DEF Next, Clock

\* The strengthened invariant holds in every reachable state.
THEOREM QueueInductive == Spec => []IndInv
<1>1. Init => IndInv
  BY InitHolds
<1>2. IndInv /\ [Next]_vars => IndInv'
  BY NextKeeps
<1> QED BY <1>1, <1>2, PTL DEF Spec

\* Every row of the push tables and the sender's batch keeps its shape.
THEOREM QueueTyped == Spec => []TypeOK
<1>1. IndInv => TypeOK
  BY DEF IndInv
<1> QED BY <1>1, QueueInductive, PTL

\* For any number of devices, viewers and organizations: a queued delivery is
\* addressed to the owner of its subscription at the time it was queued.
THEOREM AlwaysPendingAddressee == Spec => []PendingAddressee
<1>1. IndInv => PendingAddressee
  BY DEF IndInv
<1> QED BY <1>1, QueueInductive, PTL

\* For any number of sweeps, crashes and re-armings: one set_reminder call is
\* queued at most once for a subscription.
THEOREM AlwaysOncePerArming == Spec => []OncePerArming
<1>1. IndInv => OncePerArming
  BY DEF IndInv
<1> QED BY <1>1, QueueInductive, PTL

\* For any limits and any number of reminders, viewers and devices: set_reminder
\* never lets an artifact have more armed reminders than its limit, and
\* save_subscription, which deletes the viewer's oldest devices before it stores
\* the new one, never leaves a viewer with more devices than theirs.
THEOREM AlwaysLimitsHold == Spec => []LimitsHold
<1>1. ASSUME Init PROVE DevicesWithinLimit
  <2>1. subs = Registered
    BY <1>1 DEF Init
  <2>2. ASSUME NEW v \in Viewers
        PROVE  Devices(v) = {e \in {d \in Endpoints : Registered[d] # NoSub} : Registered[e].viewer = v}
    BY <2>1 DEF Devices, Saved
  <2>3. ASSUME NEW v \in Viewers
        PROVE  Cardinality({e \in {d \in Endpoints : Registered[d] # NoSub} : Registered[e].viewer = v})
                 <= SubscriptionsPerViewer
    BY RegisteredAssumption
  <2> QED BY <2>2, <2>3 DEF DevicesWithinLimit
<1>2. IndInv /\ DevicesWithinLimit /\ [Next]_vars => DevicesWithinLimit'
  BY NextKeepsDevices
<1>3. IndInv /\ DevicesWithinLimit => LimitsHold
  BY DEF IndInv, LimitsHold
<1> QED BY <1>1, <1>2, <1>3, QueueInductive, PTL DEF Spec

\* With one sender whose turn waits for its attempts, the unguarded updates of
\* mark_accepted, mark_retry and mark_dead never touch a settled row.
THEOREM AlwaysSettledStays == Spec => SettledStays
<1>1. IndInv /\ [Next]_vars =>
        [\A i \in DOMAIN deliveries \cap DOMAIN deliveries' :
           Settled(i) => deliveries'[i].state = deliveries[i].state]_vars
  BY NextKeeps
<1> QED BY <1>1, QueueInductive, PTL DEF Spec, SettledStays
=============================================================================
