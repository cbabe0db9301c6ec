---------------------------- MODULE ArtifactStore ----------------------------
(***************************************************************************)
(* What the artifact lifecycle promises: an artifact is one atomic value,  *)
(* a revision number and its body.  A mutation is proposed (which conceals *)
(* the artifact) and then takes effect completely or not at all.  The      *)
(* audit ledger records exactly one outcome for a mutation that reached    *)
(* it, and a notification is released only by one that took effect.        *)
(***************************************************************************)
EXTENDS Integers, Sequences

CONSTANTS Ids, Bodies, NoBody, MaxRevision

VARIABLES
  current,   \* the artifact: [rev, body]
  pending,   \* the proposed mutation: [op, to]
  outcomes,  \* the audit ledger, per artifact
  notified   \* notifications released for delivery

storeVars == <<current, pending, outcomes, notified>>

Absent     == [rev |-> 0, body |-> NoBody]
NoMutation == [op |-> "none", to |-> Absent]

StoreInit ==
  /\ current = [id \in Ids |-> Absent]
  /\ pending = [id \in Ids |-> NoMutation]
  /\ outcomes = [id \in Ids |-> <<>>]
  /\ notified = [id \in Ids |-> {}]

Publish(id) ==
  /\ current[id] = Absent
  /\ \E b \in Bodies :
       pending' = [pending EXCEPT ![id] = [op |-> "publish",
                                           to |-> [rev |-> 1, body |-> b]]]

Update(id) ==
  /\ current[id] # Absent /\ current[id].rev < MaxRevision
  /\ \E b \in Bodies :
       pending' = [pending EXCEPT ![id] =
                     [op |-> "update", to |-> [rev |-> current[id].rev + 1, body |-> b]]]

Delete(id) ==
  /\ current[id] # Absent
  /\ pending' = [pending EXCEPT ![id] = [op |-> "delete", to |-> Absent]]

Propose(id) ==
  /\ pending[id] = NoMutation
  /\ Publish(id) \/ Update(id) \/ Delete(id)
  /\ UNCHANGED <<current, outcomes, notified>>

\* The revision a mutation is about: the one it makes, or the one it deletes.
Subject(id) ==
  IF pending[id].op = "delete" THEN current[id].rev ELSE pending[id].to.rev

Record(id, result) ==
  outcomes' = [outcomes EXCEPT ![id] =
                 Append(@, [op |-> pending[id].op, rev |-> Subject(id),
                            result |-> result])]

TakeEffect(id) ==
  /\ pending[id] # NoMutation
  /\ current' = [current EXCEPT ![id] = pending[id].to]
  /\ pending' = [pending EXCEPT ![id] = NoMutation]
  /\ Record(id, "success") \/ Record(id, "recovered")
  /\ notified' = [notified EXCEPT ![id] =
                    @ \cup {[op |-> pending[id].op, rev |-> Subject(id)]}]

Abandon(id) ==
  /\ pending[id] # NoMutation
  /\ pending' = [pending EXCEPT ![id] = NoMutation]
  /\ UNCHANGED outcomes \/ Record(id, "failure")
  /\ UNCHANGED <<current, notified>>

StoreNext == \E id \in Ids : Propose(id) \/ TakeEffect(id) \/ Abandon(id)

StoreSpec == StoreInit /\ [][StoreNext]_storeVars
=============================================================================
