------------------------ MODULE DeliveryOutboxProofs ------------------------
(***************************************************************************)
(* Proofs about the delivery outbox for every set of events, ordering keys *)
(* and workers and every bound.                                            *)
(***************************************************************************)
EXTENDS DeliveryOutbox, FiniteSetTheorems, TLAPS

\* created_at numbers the rows of an ordering key without gaps or ties.
Numbered(b) ==
  \A r \in Rows : b[r].state # "absent" =>
    /\ b[r].at \in 1..Cardinality(RowsOf(b, KeyOf(r)))
    /\ \A q \in RowsOf(b, KeyOf(r)) : b[q].at = b[r].at => q = r

\* The state of a row tells whether it was ever claimed.
Attempts(b) ==
  \A r \in Rows :
    /\ b[r].gated => b[r].state = "blocked"
    /\ b[r].state \in {"absent", "blocked", "deleted"} => b[r].attempts = 0
    /\ b[r].state = "leased" => b[r].attempts > 0
    /\ b[r].version = b[r].attempts

\* A claimed row is past its predecessors.
Past(b, r) ==
  /\ \A q \in Earlier(b, r) : b[q].state \notin Active
  /\ b[r].dep # NoRow => b[b[r].dep].state = "accepted"
ClaimedInTurn(b) == \A r \in Rows : b[r].attempts > 0 => Past(b, r)

\* Dependencies: none for a webhook's row, a webhook's row or none for the first
\* row of a discussion, the first row for the others.
Chained(b) ==
  \A r \in Rows : b[r].state # "absent" /\ b[r].dep # NoRow =>
    /\ KeyOf(r) \in Discussions
    /\ b[b[r].dep].state # "absent"
    /\ KeyOf(b[r].dep) \in Discussions => b[r].at # 1 /\ b[b[r].dep].at = 1

Unstarved(b) == \A r \in Rows : b[r].state \in Waiting => b[r].attempts < MaxAttempts

RowInv(b) ==
  /\ b \in [Rows -> OutboxRows]
  /\ Numbered(b) /\ Attempts(b) /\ ClaimedInTurn(b) /\ Chained(b) /\ Unstarved(b)

\* A worker in a turn holds a claim that was made, with its version; it has a
\* verdict before it settles.
Turns ==
  \A w \in Workers : worker[w].phase # "idle" =>
    /\ worker[w].row \in Rows
    /\ worker[w].version = worker[w].attempts
    /\ worker[w].attempts > 0
    /\ box[worker[w].row].attempts > 0
    /\ worker[w].phase \in {"limiting", "settle"} => worker[w].verdict # "none"
    /\ worker[w].verdict = "accepted" => posts[worker[w].row] > 0

IndInv ==
  /\ TypeOK /\ RowInv(box) /\ Turns
  /\ AcceptedMeansPosted /\ PostsBounded

----------------------------------------------------------------------------
(* Rows: what each kind of update changes.                                 *)

\* What no settlement and no clock step changes about a row.
SameRow(x, y) ==
  /\ y.at = x.at /\ y.gated = x.gated /\ y.dep = x.dep
  /\ y.attempts = x.attempts /\ y.version = x.version

\* Leaves are left to Zenon unless they name another backend.
USE ZenonT(30)

LEMMA RowInserted ==
  ASSUME NEW s \in States, NEW at \in Nat, NEW gated \in BOOLEAN, NEW dep \in Rows \cup {NoRow}
  PROVE  [state |-> s, at |-> at, gated |-> gated, dep |-> dep, attempts |-> 0, version |-> 0,
          owner |-> NoWorker, due |-> TRUE, late |-> FALSE, risk |-> FALSE,
          bucketed |-> FALSE] \in OutboxRows
<1>1. 0 \in Nat /\ 0 \in 0..MaxAttempts /\ NoWorker \in Workers \cup {NoWorker}
  BY OutboxAssumption, SMTT(20)
<1> QED BY <1>1 DEF OutboxRows

LEMMA WorkerIdle ==
  /\ Idle \in WorkerStates /\ Idle.phase = "idle" /\ Idle.verdict = "none"
  /\ Idle.version = 0 /\ Idle.attempts = 0
BY OutboxAssumption, SMTT(20) DEF WorkerStates, Idle

----------------------------------------------------------------------------
(* The outbox as a whole, before and after a transaction.                  *)

\* A row stays as it is or is settled; its identity stays.
Outcome(x, y) ==
  /\ SameRow(x, y)
  /\ \/ y.state = x.state
     \/ x.state \in {"ready", "retry", "leased"} /\ y.state \in {"retry", "accepted", "dead_letter"}

LEMMA RowTyped ==
  ASSUME NEW b, b \in [Rows -> OutboxRows], NEW r \in Rows
  PROVE  /\ b[r].state \in States /\ b[r].at \in Nat /\ b[r].attempts \in Nat
         /\ b[r].attempts <= MaxAttempts /\ b[r].version \in Nat
         /\ b[r].dep \in Rows \cup {NoRow} /\ b[r].gated \in BOOLEAN
<1>1. b[r] \in OutboxRows
  OBVIOUS
<1> QED BY <1>1, OutboxAssumption, SMTT(20) DEF OutboxRows

LEMMA SettledRows ==
  ASSUME NEW b, NEW c, RowInv(b), c \in [Rows -> OutboxRows], Unstarved(c),
         \A r \in Rows : Outcome(b[r], c[r])
  PROVE  RowInv(c)
<1>1. ASSUME NEW r \in Rows
      PROVE  /\ c[r].at = b[r].at /\ c[r].dep = b[r].dep /\ c[r].attempts = b[r].attempts
             /\ c[r].gated = b[r].gated /\ c[r].version = b[r].version
             /\ c[r].state = "absent" <=> b[r].state = "absent"
             /\ b[r].state \notin Active => c[r].state = b[r].state
             /\ c[r].state \in {"blocked", "deleted", "leased"} => b[r].state = c[r].state
             /\ b[r].state = "blocked" => c[r].state = "blocked"
  BY DEF Outcome, SameRow, Active
<1>2. \A k : RowsOf(c, k) = RowsOf(b, k)
  BY <1>1 DEF RowsOf
<1>3. \A r \in Rows : Earlier(c, r) = Earlier(b, r)
  BY <1>1, <1>2 DEF Earlier, RowsOf
<1>4. Numbered(c)
  <2> SUFFICES ASSUME NEW r \in Rows, c[r].state # "absent"
               PROVE  /\ c[r].at \in 1..Cardinality(RowsOf(c, KeyOf(r)))
                      /\ \A q \in RowsOf(c, KeyOf(r)) : c[q].at = c[r].at => q = r
    BY DEF Numbered
  <2>1. \A q \in RowsOf(c, KeyOf(r)) : q \in Rows
    BY DEF RowsOf
  <2> QED BY <1>1, <1>2, <2>1 DEF RowInv, Numbered
<1>5. Attempts(c)
  BY <1>1, SMTT(20) DEF RowInv, Attempts
<1>6. ClaimedInTurn(c)
  <2> SUFFICES ASSUME NEW r \in Rows, c[r].attempts > 0
               PROVE  Past(c, r)
    BY DEF ClaimedInTurn
  <2>1. Past(b, r)
    BY <1>1 DEF RowInv, ClaimedInTurn
  <2>2. \A q \in Earlier(c, r) : c[q].state \notin Active
    BY <1>1, <1>3, <2>1 DEF Past, Earlier, RowsOf
  <2>3. c[r].dep # NoRow => c[c[r].dep].state = "accepted"
    BY <1>1, <2>1, RowTyped, SMTT(20) DEF Past, RowInv, Active
  <2> QED BY <2>2, <2>3 DEF Past
<1>7. Chained(c)
  <2>1. \A r \in Rows : b[r].dep \in Rows \cup {NoRow}
    BY RowTyped DEF RowInv
  <2> QED BY <1>1, <2>1, SMTT(20) DEF RowInv, Chained
<1> QED BY <1>4, <1>5, <1>6, <1>7 DEF RowInv

\* The row a claim leases is past its predecessors.
LEMMA LeasedRows ==
  ASSUME NEW b, NEW c, RowInv(b), NEW l \in Eligible(b), c \in [Rows -> OutboxRows],
         \A r \in Rows \ {l} : c[r] = b[r],
         c[l].at = b[l].at, c[l].gated = b[l].gated, c[l].dep = b[l].dep,
         c[l].attempts = b[l].attempts + 1, c[l].version = b[l].version + 1,
         c[l].state = "leased"
  PROVE  RowInv(c)
<1>1. /\ l \in Rows /\ b[l].state \in Waiting /\ ~b[l].gated
      /\ b[l].dep # NoRow => b[b[l].dep].state = "accepted"
      /\ \A q \in Earlier(b, l) : b[q].state \notin Active
  BY DEF Eligible
<1>2. b \in [Rows -> OutboxRows]
  BY DEF RowInv
<1>3. /\ \A k : RowsOf(c, k) = RowsOf(b, k)
      /\ \A r \in Rows : c[r].at = b[r].at /\ c[r].dep = b[r].dep
  BY <1>1 DEF RowsOf, Waiting
<1>4. \A r \in Rows : Earlier(c, r) = Earlier(b, r)
  BY <1>3 DEF Earlier, RowsOf
<1>5. Numbered(c)
  <2> SUFFICES ASSUME NEW r \in Rows, c[r].state # "absent"
               PROVE  /\ c[r].at \in 1..Cardinality(RowsOf(c, KeyOf(r)))
                      /\ \A q \in RowsOf(c, KeyOf(r)) : c[q].at = c[r].at => q = r
    BY DEF Numbered
  <2>1. b[r].state # "absent"
    BY <1>1 DEF Waiting
  <2>2. \A q \in RowsOf(c, KeyOf(r)) : q \in Rows
    BY DEF RowsOf
  <2> QED BY <1>3, <2>1, <2>2 DEF RowInv, Numbered
<1>6. Attempts(c)
  <2>1. c[l].attempts > 0 /\ c[l].version = c[l].attempts
    BY <1>1, <1>2, RowTyped, SMTT(20) DEF RowInv, Attempts
  <2> QED BY <1>1, <2>1, SMTT(20) DEF RowInv, Attempts
<1>7. ClaimedInTurn(c)
  <2> SUFFICES ASSUME NEW r \in Rows, c[r].attempts > 0
               PROVE  Past(c, r)
    BY DEF ClaimedInTurn
  <2>1. Past(b, r)
    BY <1>1 DEF RowInv, ClaimedInTurn, Past
  <2>2. \A q \in Earlier(c, r) : c[q].state \notin Active
    <3>1. l \notin Earlier(b, r)
      BY <1>1, <2>1 DEF Past, Waiting, Active
    <3> QED BY <1>4, <2>1, <3>1 DEF Past, Earlier, RowsOf
  <2>3. c[r].dep # NoRow => c[c[r].dep].state = "accepted"
    <3>1. b[r].dep # l
      BY <1>1, <2>1, OutboxAssumption DEF Past, Waiting
    <3> QED BY <1>2, <1>3, <2>1, <3>1, RowTyped, SMTT(20) DEF Past
  <2> QED BY <2>2, <2>3 DEF Past
<1>8. Chained(c)
  <2>1. \A r \in Rows : b[r].dep \in Rows \cup {NoRow}
    BY <1>2, RowTyped
  <2>2. \A r \in Rows : c[r].state = "absent" <=> b[r].state = "absent"
    BY <1>1 DEF Waiting
  <2> QED BY <1>3, <2>1, <2>2, SMTT(20) DEF RowInv, Chained
<1>9. Unstarved(c)
  BY DEF RowInv, Unstarved, Waiting
<1> QED BY <1>5, <1>6, <1>7, <1>8, <1>9 DEF RowInv

\* The durability gate opens, or its rows are dropped.
LEMMA ReleasedRows ==
  ASSUME NEW b, NEW c, RowInv(b), NEW free \in SUBSET Rows, NEW s \in {"ready", "deleted"},
         c \in [Rows -> OutboxRows],
         \A r \in Rows \ free : c[r] = b[r],
         \A r \in free : b[r].state = "blocked",
         \A r \in free :
           /\ c[r].at = b[r].at /\ c[r].dep = b[r].dep /\ ~c[r].gated
           /\ c[r].attempts = b[r].attempts /\ c[r].version = b[r].version /\ c[r].state = s
  PROVE  RowInv(c)
<1>1. b \in [Rows -> OutboxRows]
  BY DEF RowInv
<1>2. ASSUME NEW r \in Rows
      PROVE  /\ c[r].at = b[r].at /\ c[r].dep = b[r].dep /\ c[r].attempts = b[r].attempts
             /\ c[r].version = b[r].version
             /\ c[r].state = "absent" <=> b[r].state = "absent"
             /\ b[r].state \notin Active => c[r].state = b[r].state
  BY DEF Active
<1>3. \A k : RowsOf(c, k) = RowsOf(b, k)
  BY <1>2 DEF RowsOf
<1>4. \A r \in Rows : Earlier(c, r) = Earlier(b, r)
  BY <1>2, <1>3 DEF Earlier, RowsOf
<1>5. Numbered(c)
  <2> SUFFICES ASSUME NEW r \in Rows, c[r].state # "absent"
               PROVE  /\ c[r].at \in 1..Cardinality(RowsOf(c, KeyOf(r)))
                      /\ \A q \in RowsOf(c, KeyOf(r)) : c[q].at = c[r].at => q = r
    BY DEF Numbered
  <2>1. \A q \in RowsOf(c, KeyOf(r)) : q \in Rows
    BY DEF RowsOf
  <2> QED BY <1>2, <1>3, <2>1 DEF RowInv, Numbered
<1>6. \A r \in free : b[r].attempts = 0
  BY DEF RowInv, Attempts
<1>7. Attempts(c)
  BY <1>2, <1>6, SMTT(20) DEF RowInv, Attempts
<1>8. ClaimedInTurn(c)
  <2> SUFFICES ASSUME NEW r \in Rows, c[r].attempts > 0
               PROVE  Past(c, r)
    BY DEF ClaimedInTurn
  <2>1. Past(b, r)
    BY <1>2 DEF RowInv, ClaimedInTurn
  <2>2. \A q \in Earlier(c, r) : c[q].state \notin Active
    BY <1>2, <1>4, <2>1 DEF Past, Earlier, RowsOf
  <2>3. c[r].dep # NoRow => c[c[r].dep].state = "accepted"
    BY <1>1, <1>2, <2>1, RowTyped, SMTT(20) DEF Past, Active
  <2> QED BY <2>2, <2>3 DEF Past
<1>9. Chained(c)
  <2>1. \A r \in Rows : b[r].dep \in Rows \cup {NoRow}
    BY <1>1, RowTyped
  <2> QED BY <1>2, <2>1, SMTT(20) DEF RowInv, Chained
<1>10. Unstarved(c)
  BY <1>2, <1>6, OutboxAssumption, SMTT(20) DEF RowInv, Unstarved
<1> QED BY <1>5, <1>7, <1>8, <1>9, <1>10 DEF RowInv

LEMMA RowsOfInsert ==
  ASSUME NEW b, NEW c, NEW r \in Rows,
         \A q \in Rows : KeyOf(q) = KeyOf(r) =>
           (c[q].state # "absent" <=> b[q].state # "absent" \/ q = r)
  PROVE  RowsOf(c, KeyOf(r)) = RowsOf(b, KeyOf(r)) \cup {r}
<1>1. ASSUME NEW q PROVE q \in RowsOf(c, KeyOf(r)) <=> q \in RowsOf(b, KeyOf(r)) \cup {r}
  BY DEF RowsOf
<1> QED BY <1>1

\* New rows go behind every row of their ordering key, at most one per key.
LEMMA InsertedRows ==
  ASSUME NEW b, NEW c, RowInv(b), NEW fresh \in SUBSET Rows, c \in [Rows -> OutboxRows],
         \A r \in Rows \ fresh : c[r] = b[r],
         \A r, q \in fresh : KeyOf(r) = KeyOf(q) => r = q,
         \A r \in fresh :
           /\ b[r].state = "absent"
           /\ c[r].state \in {"blocked", "ready"} /\ (c[r].gated => c[r].state = "blocked")
           /\ c[r].at = Cardinality(RowsOf(b, KeyOf(r))) + 1
           /\ c[r].attempts = 0 /\ c[r].version = 0
           /\ c[r].dep # NoRow =>
                /\ KeyOf(r) \in Discussions /\ b[c[r].dep].state # "absent"
                /\ KeyOf(c[r].dep) \in Discussions =>
                     /\ c[r].dep \in RowsOf(b, KeyOf(r)) /\ b[c[r].dep].at = 1
  PROVE  RowInv(c)
<1>1. b \in [Rows -> OutboxRows]
  BY DEF RowInv
<1>2. \A k : IsFiniteSet(RowsOf(b, k)) /\ Cardinality(RowsOf(b, k)) \in Nat
  <2>1. IsFiniteSet(Rows)
    BY OutboxAssumption, FS_Product DEF Rows
  <2> QED BY <2>1, FS_Subset, FS_CardinalityType DEF RowsOf
<1>3. \A r \in Rows : b[r].state # "absent" => c[r] = b[r]
  OBVIOUS
<1>4. ASSUME NEW r \in fresh
      PROVE  /\ RowsOf(c, KeyOf(r)) = RowsOf(b, KeyOf(r)) \cup {r}
             /\ r \notin RowsOf(b, KeyOf(r))
             /\ Cardinality(RowsOf(c, KeyOf(r))) = Cardinality(RowsOf(b, KeyOf(r))) + 1
  <2>1. r \notin RowsOf(b, KeyOf(r))
    BY DEF RowsOf
  <2>2. ASSUME NEW q \in Rows, KeyOf(q) = KeyOf(r)
        PROVE  c[q].state # "absent" <=> b[q].state # "absent" \/ q = r
    <3>1. CASE q = r
      BY <3>1
    <3>2. CASE q # r
      BY <2>2, <3>2
    <3> QED BY <3>1, <3>2
  <2>3. RowsOf(c, KeyOf(r)) = RowsOf(b, KeyOf(r)) \cup {r}
    <3>1. r \in Rows
      OBVIOUS
    <3>2. \A q \in Rows : KeyOf(q) = KeyOf(r) =>
            (c[q].state # "absent" <=> b[q].state # "absent" \/ q = r)
      BY <2>2
    <3> QED BY <3>1, <3>2, RowsOfInsert, SMTT(20)
  <2> DEFINE S == RowsOf(b, KeyOf(r))
  <2>4. IsFiniteSet(S) /\ r \notin S
    BY <1>2, <2>1
  <2> HIDE DEF S
  <2>5. Cardinality(S \cup {r}) = Cardinality(S) + 1
    BY <2>4, FS_AddElement
  <2> QED BY <2>1, <2>3, <2>5 DEF S
<1>5. ASSUME NEW k, \A r \in fresh : KeyOf(r) # k
      PROVE  RowsOf(c, k) = RowsOf(b, k)
  BY <1>5, SMTT(20) DEF RowsOf
<1>6. \A r \in Rows : b[r].state # "absent" => Earlier(c, r) = Earlier(b, r)
  <2> SUFFICES ASSUME NEW r \in Rows, b[r].state # "absent" PROVE Earlier(c, r) = Earlier(b, r)
    OBVIOUS
  <2>1. b[r].at <= Cardinality(RowsOf(b, KeyOf(r))) /\ b[r].at \in Nat
    BY <1>1, <1>2, RowTyped, SMTT(20) DEF RowInv, Numbered
  <2>2. c[r] = b[r]
    BY <1>3
  <2>3. \A q \in fresh : KeyOf(q) = KeyOf(r) => ~(c[q].at < c[r].at)
    BY <1>2, <2>1, <2>2, SMTT(20)
  <2>4. \A q \in Rows : q \in Earlier(c, r) <=> q \in Earlier(b, r)
    BY <2>2, <2>3 DEF Earlier, RowsOf
  <2> QED BY <2>4 DEF Earlier, RowsOf
<1>7. Numbered(c)
  <2> SUFFICES ASSUME NEW r \in Rows, c[r].state # "absent"
               PROVE  /\ c[r].at \in 1..Cardinality(RowsOf(c, KeyOf(r)))
                      /\ \A q \in RowsOf(c, KeyOf(r)) : c[q].at = c[r].at => q = r
    BY DEF Numbered
  <2>0. \A q \in RowsOf(b, KeyOf(r)) :
          /\ q \in Rows /\ KeyOf(q) = KeyOf(r) /\ b[q].state # "absent" /\ c[q] = b[q]
          /\ b[q].at \in 1..Cardinality(RowsOf(b, KeyOf(r)))
    BY <1>3, SMTT(20) DEF RowsOf, RowInv, Numbered
  <2>1. CASE r \in fresh
    <3>1. \A q \in RowsOf(b, KeyOf(r)) : c[q].at # c[r].at
      BY <1>2, <2>0, <2>1, SMTT(20)
    <3> QED BY <1>2, <1>4, <2>1, <3>1, SMTT(20)
  <2>2. CASE r \notin fresh
    <3>1. r \in RowsOf(b, KeyOf(r)) /\ c[r] = b[r]
      BY <2>2 DEF RowsOf
    <3>2. CASE \E f \in fresh : KeyOf(f) = KeyOf(r)
      <4>1. PICK f \in fresh : KeyOf(f) = KeyOf(r)
        BY <3>2
      <4>2. c[f].at # c[r].at
        BY <1>2, <2>0, <3>1, <4>1, SMTT(20)
      <4>3. \A q \in RowsOf(b, KeyOf(r)) : b[q].at = b[r].at => q = r
        BY <2>0, <3>1 DEF RowInv, Numbered
      <4>4. /\ RowsOf(c, KeyOf(r)) = RowsOf(b, KeyOf(r)) \cup {f}
            /\ Cardinality(RowsOf(c, KeyOf(r))) = Cardinality(RowsOf(b, KeyOf(r))) + 1
        BY <1>4, <4>1
      <4> QED BY <1>2, <2>0, <3>1, <4>2, <4>3, <4>4, SMTT(20)
    <3>3. CASE ~\E f \in fresh : KeyOf(f) = KeyOf(r)
      <4>1. RowsOf(c, KeyOf(r)) = RowsOf(b, KeyOf(r))
        BY <1>5, <3>3
      <4> QED BY <2>0, <3>1, <4>1 DEF RowInv, Numbered
    <3> QED BY <3>2, <3>3
  <2> QED BY <2>1, <2>2
<1>8. Attempts(c)
  BY SMTT(20) DEF RowInv, Attempts
<1>9. ClaimedInTurn(c)
  <2> SUFFICES ASSUME NEW r \in Rows, c[r].attempts > 0
               PROVE  Past(c, r)
    BY DEF ClaimedInTurn
  <2>1. r \notin fresh /\ c[r] = b[r] /\ b[r].state # "absent"
    BY SMTT(20) DEF RowInv, Attempts
  <2>2. Past(b, r)
    BY <2>1 DEF RowInv, ClaimedInTurn
  <2>3. \A q \in Earlier(c, r) : c[q].state \notin Active
    BY <1>3, <1>6, <2>1, <2>2, SMTT(20) DEF Past, Earlier, RowsOf
  <2>4. c[r].dep # NoRow => c[c[r].dep].state = "accepted"
    BY <1>1, <1>3, <2>1, <2>2, RowTyped, SMTT(20) DEF Past
  <2> QED BY <2>3, <2>4 DEF Past
<1>10. Chained(c)
  <2> SUFFICES ASSUME NEW r \in Rows, c[r].state # "absent", c[r].dep # NoRow
               PROVE  /\ KeyOf(r) \in Discussions
                      /\ c[c[r].dep].state # "absent"
                      /\ KeyOf(c[r].dep) \in Discussions => c[r].at # 1 /\ c[c[r].dep].at = 1
    BY DEF Chained
  <2>0. c[r].dep \in Rows
    BY RowTyped, SMTT(20)
  <2>1. CASE r \in fresh
    <3>1. /\ KeyOf(r) \in Discussions /\ b[c[r].dep].state # "absent"
          /\ KeyOf(c[r].dep) \in Discussions =>
               c[r].dep \in RowsOf(b, KeyOf(r)) /\ b[c[r].dep].at = 1
      BY <2>1
    <3>2. c[c[r].dep] = b[c[r].dep]
      BY <1>3, <2>0, <3>1
    <3>3. ASSUME c[r].dep \in RowsOf(b, KeyOf(r)) PROVE c[r].at # 1
      <4>1. Cardinality(RowsOf(b, KeyOf(r))) # 0
        BY <1>2, <3>3, FS_EmptySet
      <4> QED BY <1>2, <2>1, <4>1, SMTT(20)
    <3> QED BY <3>1, <3>2, <3>3
  <2>2. CASE r \notin fresh
    BY <1>3, <2>0, <2>2, SMTT(20) DEF RowInv, Chained
  <2> QED BY <2>1, <2>2
<1>11. Unstarved(c)
  BY OutboxAssumption, SMTT(20) DEF RowInv, Unstarved
<1> QED BY <1>7, <1>8, <1>9, <1>10, <1>11 DEF RowInv

----------------------------------------------------------------------------
(* The workers and the messages.                                           *)

LEMMA Counts ==
  ASSUME TypeOK, NEW r \in Rows
  PROVE  /\ IsFiniteSet(Unsent(r)) /\ Cardinality(Unsent(r)) \in Nat
         /\ posts[r] \in Nat /\ box[r].attempts \in Nat
<1>1. IsFiniteSet(Unsent(r))
  BY FS_Subset, OutboxAssumption DEF Unsent
<1>2. posts[r] \in Nat /\ box[r].attempts \in Nat
  BY RowTyped DEF TypeOK
<1> QED BY <1>1, <1>2, FS_CardinalityType

\* Nothing is sent and no worker starts a turn.
LEMMA NothingSent ==
  ASSUME IndInv, TypeOK', posts' = posts,
         \A r \in Rows : box'[r].attempts >= box[r].attempts /\ Unsent(r)' \subseteq Unsent(r)
  PROVE  PostsBounded'
<1>t. TypeOK
  BY DEF IndInv
<1> SUFFICES ASSUME NEW r \in Rows
             PROVE  posts'[r] + Cardinality(Unsent(r)') <= box'[r].attempts
  BY DEF PostsBounded
<1>1. Cardinality(Unsent(r)') <= Cardinality(Unsent(r)) /\ Cardinality(Unsent(r)') \in Nat
  BY <1>t, Counts, FS_Subset, FS_CardinalityType
<1>2. posts[r] + Cardinality(Unsent(r)) <= box[r].attempts
  BY DEF IndInv, PostsBounded
<1>3. box'[r].attempts \in Nat
  BY RowTyped DEF TypeOK
<1> QED BY <1>t, <1>1, <1>2, <1>3, Counts, SMTT(20)

\* A transaction or a clock step that no worker's turn depends on.
LEMMA OutboxSteps ==
  ASSUME IndInv, TypeOK', RowInv(box'), UNCHANGED <<worker, posts>>,
         \A r \in Rows : box'[r].attempts = box[r].attempts,
         \A r \in Rows : box'[r].state = "accepted" => box[r].state = "accepted"
  PROVE  IndInv'
<1>t. TypeOK
  BY DEF IndInv
<1>1. Turns'
  BY DEF IndInv, Turns
<1>2. AcceptedMeansPosted'
  BY DEF IndInv, AcceptedMeansPosted
<1>3. PostsBounded'
  <2>1. \A r \in Rows : Unsent(r)' \subseteq Unsent(r)
    BY DEF Unsent
  <2>2. \A r \in Rows : box'[r].attempts >= box[r].attempts
    BY <1>t, Counts, SMTT(20)
  <2> QED BY <2>1, <2>2, NothingSent
<1> QED BY <1>1, <1>2, <1>3 DEF IndInv

\* The turn of one worker ends or goes on without a message; the outbox keeps
\* its rows or settles them.
LEMMA TurnSteps ==
  ASSUME IndInv, TypeOK', RowInv(box'), posts' = posts, NEW w \in Workers,
         \A u \in Workers \ {w} : worker'[u] = worker[u],
         \A r \in Rows : box'[r].attempts = box[r].attempts,
         \A r \in Rows : box'[r].state = "accepted" => posts[r] > 0,
         \/ worker'[w].phase = "idle"
         \/ /\ worker[w].phase # "idle"
            /\ worker'[w].row = worker[w].row /\ worker'[w].version = worker[w].version
            /\ worker'[w].attempts = worker[w].attempts
            /\ worker'[w].phase \in {"claimed", "sending"} => worker[w].phase \in {"claimed", "sending"}
            /\ worker'[w].phase \in {"limiting", "settle"} => worker'[w].verdict # "none"
            /\ worker'[w].verdict = "accepted" => worker[w].verdict = "accepted"
  PROVE  IndInv'
<1>t. TypeOK
  BY DEF IndInv
<1>1. Turns'
  <2> SUFFICES ASSUME NEW u \in Workers, worker'[u].phase # "idle"
               PROVE  /\ worker'[u].row \in Rows
                      /\ worker'[u].version = worker'[u].attempts
                      /\ worker'[u].attempts > 0
                      /\ box'[worker'[u].row].attempts > 0
                      /\ worker'[u].phase \in {"limiting", "settle"} => worker'[u].verdict # "none"
                      /\ worker'[u].verdict = "accepted" => posts'[worker'[u].row] > 0
    BY DEF Turns
  <2>1. CASE u = w
    BY <2>1 DEF IndInv, Turns
  <2>2. CASE u # w
    BY <2>2, SMTT(20) DEF IndInv, Turns
  <2> QED BY <2>1, <2>2
<1>2. AcceptedMeansPosted'
  BY DEF AcceptedMeansPosted
<1>3. PostsBounded'
  <2>1. \A r \in Rows : Unsent(r)' \subseteq Unsent(r)
    BY DEF Unsent
  <2>2. \A r \in Rows : box'[r].attempts >= box[r].attempts
    BY <1>t, Counts, SMTT(20)
  <2> QED BY <2>1, <2>2, NothingSent
<1> QED BY <1>1, <1>2, <1>3 DEF IndInv

\* Nothing happens to the outbox.
LEMMA SameBox ==
  ASSUME IndInv, UNCHANGED box
  PROVE  /\ RowInv(box')
         /\ \A r \in Rows : box'[r].attempts = box[r].attempts
         /\ \A r \in Rows : box'[r].state = "accepted" => posts[r] > 0
BY DEF IndInv, AcceptedMeansPosted

----------------------------------------------------------------------------
(* The producers.                                                          *)

LEMMA EnqueueKeeps ==
  ASSUME IndInv, NEW dep, NEW gated \in BOOLEAN, Enqueue(dep, gated),
         DOMAIN dep \subseteq Rows,
         \A r, q \in DOMAIN dep : KeyOf(r) = KeyOf(q) => r = q,
         \A r \in DOMAIN dep : dep[r] \in Rows \cup {NoRow},
         \A r \in DOMAIN dep : dep[r] # NoRow =>
            /\ KeyOf(r) \in Discussions /\ box[dep[r]].state # "absent"
            /\ KeyOf(dep[r]) \in Discussions =>
                 dep[r] \in RowsOf(box, KeyOf(r)) /\ box[dep[r]].at = 1
  PROVE  IndInv'
<1> DEFINE fresh == {r \in DOMAIN dep : box[r].state = "absent"}
           s == IF gated THEN "blocked" ELSE "ready"
<1>t. TypeOK
  BY DEF IndInv
<1>1. /\ box' = [r \in Rows |->
                   IF r \notin fresh THEN box[r]
                   ELSE [Absent EXCEPT !.state = s, !.at = NextAt(KeyOf(r)), !.gated = gated,
                                       !.dep = dep[r]]]
      /\ UNCHANGED <<limits, worker, stopping, posts, stops, errors>>
  BY DEF Enqueue
<1>2. s \in States /\ s \in {"blocked", "ready"} /\ (gated => s = "blocked")
  BY DEF States, Active
<1>3. \A r \in fresh : r \in DOMAIN dep /\ r \in Rows /\ box[r].state = "absent"
  OBVIOUS
<1> HIDE DEF fresh, s
<1>4. \A r \in Rows \ fresh : box'[r] = box[r]
  BY <1>1
<1>5. ASSUME NEW r \in fresh
      PROVE  /\ box'[r] \in OutboxRows /\ box'[r].at = NextAt(KeyOf(r))
             /\ box'[r].gated = gated /\ box'[r].dep = dep[r]
             /\ box'[r].attempts = 0 /\ box'[r].version = 0 /\ box'[r].state = s
  <2>1. box'[r] = [Absent EXCEPT !.state = s, !.at = NextAt(KeyOf(r)), !.gated = gated,
                                 !.dep = dep[r]]
    BY <1>1, <1>3
  <2>2. NextAt(KeyOf(r)) \in Nat
    <3>1. IsFiniteSet(RowsOf(box, KeyOf(r)))
      BY OutboxAssumption, FS_Product, FS_Subset DEF Rows, RowsOf
    <3> QED BY <3>1, FS_CardinalityType, SMTT(20) DEF NextAt
  <2>3. dep[r] \in Rows \cup {NoRow}
    BY <1>3
  <2>4. /\ box'[r].at = NextAt(KeyOf(r)) /\ box'[r].gated = gated /\ box'[r].dep = dep[r]
        /\ box'[r].attempts = 0 /\ box'[r].version = 0 /\ box'[r].state = s
    BY <2>1 DEF Absent
  <2> DEFINE y == box'[r]
             at == NextAt(KeyOf(r))
             d == dep[r]
  <2>5. /\ at \in Nat /\ d \in Rows \cup {NoRow} /\ s \in States /\ gated \in BOOLEAN
        /\ y = [Absent EXCEPT !.state = s, !.at = at, !.gated = gated, !.dep = d]
    BY <1>2, <2>1, <2>2, <2>3
  <2> HIDE DEF y, at, d
  <2>6. y = [state |-> s, at |-> at, gated |-> gated, dep |-> d, attempts |-> 0, version |-> 0,
             owner |-> NoWorker, due |-> TRUE, late |-> FALSE, risk |-> FALSE, bucketed |-> FALSE]
    BY <2>5 DEF Absent
  <2>7. y \in OutboxRows
    <3>1. at \in Nat /\ d \in Rows \cup {NoRow} /\ s \in States
      BY <2>5
    <3>2. [state |-> s, at |-> at, gated |-> gated, dep |-> d, attempts |-> 0, version |-> 0,
           owner |-> NoWorker, due |-> TRUE, late |-> FALSE, risk |-> FALSE,
           bucketed |-> FALSE] \in OutboxRows
      BY <3>1, RowInserted
    <3> QED BY <2>6, <3>2
  <2> QED BY <2>4, <2>7 DEF y
<1>6. box' \in [Rows -> OutboxRows]
  <2>1. box' = [r \in Rows |-> box'[r]]
    BY <1>1
  <2>2. \A r \in Rows : box'[r] \in OutboxRows
    BY <1>t, <1>4, <1>5 DEF TypeOK
  <2> QED BY <2>1, <2>2
<1>7. TypeOK'
  BY <1>1, <1>6, <1>t DEF TypeOK
<1>8. RowInv(box')
  <2>1. RowInv(box) /\ fresh \in SUBSET Rows
    BY <1>3 DEF IndInv
  <2>2. \A r, q \in fresh : KeyOf(r) = KeyOf(q) => r = q
    BY <1>3
  <2>3. \A r \in fresh :
           /\ box[r].state = "absent"
           /\ box'[r].state \in {"blocked", "ready"} /\ (box'[r].gated => box'[r].state = "blocked")
           /\ box'[r].at = Cardinality(RowsOf(box, KeyOf(r))) + 1
           /\ box'[r].attempts = 0 /\ box'[r].version = 0
           /\ box'[r].dep # NoRow =>
                /\ KeyOf(r) \in Discussions /\ box[box'[r].dep].state # "absent"
                /\ KeyOf(box'[r].dep) \in Discussions =>
                     /\ box'[r].dep \in RowsOf(box, KeyOf(r)) /\ box[box'[r].dep].at = 1
    BY <1>2, <1>3, <1>5, SMTT(20) DEF NextAt
  <2> QED BY <1>4, <1>6, <2>1, <2>2, <2>3, InsertedRows, SMTT(20)
<1>9. \A r \in Rows : box'[r].attempts = box[r].attempts
  BY <1>3, <1>4, <1>5 DEF IndInv, RowInv, Attempts
<1>10. \A r \in Rows : box'[r].state = "accepted" => box[r].state = "accepted"
  BY <1>2, <1>4, <1>5
<1> QED BY <1>1, <1>7, <1>8, <1>9, <1>10, OutboxSteps

LEMMA FanoutKeeps ==
  ASSUME IndInv, NEW e \in Events, NEW targets \in SUBSET Keys, NEW gated \in BOOLEAN,
         Fanout(e, targets, gated)
  PROVE  IndInv'
<1> DEFINE dep == [r \in {e} \X targets |-> NoRow]
<1>1. /\ Enqueue(dep, gated) /\ DOMAIN dep = {e} \X targets
      /\ \A r \in {e} \X targets : dep[r] = NoRow
  BY DEF Fanout
<1>2. {e} \X targets \subseteq Rows /\ \A r, q \in {e} \X targets : KeyOf(r) = KeyOf(q) => r = q
  BY SMTT(20) DEF Rows, KeyOf
<1> HIDE DEF dep
<1> QED BY <1>1, <1>2, EnqueueKeeps

LEMMA SubmitFeedbackKeeps ==
  ASSUME IndInv, NEW e \in Events, NEW targets \in SUBSET (Keys \ Discussions),
         NEW k \in Discussions, NEW first \in Rows \cup {NoRow},
         SubmitFeedback(e, targets, k, first)
  PROVE  IndInv'
<1> DEFINE asked == {e} \X (targets \cup {k})
           dep == [r \in asked |-> IF KeyOf(r) = k THEN first ELSE NoRow]
<1>1. Enqueue(dep, FALSE)
  BY DEF SubmitFeedback
<1>2. /\ DOMAIN dep = asked
      /\ \A r \in asked : dep[r] \in Rows \cup {NoRow}
      /\ \A r \in asked : dep[r] # NoRow => KeyOf(r) = k /\ dep[r] = first
  OBVIOUS
<1>3. asked \subseteq Rows /\ \A r, q \in asked : KeyOf(r) = KeyOf(q) => r = q
  BY OutboxAssumption, SMTT(20) DEF Rows, KeyOf
<1>4. first # NoRow =>
        /\ box[first].state # "absent"
        /\ KeyOf(first) \in Discussions => first \in RowsOf(box, k) /\ box[first].at = 1
  BY DEF SubmitFeedback, RowsOf, Terminal, Active
<1> HIDE DEF dep, asked
<1> QED BY <1>1, <1>2, <1>3, <1>4, EnqueueKeeps

LEMMA SettleIntentKeeps ==
  ASSUME IndInv, NEW e \in Events, NEW success \in BOOLEAN, SettleIntent(e, success)
  PROVE  IndInv'
<1> DEFINE free == {r \in Rows : r[1] = e /\ box[r].state = "blocked"}
           s == IF success THEN "ready" ELSE "deleted"
<1>t. TypeOK
  BY DEF IndInv
<1>1. /\ box' = [r \in Rows |-> IF r \in free THEN [box[r] EXCEPT !.state = s, !.gated = FALSE]
                                ELSE box[r]]
      /\ UNCHANGED <<limits, worker, stopping, posts, stops, errors>>
  BY DEF SettleIntent
<1>2. s \in States /\ s \in {"ready", "deleted"}
  BY DEF States, Active
<1>3. free \in SUBSET Rows /\ \A r \in free : r \in Rows /\ box[r].state = "blocked"
  OBVIOUS
<1> HIDE DEF free, s
<1>4. \A r \in Rows \ free : box'[r] = box[r]
  BY <1>1
<1>5. ASSUME NEW r \in free
      PROVE  /\ box'[r] \in OutboxRows /\ box'[r].at = box[r].at /\ box'[r].dep = box[r].dep
             /\ ~box'[r].gated /\ box'[r].attempts = box[r].attempts
             /\ box'[r].version = box[r].version /\ box'[r].state = s
  <2>1. box'[r] = [box[r] EXCEPT !.state = s, !.gated = FALSE]
    BY <1>1, <1>3
  <2>2. box[r] \in OutboxRows
    BY <1>3, <1>t DEF TypeOK
  <2> QED BY <1>2, <2>1, <2>2 DEF OutboxRows
<1>6. box' \in [Rows -> OutboxRows]
  <2>1. box' = [r \in Rows |-> box'[r]]
    BY <1>1
  <2>2. \A r \in Rows : box'[r] \in OutboxRows
    BY <1>t, <1>4, <1>5 DEF TypeOK
  <2> QED BY <2>1, <2>2
<1>7. TypeOK'
  BY <1>1, <1>6, <1>t DEF TypeOK
<1>8. RowInv(box')
  BY <1>2, <1>3, <1>4, <1>5, <1>6, ReleasedRows, SMTT(20) DEF IndInv
<1> QED BY <1>1, <1>2, <1>4, <1>5, <1>7, <1>8, OutboxSteps

----------------------------------------------------------------------------
(* The claim.                                                              *)

LEMMA RecoveredRows ==
  ASSUME NEW b, RowInv(b)
  PROVE  /\ RowInv(Recovered(b))
         /\ \A r \in Rows :
              /\ Outcome(b[r], Recovered(b)[r])
              /\ Recovered(b)[r].state = "accepted" => b[r].state = "accepted"
              /\ ~(b[r].state = "leased" /\ b[r].late) => Recovered(b)[r] = b[r]
<1> DEFINE c == Recovered(b)
<1>1. b \in [Rows -> OutboxRows]
  BY DEF RowInv
<1>2. ASSUME NEW r \in Rows, ~(b[r].state = "leased" /\ b[r].late)
      PROVE  c[r] = b[r]
  BY <1>2 DEF Recovered
<1>3. ASSUME NEW r \in Rows, b[r].state = "leased", b[r].late
      PROVE  /\ c[r] \in OutboxRows /\ SameRow(b[r], c[r])
             /\ c[r].state = IF Exhausted(b[r]) THEN "dead_letter" ELSE "retry"
  <2> DEFINE s == IF Exhausted(b[r]) THEN "dead_letter" ELSE "retry"
  <2>1. c[r] = [b[r] EXCEPT !.state = s, !.owner = NoWorker, !.risk = TRUE, !.due = TRUE,
                            !.late = FALSE]
    BY <1>3 DEF Recovered
  <2>2. s \in States /\ b[r] \in OutboxRows
    BY <1>1 DEF States, Active, Terminal
  <2> HIDE DEF s, c
  <2>3. c[r] \in OutboxRows /\ SameRow(b[r], c[r]) /\ c[r].state = s
    BY <2>1, <2>2 DEF OutboxRows, SameRow
  <2> QED BY <2>3 DEF s
<1>4. c \in [Rows -> OutboxRows]
  <2>1. c = [r \in Rows |-> c[r]]
    BY DEF Recovered
  <2>2. \A r \in Rows : c[r] \in OutboxRows
    BY <1>1, <1>2, <1>3
  <2> HIDE DEF c
  <2> QED BY <2>1, <2>2
<1> HIDE DEF c
<1>5. \A r \in Rows : Outcome(b[r], c[r]) /\ (c[r].state = "accepted" => b[r].state = "accepted")
  BY <1>2, <1>3 DEF Outcome, SameRow
<1>6. Unstarved(c)
  <2> SUFFICES ASSUME NEW r \in Rows, c[r].state \in Waiting
               PROVE  c[r].attempts < MaxAttempts
    BY DEF Unstarved
  <2>1. CASE b[r].state = "leased" /\ b[r].late
    <3>1. ~(b[r].attempts >= MaxAttempts) /\ c[r].attempts = b[r].attempts
      BY <1>3, <2>1 DEF Waiting, Exhausted, SameRow
    <3> QED BY <1>1, <3>1, RowTyped, OutboxAssumption, SMTT(20)
  <2>2. CASE ~(b[r].state = "leased" /\ b[r].late)
    BY <1>2, <2>2 DEF RowInv, Unstarved
  <2> QED BY <2>1, <2>2
<1>7. RowInv(c)
  BY <1>4, <1>5, <1>6, SettledRows
<1> QED BY <1>2, <1>5, <1>7 DEF c

LEMMA PropagatedOnceRows ==
  ASSUME NEW b, RowInv(b)
  PROVE  /\ RowInv(PropagateOnce(b))
         /\ \A r \in Rows :
              /\ Outcome(b[r], PropagateOnce(b)[r])
              /\ PropagateOnce(b)[r].state = "accepted" => b[r].state = "accepted"
              /\ b[r].state \in Waiting /\ Failed(b, r) => PropagateOnce(b)[r].state = "dead_letter"
              /\ ~(b[r].state \in Waiting /\ Failed(b, r)) => PropagateOnce(b)[r] = b[r]
<1> DEFINE c == PropagateOnce(b)
<1>1. b \in [Rows -> OutboxRows]
  BY DEF RowInv
<1>2. ASSUME NEW r \in Rows, ~(b[r].state \in Waiting /\ Failed(b, r))
      PROVE  c[r] = b[r]
  BY <1>2 DEF PropagateOnce
<1>3. ASSUME NEW r \in Rows, b[r].state \in Waiting, Failed(b, r)
      PROVE  c[r] \in OutboxRows /\ SameRow(b[r], c[r]) /\ c[r].state = "dead_letter"
  <2>1. c[r] = [b[r] EXCEPT !.state = "dead_letter", !.owner = NoWorker, !.risk = FALSE]
    BY <1>3 DEF PropagateOnce
  <2>2. b[r] \in OutboxRows
    BY <1>1
  <2> HIDE DEF c
  <2> QED BY <2>1, <2>2 DEF OutboxRows, SameRow, States, Terminal
<1>4. c \in [Rows -> OutboxRows]
  <2>1. c = [r \in Rows |-> c[r]]
    BY DEF PropagateOnce
  <2>2. \A r \in Rows : c[r] \in OutboxRows
    BY <1>1, <1>2, <1>3
  <2> HIDE DEF c
  <2> QED BY <2>1, <2>2
<1> HIDE DEF c
<1>5. \A r \in Rows : Outcome(b[r], c[r]) /\ (c[r].state = "accepted" => b[r].state = "accepted")
  BY <1>2, <1>3 DEF Outcome, SameRow, Waiting
<1>6. Unstarved(c)
  BY <1>2, <1>3 DEF RowInv, Unstarved, Waiting
<1>7. RowInv(c)
  BY <1>4, <1>5, <1>6, SettledRows
<1> QED BY <1>2, <1>3, <1>5, <1>7 DEF c

\* The outbox a claim chooses from.
LEMMA ClaimBase ==
  ASSUME NEW b, RowInv(b), NEW c, c = Propagated(Recovered(b))
  PROVE  /\ RowInv(c)
         /\ \A r \in Rows :
              /\ c[r].attempts = b[r].attempts
              /\ c[r].state = "accepted" => b[r].state = "accepted"
              /\ b[r].state \in Terminal => c[r] = b[r]
              /\ b[r].state = "leased" /\ ~b[r].late => c[r] = b[r]
<1> DEFINE b0 == Recovered(b)
           b1 == PropagateOnce(b0)
           b2 == PropagateOnce(b1)
<1>1. c = b2
  BY DEF Propagated
<1>2. /\ RowInv(b0)
      /\ \A r \in Rows :
              /\ Outcome(b[r], b0[r])
              /\ b0[r].state = "accepted" => b[r].state = "accepted"
              /\ ~(b[r].state = "leased" /\ b[r].late) => b0[r] = b[r]
  BY RecoveredRows
<1>3. /\ RowInv(b1)
      /\ \A r \in Rows :
              /\ Outcome(b0[r], b1[r])
              /\ b1[r].state = "accepted" => b0[r].state = "accepted"
              /\ b0[r].state \notin Waiting => b1[r] = b0[r]
  BY <1>2, PropagatedOnceRows
<1>4. /\ RowInv(b2)
      /\ \A r \in Rows :
              /\ Outcome(b1[r], b2[r])
              /\ b2[r].state = "accepted" => b1[r].state = "accepted"
              /\ b1[r].state \notin Waiting => b2[r] = b1[r]
  BY <1>3, PropagatedOnceRows
<1> HIDE DEF b0, b1, b2
<1> QED BY <1>1, <1>2, <1>3, <1>4, SMTT(20) DEF Outcome, SameRow, Terminal, Waiting

LEMMA ClaimKeeps ==
  ASSUME IndInv, NEW w \in Workers, Claim(w)
  PROVE  IndInv'
<1> DEFINE b == Propagated(Recovered(box))
<1>t. TypeOK
  BY DEF IndInv
<1>1. /\ RowInv(b)
      /\ \A r \in Rows : /\ b[r].attempts = box[r].attempts
                         /\ b[r].state = "accepted" => box[r].state = "accepted"
  BY ClaimBase DEF IndInv
<1>2. /\ worker[w] = Idle
      /\ \/ box' = b /\ UNCHANGED worker
         \/ \E r \in Eligible(b) :
              /\ box' = [b EXCEPT ![r] = [b[r] EXCEPT !.state = "leased", !.owner = w,
                                            !.attempts = b[r].attempts + 1,
                                            !.version = b[r].version + 1,
                                            !.late = FALSE]]
              /\ worker' = [worker EXCEPT ![w] =
                              [Idle EXCEPT !.phase = "claimed", !.row = r,
                                           !.version = b[r].version + 1,
                                           !.attempts = b[r].attempts + 1]]
      /\ UNCHANGED <<limits, stopping, posts, stops, errors>>
  BY DEF Claim
<1>5. worker[w] = Idle /\ UNCHANGED <<limits, stopping, posts, stops, errors>>
  BY DEF Claim
<1> HIDE DEF b
<1>3. CASE box' = b /\ UNCHANGED worker
  <2>1. TypeOK'
    BY <1>1, <1>3, <1>5, <1>t DEF TypeOK, RowInv
  <2> QED BY <1>1, <1>3, <1>5, <2>1, OutboxSteps
<1>4. CASE \E r \in Eligible(b) :
              /\ box' = [b EXCEPT ![r] = [b[r] EXCEPT !.state = "leased", !.owner = w,
                                            !.attempts = b[r].attempts + 1,
                                            !.version = b[r].version + 1,
                                            !.late = FALSE]]
              /\ worker' = [worker EXCEPT ![w] =
                              [Idle EXCEPT !.phase = "claimed", !.row = r,
                                           !.version = b[r].version + 1,
                                           !.attempts = b[r].attempts + 1]]
  <2>1. PICK l \in Eligible(b) :
          /\ box' = [b EXCEPT ![l] = [b[l] EXCEPT !.state = "leased", !.owner = w,
                                        !.attempts = b[l].attempts + 1,
                                        !.version = b[l].version + 1,
                                        !.late = FALSE]]
          /\ worker' = [worker EXCEPT ![w] =
                          [Idle EXCEPT !.phase = "claimed", !.row = l,
                                       !.version = b[l].version + 1,
                                       !.attempts = b[l].attempts + 1]]
    BY <1>4
  <2> DEFINE n == b[l].attempts + 1
             v == b[l].version + 1
  <2>2. l \in Rows /\ b[l].state \in Waiting /\ b \in [Rows -> OutboxRows] /\ b[l] \in OutboxRows
    BY <1>1 DEF Eligible, RowInv
  <2>3. n \in 0..MaxAttempts /\ v \in Nat /\ n > 0 /\ v = n
    <3>1. b[l].attempts < MaxAttempts /\ b[l].version = b[l].attempts
      BY <1>1, <2>2 DEF RowInv, Unstarved, Attempts
    <3> QED BY <2>2, <3>1, RowTyped, OutboxAssumption, SMTT(20)
  <2>4. /\ box' = [b EXCEPT ![l] = [b[l] EXCEPT !.state = "leased", !.owner = w, !.attempts = n,
                                                !.version = v, !.late = FALSE]]
        /\ worker' = [worker EXCEPT ![w] = [Idle EXCEPT !.phase = "claimed", !.row = l,
                                                        !.version = v, !.attempts = n]]
    BY <2>1
  <2>5. n = b[l].attempts + 1 /\ v = b[l].version + 1
    OBVIOUS
  <2> HIDE DEF n, v
  <2>6. box'[l] = [b[l] EXCEPT !.state = "leased", !.owner = w, !.attempts = n, !.version = v,
                               !.late = FALSE]
    BY <2>2, <2>4
  <2>7. /\ box'[l] \in OutboxRows /\ box'[l].at = b[l].at /\ box'[l].gated = b[l].gated
        /\ box'[l].dep = b[l].dep /\ box'[l].attempts = n /\ box'[l].version = v
        /\ box'[l].state = "leased"
    <3>1. n \in 0..MaxAttempts /\ v \in Nat
      BY <2>3
    <3>2. b[l] \in OutboxRows
      BY <2>2
    <3>3. "leased" \in States /\ w \in Workers \cup {NoWorker} /\ FALSE \in BOOLEAN
      BY DEF States, Active
    <3> QED BY <2>6, <3>1, <3>2, <3>3 DEF OutboxRows
  <2>8. \A r \in Rows \ {l} : box'[r] = b[r]
    BY <2>2, <2>4
  <2>9. box' \in [Rows -> OutboxRows]
    <3>1. box' = [r \in Rows |-> box'[r]]
      BY <2>2, <2>4
    <3>2. \A r \in Rows : box'[r] \in OutboxRows
      BY <2>2, <2>7, <2>8
    <3> QED BY <3>1, <3>2
  <2>10. /\ worker'[w] \in WorkerStates /\ worker'[w].row = l /\ worker'[w].version = v
         /\ worker'[w].attempts = n /\ worker'[w].phase = "claimed" /\ worker'[w].verdict = "none"
    <3>1. worker'[w] = [Idle EXCEPT !.phase = "claimed", !.row = l, !.version = v, !.attempts = n]
      BY <2>4, <1>t DEF TypeOK
    <3> QED BY <2>2, <2>3, <3>1 DEF WorkerStates, Idle
  <2>11. \A u \in Workers \ {w} : worker'[u] = worker[u]
    BY <2>4, <1>t DEF TypeOK
  <2>12. worker' \in [Workers -> WorkerStates]
    <3>1. worker' = [u \in Workers |-> worker'[u]]
      BY <2>4, <1>t DEF TypeOK
    <3>2. \A u \in Workers : worker'[u] \in WorkerStates
      BY <2>10, <2>11, <1>t DEF TypeOK
    <3> QED BY <3>1, <3>2
  <2>13. TypeOK'
    BY <1>5, <2>9, <2>12, <1>t DEF TypeOK
  <2>14. RowInv(box')
    BY <1>1, <2>5, <2>7, <2>8, <2>9, LeasedRows
  <2>15. box'[l].attempts = box[l].attempts + 1 /\ \A r \in Rows \ {l} : box'[r].attempts = box[r].attempts
    BY <1>1, <2>2, <2>5, <2>7, <2>8
  <2>16. Turns'
    <3> SUFFICES ASSUME NEW u \in Workers, worker'[u].phase # "idle"
                 PROVE  /\ worker'[u].row \in Rows
                        /\ worker'[u].version = worker'[u].attempts
                        /\ worker'[u].attempts > 0
                        /\ box'[worker'[u].row].attempts > 0
                        /\ worker'[u].phase \in {"limiting", "settle"} => worker'[u].verdict # "none"
                        /\ worker'[u].verdict = "accepted" => posts'[worker'[u].row] > 0
      BY DEF Turns
    <3>1. CASE u = w
      BY <2>2, <2>3, <2>7, <2>10, <3>1
    <3>2. CASE u # w
      <4>1. /\ worker'[u] = worker[u] /\ posts' = posts
        BY <1>5, <2>11, <3>2
      <4>2. \A r \in Rows : box[r].attempts > 0 => box'[r].attempts > 0
        BY <2>3, <2>7, <2>15
      <4> QED BY <4>1, <4>2 DEF IndInv, Turns
    <3> QED BY <3>1, <3>2
  <2>17. AcceptedMeansPosted'
    BY <1>1, <1>5, <2>7, <2>8 DEF IndInv, AcceptedMeansPosted
  <2>18. PostsBounded'
    <3> SUFFICES ASSUME NEW r \in Rows
                 PROVE  posts'[r] + Cardinality(Unsent(r)') <= box'[r].attempts
      BY DEF PostsBounded
    <3>1. posts[r] + Cardinality(Unsent(r)) <= box[r].attempts /\ posts' = posts
      BY <1>5 DEF IndInv, PostsBounded
    <3>2. w \notin Unsent(r)
      BY <1>5, WorkerIdle DEF Unsent
    <3>3. CASE r = l
      <4>1. Unsent(r)' = Unsent(r) \cup {w}
        BY <2>10, <2>11, <3>3 DEF Unsent
      <4>2. Cardinality(Unsent(r) \cup {w}) = Cardinality(Unsent(r)) + 1
        BY <1>t, <3>2, Counts, FS_AddElement
      <4> QED BY <1>t, <2>15, <3>1, <3>3, <4>1, <4>2, Counts, SMTT(20)
    <3>4. CASE r # l
      <4>1. Unsent(r)' = Unsent(r)
        BY <2>10, <2>11, <3>2, <3>4 DEF Unsent
      <4> QED BY <2>15, <3>1, <3>4, <4>1
    <3> QED BY <3>3, <3>4
  <2> QED BY <2>13, <2>14, <2>16, <2>17, <2>18 DEF IndInv
<1> QED BY <1>2, <1>3, <1>4

----------------------------------------------------------------------------
(* A turn after the claim.                                                 *)

LEMMA DecideTyped ==
  ASSUME TypeOK, NEW w \in Workers, NEW risk \in BOOLEAN,
         NEW phase \in {"sending", "limiting", "settle"},
         NEW verdict \in {"none", "accepted", "retry", "dead_letter"},
         Decide(w, verdict, risk, phase)
  PROVE  /\ worker' \in [Workers -> WorkerStates]
         /\ \A u \in Workers \ {w} : worker'[u] = worker[u]
         /\ worker'[w].row = worker[w].row /\ worker'[w].version = worker[w].version
         /\ worker'[w].attempts = worker[w].attempts
         /\ worker'[w].phase = phase /\ worker'[w].verdict = verdict
<1>1. worker \in [Workers -> WorkerStates] /\ worker[w] \in WorkerStates
  BY DEF TypeOK
<1>2. worker'[w] = [worker[w] EXCEPT !.phase = phase, !.verdict = verdict, !.risk = risk]
  BY <1>1 DEF Decide
<1>3. /\ worker'[w] \in WorkerStates
      /\ worker'[w].row = worker[w].row /\ worker'[w].version = worker[w].version
      /\ worker'[w].attempts = worker[w].attempts
      /\ worker'[w].phase = phase /\ worker'[w].verdict = verdict
  BY <1>1, <1>2 DEF WorkerStates
<1>4. /\ \A u \in Workers \ {w} : worker'[u] = worker[u]
      /\ worker' = [u \in Workers |-> worker'[u]]
  BY <1>1 DEF Decide
<1>5. worker' \in [Workers -> WorkerStates]
  <2>1. \A u \in Workers : worker'[u] \in WorkerStates
    BY <1>1, <1>3, <1>4
  <2> QED BY <1>4, <2>1
<1> QED BY <1>3, <1>4, <1>5

LEMMA IdleTyped ==
  ASSUME TypeOK, NEW w \in Workers, worker' = [worker EXCEPT ![w] = Idle]
  PROVE  /\ worker' \in [Workers -> WorkerStates]
         /\ \A u \in Workers \ {w} : worker'[u] = worker[u]
         /\ worker'[w].phase = "idle"
BY WorkerIdle DEF TypeOK

\* A turn that a storage error ends.
LEMMA TurnFailsKeeps ==
  ASSUME IndInv, NEW w \in Workers, TurnFails(w),
         UNCHANGED <<box, limits, stopping, posts, stops>>
  PROVE  IndInv'
<1>t. TypeOK
  BY DEF IndInv
<1>1. /\ worker' \in [Workers -> WorkerStates]
      /\ \A u \in Workers \ {w} : worker'[u] = worker[u]
      /\ worker'[w].phase = "idle"
  BY <1>t, IdleTyped DEF TurnFails
<1>2. errors' \in 0..MaxErrors
  BY <1>t, OutboxAssumption, SMTT(20) DEF TurnFails, TypeOK
<1>3. TypeOK'
  BY <1>1, <1>2, <1>t DEF TypeOK
<1> QED BY <1>1, <1>3, SameBox, TurnSteps

\* A turn that only decides.
LEMMA DecideKeeps ==
  ASSUME IndInv, NEW w \in Workers, NEW risk \in BOOLEAN, NEW phase \in {"sending", "settle"},
         NEW verdict \in {"none", "retry", "dead_letter"}, Decide(w, verdict, risk, phase),
         worker[w].phase = "claimed", phase = "settle" => verdict # "none",
         UNCHANGED <<box, limits, stopping, posts, stops, errors>>
  PROVE  IndInv'
<1>t. TypeOK
  BY DEF IndInv
<1>1. /\ worker' \in [Workers -> WorkerStates]
      /\ \A u \in Workers \ {w} : worker'[u] = worker[u]
      /\ worker'[w].row = worker[w].row /\ worker'[w].version = worker[w].version
      /\ worker'[w].attempts = worker[w].attempts
      /\ worker'[w].phase = phase /\ worker'[w].verdict = verdict
  BY <1>t, DecideTyped
<1>2. TypeOK'
  BY <1>1, <1>t DEF TypeOK
<1> QED BY <1>1, <1>2, SameBox, TurnSteps

LEMMA PrepareKeeps ==
  ASSUME IndInv, NEW w \in Workers, Prepare(w)
  PROVE  IndInv'
<1>1. worker[w].phase = "claimed" /\ UNCHANGED <<box, limits, stopping, posts, stops>>
  BY DEF Prepare
<1>2. CASE Decide(w, "retry", FALSE, "settle") /\ UNCHANGED errors
  BY <1>1, <1>2, DecideKeeps
<1>3. CASE Decide(w, "none", FALSE, "sending") /\ UNCHANGED errors
  BY <1>1, <1>3, DecideKeeps
<1>4. CASE Decide(w, "dead_letter", FALSE, "settle") /\ UNCHANGED errors
  BY <1>1, <1>4, DecideKeeps
<1>5. CASE Decide(w, "retry", KeyOf(worker[w].row) \notin Discussions, "settle") /\ UNCHANGED errors
  <2> DEFINE risk == KeyOf(worker[w].row) \notin Discussions
  <2>1. risk \in BOOLEAN /\ Decide(w, "retry", risk, "settle") /\ UNCHANGED errors
    BY <1>5
  <2> HIDE DEF risk
  <2> QED BY <1>1, <2>1, DecideKeeps
<1>6. CASE TurnFails(w)
  BY <1>1, <1>6, TurnFailsKeeps
<1> QED BY <1>2, <1>3, <1>4, <1>5, <1>6 DEF Prepare

LEMMA DeliverKeeps ==
  ASSUME IndInv, NEW w \in Workers, Deliver(w)
  PROVE  IndInv'
<1> DEFINE r == worker[w].row
<1>t. TypeOK
  BY DEF IndInv
<1>1. worker[w].phase = "sending" /\ UNCHANGED <<box, limits, stopping, stops, errors>>
  BY DEF Deliver
<1>2. PICK created \in {0, 1} :
        /\ posts' = [posts EXCEPT ![r] = @ + created]
        /\ \/ created = 1 /\ Decide(w, "accepted", FALSE, "limiting")
           \/ Decide(w, "retry", TRUE, "settle")
           \/ /\ created = 1 /\ KeyOf(r) \in Discussions
              /\ Decide(w, "retry", TRUE, "limiting")
           \/ created = 0 /\ Decide(w, "retry", FALSE, "limiting")
           \/ Decide(w, "dead_letter", FALSE, "settle")
  BY DEF Deliver
<1>3. PICK verdict \in {"accepted", "retry", "dead_letter"}, risk \in BOOLEAN,
           phase \in {"limiting", "settle"} :
        Decide(w, verdict, risk, phase) /\ (verdict = "accepted" => created = 1)
  BY <1>2
<1>4. /\ worker' \in [Workers -> WorkerStates]
      /\ \A u \in Workers \ {w} : worker'[u] = worker[u]
      /\ worker'[w].row = r /\ worker'[w].version = worker[w].version
      /\ worker'[w].attempts = worker[w].attempts
      /\ worker'[w].phase = phase /\ worker'[w].verdict = verdict
  BY <1>t, <1>3, DecideTyped
<1>5. r \in Rows
  BY <1>1 DEF IndInv, Turns
<1>6. posts \in [Rows -> Nat]
  BY <1>t DEF TypeOK
<1>7. /\ posts' \in [Rows -> Nat]
      /\ posts'[r] = posts[r] + created
      /\ \A q \in Rows \ {r} : posts'[q] = posts[q]
  BY <1>2, <1>5, <1>6, SMTT(20)
<1> HIDE DEF r
<1>8. \A q \in Rows : posts'[q] \in Nat /\ posts[q] \in Nat /\ posts'[q] >= posts[q]
  BY <1>5, <1>6, <1>7, SMTT(20)
<1>9. TypeOK'
  BY <1>1, <1>4, <1>7, <1>t DEF TypeOK
<1>10. RowInv(box')
  BY <1>1, SameBox
<1>11. Turns'
  <2> SUFFICES ASSUME NEW u \in Workers, worker'[u].phase # "idle"
               PROVE  /\ worker'[u].row \in Rows
                      /\ worker'[u].version = worker'[u].attempts
                      /\ worker'[u].attempts > 0
                      /\ box'[worker'[u].row].attempts > 0
                      /\ worker'[u].phase \in {"limiting", "settle"} => worker'[u].verdict # "none"
                      /\ worker'[u].verdict = "accepted" => posts'[worker'[u].row] > 0
    BY DEF Turns
  <2>1. CASE u = w
    <3>1. /\ worker[w].version = worker[w].attempts /\ worker[w].attempts > 0
          /\ box[r].attempts > 0
      BY <1>1 DEF IndInv, Turns, r
    <3>2. verdict = "accepted" => posts'[r] > 0
      BY <1>3, <1>5, <1>6, <1>7, SMTT(20)
    <3> QED BY <1>1, <1>4, <1>5, <2>1, <3>1, <3>2
  <2>2. CASE u # w
    <3>1. worker'[u] = worker[u] /\ box' = box
      BY <1>1, <1>4, <2>2
    <3>2. /\ worker[u].row \in Rows /\ worker[u].version = worker[u].attempts
          /\ worker[u].attempts > 0 /\ box[worker[u].row].attempts > 0
          /\ worker[u].phase \in {"limiting", "settle"} => worker[u].verdict # "none"
          /\ worker[u].verdict = "accepted" => posts[worker[u].row] > 0
      BY <3>1 DEF IndInv, Turns
    <3> QED BY <1>8, <3>1, <3>2, SMTT(20)
  <2> QED BY <2>1, <2>2
<1>12. AcceptedMeansPosted'
  BY <1>1, <1>8, SMTT(20) DEF IndInv, AcceptedMeansPosted
<1>13. PostsBounded'
  <2> SUFFICES ASSUME NEW q \in Rows
               PROVE  posts'[q] + Cardinality(Unsent(q)') <= box'[q].attempts
    BY DEF PostsBounded
  <2>1. posts[q] + Cardinality(Unsent(q)) <= box[q].attempts
    BY DEF IndInv, PostsBounded
  <2>2. CASE q = r
    <3>1. w \in Unsent(q) /\ Unsent(q)' = Unsent(q) \ {w}
      BY <1>1, <1>4, <2>2 DEF Unsent, r
    <3>2. Cardinality(Unsent(q) \ {w}) = Cardinality(Unsent(q)) - 1
      BY <1>t, <3>1, Counts, FS_RemoveElement
    <3>3. posts[q] \in Nat /\ Cardinality(Unsent(q)) \in Nat /\ box[q].attempts \in Nat
      BY <1>t, Counts
    <3>4. posts'[q] = posts[q] + created /\ box' = box
      BY <1>1, <1>7, <2>2
    <3>5. Cardinality(Unsent(q)') = Cardinality(Unsent(q)) - 1
      BY <3>1, <3>2
    <3>6. created \in Int /\ created <= 1
      BY SMTT(20)
    <3> QED BY <2>1, <3>3, <3>4, <3>5, <3>6, SMTT(20)
  <2>3. CASE q # r
    <3>1. Unsent(q)' = Unsent(q)
      BY <1>4, <2>3 DEF Unsent, r
    <3> QED BY <1>1, <1>7, <2>1, <2>3, <3>1
  <2> QED BY <2>2, <2>3
<1> QED BY <1>9, <1>10, <1>11, <1>12, <1>13 DEF IndInv

\* Rows that are only marked: by the clock, or with the bucket that was found.
LEMMA MarkedRows ==
  ASSUME IndInv, box' \in [Rows -> OutboxRows],
         \A r \in Rows : SameRow(box[r], box'[r]) /\ box'[r].state = box[r].state
  PROVE  /\ RowInv(box')
         /\ \A r \in Rows : box'[r].attempts = box[r].attempts
         /\ \A r \in Rows : box'[r].state = "accepted" => posts[r] > 0
<1>1. Unstarved(box')
  BY DEF IndInv, RowInv, Unstarved, SameRow
<1>2. \A r \in Rows : Outcome(box[r], box'[r])
  BY DEF Outcome
<1>3. RowInv(box')
  BY <1>1, <1>2, SettledRows DEF IndInv
<1> QED BY <1>3 DEF SameRow, IndInv, AcceptedMeansPosted

LEMMA PersistRateLimitKeeps ==
  ASSUME IndInv, NEW w \in Workers, PersistRateLimit(w)
  PROVE  IndInv'
<1> DEFINE k == KeyOf(worker[w].row)
<1>t. TypeOK
  BY DEF IndInv
<1>1. worker[w].phase = "limiting" /\ UNCHANGED <<stopping, posts, stops>>
  BY DEF PersistRateLimit
<1>2. CASE TurnFails(w) /\ UNCHANGED <<limits, box>>
  BY <1>1, <1>2, TurnFailsKeeps
<1>3. ASSUME NEW found \in BOOLEAN, NEW scope \in {"global", "target", "bucket"},
             NEW blocks \in BOOLEAN,
             Decide(w, worker[w].verdict, worker[w].risk, "settle"), UNCHANGED errors,
             limits' = IF ~blocks \/ Cardinality(limits) >= MaxLimits THEN limits
                       ELSE limits \cup {CASE scope = "global" -> <<"global">>
                                           [] scope = "target" -> <<"target", k>>
                                           [] OTHER -> <<"bucket", k, found>>},
             box' = [q \in Rows |-> IF /\ scope = "bucket" /\ KeyOf(q) = k
                                       /\ box[q].state \in Active \ {"leased"}
                                    THEN [box[q] EXCEPT !.bucketed = found] ELSE box[q]]
      PROVE  IndInv'
  <2>1. k \in Keys
    BY <1>1 DEF IndInv, Turns, Rows, KeyOf
  <2>2. limits' \subseteq {<<"global">>} \cup ({"target"} \X Keys) \cup ({"bucket"} \X Keys \X BOOLEAN)
    <3>1. limits \subseteq {<<"global">>} \cup ({"target"} \X Keys) \cup ({"bucket"} \X Keys \X BOOLEAN)
      BY <1>t DEF TypeOK
    <3> DEFINE lim == CASE scope = "global" -> <<"global">>
                        [] scope = "target" -> <<"target", k>>
                        [] OTHER -> <<"bucket", k, found>>
    <3>2. lim \in {<<"global">>} \cup ({"target"} \X Keys) \cup ({"bucket"} \X Keys \X BOOLEAN)
      <4> HIDE DEF k
      <4> QED BY <2>1
    <3>3. limits' \subseteq limits \cup {lim}
      BY <1>3
    <3> HIDE DEF lim
    <3> QED BY <3>1, <3>2, <3>3
  <2>3. worker[w] \in WorkerStates
    BY <1>t DEF TypeOK
  <2>4. /\ worker[w].verdict \in {"none", "accepted", "retry", "dead_letter"}
        /\ worker[w].risk \in BOOLEAN
    BY <2>3 DEF WorkerStates
  <2>5. /\ worker' \in [Workers -> WorkerStates]
        /\ \A u \in Workers \ {w} : worker'[u] = worker[u]
        /\ worker'[w].row = worker[w].row /\ worker'[w].version = worker[w].version
        /\ worker'[w].attempts = worker[w].attempts
        /\ worker'[w].phase = "settle" /\ worker'[w].verdict = worker[w].verdict
    BY <1>3, <1>t, <2>4, DecideTyped
  <2>6. ASSUME NEW q \in Rows
        PROVE  /\ box'[q] \in OutboxRows /\ SameRow(box[q], box'[q])
               /\ box'[q].state = box[q].state
    <3>1. box[q] \in OutboxRows
      BY <1>t DEF TypeOK
    <3>2. box'[q] = box[q] \/ box'[q] = [box[q] EXCEPT !.bucketed = found]
      BY <1>3
    <3>3. CASE box'[q] = box[q]
      BY <3>1, <3>3 DEF SameRow
    <3>4. CASE box'[q] = [box[q] EXCEPT !.bucketed = found]
      BY <3>1, <3>4 DEF OutboxRows, SameRow
    <3> QED BY <3>2, <3>3, <3>4
  <2>7. box' \in [Rows -> OutboxRows]
    <3>1. box' = [q \in Rows |-> box'[q]]
      BY <1>3
    <3>2. \A q \in Rows : box'[q] \in OutboxRows
      BY <2>6
    <3> QED BY <3>1, <3>2
  <2>8. TypeOK'
    BY <1>1, <1>3, <2>2, <2>5, <2>7, <1>t DEF TypeOK
  <2>9. /\ RowInv(box')
        /\ \A r \in Rows : box'[r].attempts = box[r].attempts
        /\ \A r \in Rows : box'[r].state = "accepted" => posts[r] > 0
    BY <2>6, <2>7, MarkedRows
  <2>10. worker[w].verdict # "none"
    BY <1>1 DEF IndInv, Turns
  <2>11. posts' = posts
    BY <1>1
  <2> QED BY <1>1, <2>5, <2>8, <2>9, <2>10, <2>11, TurnSteps
<1> QED BY <1>2, <1>3 DEF PersistRateLimit

LEMMA SettleKeeps ==
  ASSUME IndInv, NEW w \in Workers, Settle(w)
  PROVE  IndInv'
<1> DEFINE r == worker[w].row
<1>t. TypeOK
  BY DEF IndInv
<1>1. worker[w].phase = "settle" /\ UNCHANGED <<limits, stopping, posts, stops>>
  BY DEF Settle
<1>2. CASE TurnFails(w) /\ UNCHANGED box
  BY <1>1, <1>2, TurnFailsKeeps
<1>3. CASE /\ worker' = [worker EXCEPT ![w] = Idle] /\ UNCHANGED errors
           /\ box' = IF ~HoldsLease(w) THEN box
                     ELSE [box EXCEPT ![r] =
                             [@ EXCEPT !.state = NewState(w), !.owner = NoWorker,
                                       !.risk = worker[w].risk,
                                       !.due = NewState(w) # "retry", !.late = FALSE]]
  <2>1. /\ worker' \in [Workers -> WorkerStates]
        /\ \A u \in Workers \ {w} : worker'[u] = worker[u]
        /\ worker'[w].phase = "idle"
    BY <1>3, <1>t, IdleTyped
  <2>2. CASE ~HoldsLease(w)
    <3>1. UNCHANGED <<box, limits, stopping, posts, stops, errors>>
      BY <1>1, <1>3, <2>2
    <3>2. TypeOK'
      BY <2>1, <3>1, <1>t DEF TypeOK
    <3> QED BY <2>1, <3>1, <3>2, SameBox, TurnSteps
  <2>3. CASE HoldsLease(w)
    <3> DEFINE s == NewState(w)
               due == NewState(w) # "retry"
               risk == worker[w].risk
    <3>1. /\ r \in Rows /\ box \in [Rows -> OutboxRows] /\ box[r] \in OutboxRows
          /\ worker[w].verdict # "none" /\ worker[w] \in WorkerStates
      BY <1>1, <1>t DEF IndInv, Turns, TypeOK
    <3>2. /\ s \in {"accepted", "retry", "dead_letter"} /\ risk \in BOOLEAN /\ due \in BOOLEAN
          /\ s = "accepted" => worker[w].verdict = "accepted"
          /\ s = "retry" => ~(worker[w].attempts >= MaxAttempts)
      BY <3>1 DEF NewState, WorkerStates
    <3>3. box' = [box EXCEPT ![r] = [box[r] EXCEPT !.state = s, !.owner = NoWorker, !.risk = risk,
                                                  !.due = due, !.late = FALSE]]
      BY <1>3, <2>3
    <3>4. box[r].state = "leased" /\ box[r].version = worker[w].version
      BY <2>3 DEF HoldsLease
    <3>5. box[r].attempts = worker[w].attempts
      BY <1>1, <3>1, <3>4 DEF IndInv, RowInv, Attempts, Turns
    <3>6. s = "accepted" => posts[r] > 0
      BY <1>1, <3>2 DEF IndInv, Turns
    <3> HIDE DEF s, due, risk, r
    <3>7. box'[r] = [box[r] EXCEPT !.state = s, !.owner = NoWorker, !.risk = risk, !.due = due,
                                   !.late = FALSE]
      BY <3>1, <3>3
    <3>8. box'[r] \in OutboxRows /\ SameRow(box[r], box'[r]) /\ box'[r].state = s
      <4>1. s \in States
        BY <3>2 DEF States, Active, Terminal
      <4> QED BY <3>1, <3>2, <3>7, <4>1 DEF OutboxRows, SameRow
    <3>9. \A q \in Rows \ {r} : box'[q] = box[q]
      BY <3>1, <3>3
    <3>10. box' \in [Rows -> OutboxRows]
      <4>1. box' = [q \in Rows |-> box'[q]]
        BY <3>1, <3>3
      <4>2. \A q \in Rows : box'[q] \in OutboxRows
        BY <3>1, <3>8, <3>9
      <4> QED BY <4>1, <4>2
    <3>11. \A q \in Rows : Outcome(box[q], box'[q])
      BY <3>2, <3>4, <3>8, <3>9 DEF Outcome, SameRow
    <3>12. Unstarved(box')
      <4>1. box[r].attempts \in Nat /\ MaxAttempts \in Nat
        BY <3>1, RowTyped, OutboxAssumption
      <4>2. s \in Waiting => box'[r].attempts < MaxAttempts
        BY <3>2, <3>5, <3>8, <4>1, SMTT(20) DEF Waiting, SameRow
      <4> QED BY <3>8, <3>9, <4>2 DEF IndInv, RowInv, Unstarved
    <3>13. RowInv(box')
      BY <3>10, <3>11, <3>12, SettledRows DEF IndInv
    <3>14. TypeOK'
      BY <1>1, <1>3, <2>1, <3>10, <1>t DEF TypeOK
    <3>15. \A q \in Rows : box'[q].attempts = box[q].attempts
      BY <3>11 DEF Outcome, SameRow
    <3>16. \A q \in Rows : box'[q].state = "accepted" => posts[q] > 0
      BY <3>6, <3>8, <3>9 DEF IndInv, AcceptedMeansPosted
    <3>17. posts' = posts
      BY <1>1
    <3> QED BY <2>1, <3>13, <3>14, <3>15, <3>16, <3>17, TurnSteps
  <2> QED BY <2>2, <2>3
<1> QED BY <1>2, <1>3 DEF Settle

----------------------------------------------------------------------------
(* Time, shutdown and process end.                                         *)

LEMMA Bounds == MaxStops \in Nat /\ MaxErrors \in Nat
BY OutboxAssumption

LEMMA LeaseRunsOutKeeps ==
  ASSUME IndInv, NEW r \in Rows, LeaseRunsOut(r) \/ BecomesDue(r)
  PROVE  IndInv'
<1>t. TypeOK
  BY DEF IndInv
<1>1. /\ box' = [box EXCEPT ![r] = [@ EXCEPT !.late = TRUE]]
         \/ box' = [box EXCEPT ![r] = [@ EXCEPT !.due = TRUE]]
      /\ UNCHANGED <<limits, worker, stopping, posts, stops, errors>>
  BY DEF LeaseRunsOut, BecomesDue
<1>2. box \in [Rows -> OutboxRows] /\ box[r] \in OutboxRows
  BY <1>t DEF TypeOK
<1>3. /\ \A q \in Rows \ {r} : box'[q] = box[q]
      /\ box' = [q \in Rows |-> box'[q]]
      /\ \/ box'[r] = [box[r] EXCEPT !.late = TRUE]
         \/ box'[r] = [box[r] EXCEPT !.due = TRUE]
  BY <1>1, <1>2
<1>4. box'[r] \in OutboxRows /\ SameRow(box[r], box'[r]) /\ box'[r].state = box[r].state
  BY <1>2, <1>3 DEF OutboxRows, SameRow
<1>5. \A q \in Rows : /\ box'[q] \in OutboxRows
                      /\ SameRow(box[q], box'[q]) /\ box'[q].state = box[q].state
  BY <1>2, <1>3, <1>4 DEF SameRow
<1>6. box' \in [Rows -> OutboxRows]
  BY <1>3, <1>5
<1>7. /\ RowInv(box')
      /\ \A q \in Rows : box'[q].attempts = box[q].attempts
  BY <1>5, <1>6, MarkedRows
<1>8. TypeOK'
  BY <1>1, <1>6, <1>t DEF TypeOK
<1>9. UNCHANGED <<worker, posts>>
  BY <1>1
<1> QED BY <1>5, <1>7, <1>8, <1>9, OutboxSteps

LEMMA LimitLapsesKeeps ==
  ASSUME IndInv, LimitLapses \/ Shutdown
  PROVE  IndInv'
<1>t. TypeOK
  BY DEF IndInv
<1>1. UNCHANGED <<box, worker, posts>>
  BY DEF LimitLapses, Shutdown
<1>b. stopping \in BOOLEAN /\ stops \in 0..MaxStops /\ errors \in 0..MaxErrors
  BY <1>t DEF TypeOK
<1>2. limits' \subseteq limits /\ UNCHANGED errors
  BY DEF LimitLapses, Shutdown
<1>4. stopping' \in BOOLEAN
  BY <1>b DEF LimitLapses, Shutdown
<1>5. stops' = stops \/ (stops < MaxStops /\ stops' = stops + 1)
  BY DEF LimitLapses, Shutdown
<1>6. stops' \in 0..MaxStops
  BY <1>b, <1>5, Bounds, SMTT(20)
<1>3. TypeOK'
  BY <1>1, <1>2, <1>4, <1>6, <1>t DEF TypeOK
<1> QED BY <1>1, <1>3, SameBox, OutboxSteps

LEMMA ExitKeeps ==
  ASSUME IndInv, Exit
  PROVE  IndInv'
<1>t. TypeOK
  BY DEF IndInv
<1>1. UNCHANGED <<box, limits, posts, errors>>
  BY DEF Exit
<1>b. stopping \in BOOLEAN /\ stops \in 0..MaxStops
  BY <1>t DEF TypeOK
<1>c. /\ stopping' = FALSE
      /\ stops' = stops \/ (stops < MaxStops /\ stops' = stops + 1)
  BY DEF Exit
<1>d. stops' \in 0..MaxStops
  BY <1>b, <1>c, Bounds, SMTT(20)
<1>2. stopping' \in BOOLEAN /\ stops' \in 0..MaxStops
  BY <1>c, <1>d
<1>3. /\ worker' \in [Workers -> WorkerStates]
      /\ \A w \in Workers : worker'[w].phase = "idle"
  BY WorkerIdle DEF Exit
<1>4. TypeOK'
  BY <1>1, <1>2, <1>3, <1>t DEF TypeOK
<1>5. Turns'
  BY <1>3 DEF Turns
<1>6. AcceptedMeansPosted'
  BY <1>1 DEF IndInv, AcceptedMeansPosted
<1>7. \A r \in Rows : box'[r].attempts >= box[r].attempts /\ Unsent(r)' \subseteq Unsent(r)
  <2>1. \A r \in Rows : Unsent(r)' = {}
    BY <1>3 DEF Unsent
  <2>2. \A r \in Rows : box[r].attempts \in Nat
    BY <1>t, Counts
  <2> QED BY <1>1, <2>1, <2>2, SMTT(20)
<1>8. PostsBounded'
  BY <1>1, <1>4, <1>7, NothingSent
<1>9. RowInv(box')
  BY <1>1, SameBox
<1> QED BY <1>4, <1>5, <1>6, <1>8, <1>9 DEF IndInv

----------------------------------------------------------------------------
(* The invariant.                                                          *)

LEMMA InitHolds == Init => IndInv
<1> SUFFICES ASSUME Init
             PROVE  IndInv
  OBVIOUS
<1>1. \A r \in Rows : box[r] = Absent /\ posts[r] = 0
  BY DEF Init
<1>2. Absent \in OutboxRows
  BY OutboxAssumption, SMTT(20) DEF OutboxRows, Absent, States
<1>3. box \in [Rows -> OutboxRows]
  BY <1>2 DEF Init
<1>4. \A w \in Workers : worker[w] = Idle
  BY DEF Init
<1>5. TypeOK
  <2>1. worker \in [Workers -> WorkerStates] /\ posts \in [Rows -> Nat]
    BY WorkerIdle DEF Init
  <2>2. stopping \in BOOLEAN
    BY DEF Init
  <2>4. stops = 0 /\ errors = 0
    BY DEF Init
  <2>5. stops \in 0..MaxStops /\ errors \in 0..MaxErrors
    BY <2>4, Bounds, SMTT(20)
  <2>3. limits = {}
    BY DEF Init
  <2> QED BY <1>3, <2>1, <2>2, <2>3, <2>5 DEF TypeOK
<1>6. \A r \in Rows : /\ box[r].state = "absent" /\ ~box[r].gated
                      /\ box[r].attempts = 0 /\ box[r].version = 0
  BY <1>1, SMTT(20) DEF Absent
<1>7. RowInv(box)
  BY <1>3, <1>6, SMTT(20) DEF RowInv, Numbered, Attempts, ClaimedInTurn, Chained, Unstarved, Waiting
<1>8. Turns /\ AcceptedMeansPosted
  BY <1>4, <1>6, WorkerIdle DEF Turns, AcceptedMeansPosted
<1>9. PostsBounded
  <2> SUFFICES ASSUME NEW r \in Rows
               PROVE  posts[r] + Cardinality(Unsent(r)) <= box[r].attempts
    BY DEF PostsBounded
  <2>1. Unsent(r) = {}
    BY <1>4, WorkerIdle DEF Unsent
  <2> QED BY <1>1, <1>6, <2>1, FS_EmptySet, SMTT(20)
<1> QED BY <1>5, <1>7, <1>8, <1>9 DEF IndInv

LEMMA NextKeeps ==
  ASSUME IndInv, [Next]_vars
  PROVE  IndInv'
<1>1. CASE Produce
  BY <1>1, FanoutKeeps, SubmitFeedbackKeeps DEF Produce
<1>2. CASE \E e \in Events, success \in BOOLEAN : SettleIntent(e, success)
  BY <1>2, SettleIntentKeeps
<1>3. ASSUME NEW w \in Workers, Turn(w)
      PROVE  IndInv'
  BY <1>3, ClaimKeeps, PrepareKeeps, DeliverKeeps, PersistRateLimitKeeps, SettleKeeps DEF Turn
<1>4. CASE Tick
  BY <1>4, LimitLapsesKeeps, LeaseRunsOutKeeps DEF Tick
<1>5. CASE Shutdown
  BY <1>5, LimitLapsesKeeps
<1>6. CASE Exit
  BY <1>6, ExitKeeps
<1>7. CASE UNCHANGED vars
  <2>1. UNCHANGED <<box, limits, worker, stopping, posts, stops, errors>>
    BY <1>7 DEF vars
  <2>2. TypeOK'
    BY <2>1 DEF IndInv, TypeOK
  <2>3. UNCHANGED <<worker, posts>>
    BY <2>1
  <2> QED BY <2>1, <2>2, <2>3, SameBox, OutboxSteps
<1> QED BY <1>1, <1>2, <1>3, <1>4, <1>5, <1>6, <1>7 DEF Next

\* Producers, claims, turns, lapsing leases, shutdowns and crashes, in any order,
\* keep the outbox in the states the invariant describes.
THEOREM OutboxInductive == Spec => []IndInv
<1>1. Init => IndInv
  BY InitHolds
<1>2. IndInv /\ [Next]_vars => IndInv'
  BY NextKeeps
<1> QED BY <1>1, <1>2, PTL DEF Spec

----------------------------------------------------------------------------
(* What the invariant implies.                                             *)

\* A row that was posted was claimed.
LEMMA PostedWasClaimed ==
  ASSUME IndInv, NEW r \in Rows
  PROVE  /\ posts[r] \in Nat /\ box[r].attempts \in Nat
         /\ posts[r] > 0 => box[r].attempts > 0
<1>1. TypeOK /\ posts[r] + Cardinality(Unsent(r)) <= box[r].attempts
  BY DEF IndInv, PostsBounded
<1>2. posts[r] \in Nat /\ box[r].attempts \in Nat /\ Cardinality(Unsent(r)) \in Nat
  BY <1>1, Counts
<1> QED BY <1>1, <1>2, SMTT(20)

\* The typing of the outbox, its back-offs and its workers.
THEOREM OutboxTyped == Spec => []TypeOK
<1>1. IndInv => TypeOK
  BY DEF IndInv
<1> QED BY <1>1, OutboxInductive, PTL

\* FIFO of an ordering key, whichever worker posts and however late it answers.
THEOREM AlwaysPostedInOrder == Spec => []PostedInOrder
<1>1. IndInv => PostedInOrder
  BY PostedWasClaimed DEF IndInv, RowInv, ClaimedInTurn, Past, PostedInOrder
<1> QED BY <1>1, OutboxInductive, PTL

\* A row is posted only after the row it depends on was accepted.
THEOREM AlwaysPostedAfterDependency == Spec => []PostedAfterDependency
<1>1. IndInv => PostedAfterDependency
  BY PostedWasClaimed DEF IndInv, RowInv, ClaimedInTurn, Past, PostedAfterDependency
<1> QED BY <1>1, OutboxInductive, PTL

\* At least once: an accepted row has a message.
THEOREM AlwaysAcceptedMeansPosted == Spec => []AcceptedMeansPosted
<1>1. IndInv => AcceptedMeansPosted
  BY DEF IndInv
<1> QED BY <1>1, OutboxInductive, PTL

\* Every message of a row is paid for by one of its attempts.
THEOREM AlwaysPostsBounded == Spec => []PostsBounded
<1>1. IndInv => PostsBounded
  BY DEF IndInv
<1> QED BY <1>1, OutboxInductive, PTL

\* The durability gate: no message for a mutation that is open or was undone.
THEOREM AlwaysGatedNotPosted == Spec => []GatedNotPosted
<1>1. ASSUME IndInv, NEW r \in Rows, box[r].gated \/ box[r].state = "deleted"
      PROVE  posts[r] = 0
  <2>1. box[r].attempts = 0
    BY <1>1 DEF IndInv, RowInv, Attempts
  <2> QED BY <1>1, <2>1, PostedWasClaimed, SMTT(20)
<1>2. IndInv => GatedNotPosted
  BY <1>1 DEF GatedNotPosted
<1> QED BY <1>2, OutboxInductive, PTL

\* One lease per ordering key at a time.
THEOREM AlwaysOneLeasePerKey == Spec => []OneLeasePerKey
<1>1. ASSUME IndInv, NEW r \in Rows, NEW q \in Rows, KeyOf(r) = KeyOf(q),
             box[r].state = "leased", box[q].state = "leased"
      PROVE  r = q
  <2>1. r \in RowsOf(box, KeyOf(r)) /\ q \in RowsOf(box, KeyOf(r))
    BY <1>1 DEF RowsOf
  <2>2. Past(box, r) /\ Past(box, q)
    BY <1>1 DEF IndInv, RowInv, Attempts, ClaimedInTurn
  <2>3. ~(box[q].at < box[r].at) /\ ~(box[r].at < box[q].at)
    BY <1>1, <2>1, <2>2 DEF Past, Earlier, Active
  <2>4. box[q].at \in Nat /\ box[r].at \in Nat
    BY <1>1, RowTyped DEF IndInv, TypeOK
  <2>5. box[q].at = box[r].at
    BY <2>3, <2>4, SMTT(20)
  <2> QED BY <1>1, <2>1, <2>5 DEF IndInv, RowInv, Numbered
<1>2. IndInv => OneLeasePerKey
  BY <1>1 DEF OneLeasePerKey
<1> QED BY <1>2, OutboxInductive, PTL

\* No waiting row has used up its attempts.
THEOREM AlwaysNoneStarved == Spec => []NoneStarved
<1>1. ASSUME IndInv, NEW r \in Rows, box[r].state \in Waiting
      PROVE  ~Exhausted(box[r])
  <2>1. box[r].attempts < MaxAttempts
    BY <1>1 DEF IndInv, RowInv, Unstarved
  <2>2. box[r].attempts \in Nat /\ MaxAttempts \in Nat
    BY <1>1, RowTyped, OutboxAssumption DEF IndInv, TypeOK
  <2> QED BY <2>1, <2>2, SMTT(20) DEF Exhausted
<1>2. IndInv => NoneStarved
  BY <1>1 DEF NoneStarved
<1> QED BY <1>2, OutboxInductive, PTL

\* has_claimable_work hides nothing from the claim transaction.
THEOREM AlwaysClaimCheckComplete == Spec => []ClaimCheckComplete
<1>1. ASSUME IndInv, ~HasClaimableWork
      PROVE  Propagated(Recovered(box)) = box /\ Eligible(box) = {}
  <2>1. /\ \A r \in Rows : ~(box[r].state = "leased" /\ box[r].late)
        /\ \A r \in Rows : ~(box[r].state \in Waiting /\ Failed(box, r))
        /\ Eligible(box) = {}
    BY <1>1 DEF HasClaimableWork
  <2>2. box = [r \in Rows |-> box[r]]
    BY <1>1 DEF IndInv, TypeOK
  <2>3. Recovered(box) = box
    BY <2>1, <2>2 DEF Recovered
  <2>4. PropagateOnce(box) = box
    BY <2>1, <2>2 DEF PropagateOnce
  <2> QED BY <2>1, <2>3, <2>4 DEF Propagated
<1>2. IndInv => ClaimCheckComplete
  BY <1>1 DEF ClaimCheckComplete
<1> QED BY <1>2, OutboxInductive, PTL

\* propagate_terminal_dependencies loops until nothing changes.  The two passes of
\* Propagated are that loop: they reach the end of every chain of dependencies
\* (reply, thread, notification), and a third one would change nothing.
LEMMA PropagatedFixpoint ==
  ASSUME NEW b0, RowInv(b0), NEW r \in Rows
  PROVE  LET b2 == PropagateOnce(PropagateOnce(b0))
         IN  b2[r].state \in Waiting => ~Failed(b2, r)
<1> DEFINE b1 == PropagateOnce(b0)
           b2 == PropagateOnce(b1)
           d == b0[r].dep
           n == b0[d].dep
<1>1. /\ RowInv(b1)
      /\ \A q \in Rows :
           /\ Outcome(b0[q], b1[q])
           /\ b0[q].state \in Waiting /\ Failed(b0, q) => b1[q].state = "dead_letter"
           /\ ~(b0[q].state \in Waiting /\ Failed(b0, q)) => b1[q] = b0[q]
  BY PropagatedOnceRows
<1>2. /\ RowInv(b2)
      /\ \A q \in Rows :
           /\ Outcome(b1[q], b2[q])
           /\ b1[q].state \in Waiting /\ Failed(b1, q) => b2[q].state = "dead_letter"
           /\ ~(b1[q].state \in Waiting /\ Failed(b1, q)) => b2[q] = b1[q]
  BY <1>1, PropagatedOnceRows
<1> HIDE DEF b1, b2
<1> SUFFICES ASSUME b2[r].state \in Waiting, Failed(b2, r)
             PROVE  FALSE
  BY DEF b1, b2
<1>3. \A q \in Rows : b1[q].dep = b0[q].dep /\ b2[q].dep = b0[q].dep
  BY <1>1, <1>2, SMTT(20) DEF Outcome, SameRow
<1>4. d # NoRow /\ b2[d].state = "dead_letter" /\ d \in Rows
  BY <1>3, RowTyped DEF Failed, RowInv
<1>5. b1[r].state \in Waiting
  BY <1>2 DEF Waiting
<1>6. ~Failed(b1, r)
  BY <1>2, <1>5 DEF Waiting
<1>7. b1[d].state \in Waiting /\ Failed(b1, d)
  BY <1>2, <1>3, <1>4, <1>6 DEF Failed
<1>8. n # NoRow /\ n \in Rows /\ b1[n].state = "dead_letter"
  BY <1>3, <1>4, <1>7, RowTyped DEF Failed, RowInv
<1>9. b0[d].state \in Waiting /\ ~Failed(b0, d)
  BY <1>1, <1>4, <1>7 DEF Waiting
<1>10. b0[n].state \in Waiting /\ b0[n].dep # NoRow
  BY <1>1, <1>8, <1>9 DEF Failed
<1>11. b0[r].state # "absent"
  BY <1>1, <1>5 DEF Waiting
<1>12. KeyOf(d) \in Discussions /\ KeyOf(n) \in Discussions
  BY <1>4, <1>8, <1>9, <1>10 DEF RowInv, Chained, Waiting
<1>13. b0[d].at = 1 /\ b0[d].at # 1
  BY <1>4, <1>8, <1>9, <1>11, <1>12 DEF RowInv, Chained, Waiting
<1> QED BY <1>13

----------------------------------------------------------------------------
(* What a step may not do to a row.                                        *)

\* A final row stays; a leased row whose lease has not run out stays leased.
Held(r) ==
  /\ box[r].state \in Terminal => box'[r] = box[r]
  /\ box[r].state = "leased" /\ ~box[r].late => box'[r].state = "leased"

LEMMA ClaimHolds ==
  ASSUME IndInv, NEW w \in Workers, Claim(w), NEW r \in Rows
  PROVE  Held(r)
<1> DEFINE b == Propagated(Recovered(box))
<1>1. /\ RowInv(b)
      /\ box[r].state \in Terminal => b[r] = box[r]
      /\ box[r].state = "leased" /\ ~box[r].late => b[r] = box[r]
  BY ClaimBase DEF IndInv
<1>2. \/ box' = b
      \/ \E l \in Eligible(b) : \E x : box' = [b EXCEPT ![l] = x]
  BY DEF Claim
<1>3. \A l \in Eligible(b) : b[l].state \in Waiting
  BY DEF Eligible
<1>4. b \in [Rows -> OutboxRows]
  BY <1>1 DEF RowInv
<1> HIDE DEF b
<1>5. b[r].state \in Waiting \/ box'[r] = b[r]
  BY <1>2, <1>3, <1>4
<1>6. Waiting \cap Terminal = {} /\ "leased" \notin Waiting
  BY DEF Waiting, Terminal
<1> QED BY <1>1, <1>5, <1>6 DEF Held

LEMMA ProducersHold ==
  ASSUME IndInv, NEW r \in Rows,
         \/ Produce
         \/ \E e \in Events, success \in BOOLEAN : SettleIntent(e, success)
  PROVE  Held(r)
<1>1. ASSUME NEW dep, NEW gated, Enqueue(dep, gated)
      PROVE  Held(r)
  <2>1. box[r].state # "absent" => box'[r] = box[r]
    BY <1>1 DEF Enqueue
  <2> QED BY <2>1 DEF Held, Terminal
<1>2. ASSUME NEW e \in Events, NEW success \in BOOLEAN, SettleIntent(e, success)
      PROVE  Held(r)
  <2>1. box[r].state # "blocked" => box'[r] = box[r]
    BY <1>2 DEF SettleIntent
  <2> QED BY <2>1 DEF Held, Terminal
<1>3. Produce => \E dep, gated : Enqueue(dep, gated)
  BY DEF Produce, Fanout, SubmitFeedback
<1> QED BY <1>1, <1>2, <1>3

LEMMA TicksHold ==
  ASSUME IndInv, NEW r \in Rows, Tick \/ Shutdown \/ Exit \/ UNCHANGED vars
  PROVE  Held(r)
<1>1. box \in [Rows -> OutboxRows] /\ box[r] \in OutboxRows
  BY DEF IndInv, TypeOK
<1>2. ASSUME NEW q \in Rows, LeaseRunsOut(q)
      PROVE  Held(r)
  <2>1. box[q].state = "leased" /\ ~box[q].late /\ box' = [box EXCEPT ![q] = [@ EXCEPT !.late = TRUE]]
    BY <1>2 DEF LeaseRunsOut
  <2>2. CASE q = r
    <3>1. box'[r] = [box[r] EXCEPT !.late = TRUE]
      BY <1>1, <2>1, <2>2
    <3>2. box'[r].state = box[r].state
      BY <1>1, <3>1 DEF OutboxRows
    <3> QED BY <2>1, <2>2, <3>2 DEF Held, Terminal
  <2>3. CASE q # r
    BY <1>1, <2>1, <2>3 DEF Held
  <2> QED BY <2>2, <2>3
<1>3. ASSUME NEW q \in Rows, BecomesDue(q)
      PROVE  Held(r)
  <2>1. box[q].state = "retry" /\ box' = [box EXCEPT ![q] = [@ EXCEPT !.due = TRUE]]
    BY <1>3 DEF BecomesDue
  <2>2. q # r => box'[r] = box[r]
    BY <1>1, <2>1
  <2> QED BY <2>1, <2>2 DEF Held, Terminal
<1>4. CASE LimitLapses \/ Shutdown \/ Exit \/ UNCHANGED vars
  <2>1. UNCHANGED box
    BY <1>4 DEF LimitLapses, Shutdown, Exit, vars
  <2> QED BY <2>1 DEF Held
<1> QED BY <1>2, <1>3, <1>4 DEF Tick

\* After the claim only a settlement under its own lease moves a held row.
LEMMA TurnHolds ==
  ASSUME IndInv, NEW r \in Rows, NEW w \in Workers,
         Prepare(w) \/ Deliver(w) \/ PersistRateLimit(w) \/ Settle(w)
  PROVE  \/ Held(r)
         \/ /\ box[r].state = "leased"
            /\ worker[w].phase = "settle" /\ worker[w].row = r
            /\ HoldsLease(w) /\ worker'[w] = Idle
<1>t. box \in [Rows -> OutboxRows] /\ worker \in [Workers -> WorkerStates]
  BY DEF IndInv, TypeOK
<1>1. CASE Prepare(w) \/ Deliver(w)
  <2>1. UNCHANGED box
    BY <1>1 DEF Prepare, Deliver
  <2> QED BY <2>1 DEF Held
<1>2. CASE PersistRateLimit(w)
  <2>1. box[r].state \notin Active \ {"leased"} => box'[r] = box[r]
    BY <1>2 DEF PersistRateLimit
  <2> QED BY <2>1 DEF Held, Terminal, Active
<1>3. CASE Settle(w)
  <2>1. worker[w].phase = "settle"
    BY <1>3 DEF Settle
  <2>2. \/ UNCHANGED box
        \/ /\ HoldsLease(w) /\ worker' = [worker EXCEPT ![w] = Idle]
           /\ \E x : box' = [box EXCEPT ![worker[w].row] = x]
    BY <1>3 DEF Settle
  <2>3. CASE UNCHANGED box
    BY <2>3 DEF Held
  <2>4. CASE /\ HoldsLease(w) /\ worker' = [worker EXCEPT ![w] = Idle]
             /\ \E x : box' = [box EXCEPT ![worker[w].row] = x]
    <3>1. worker'[w] = Idle
      BY <1>t, <2>4
    <3>2. CASE worker[w].row = r
      BY <2>1, <2>4, <3>1, <3>2 DEF HoldsLease
    <3>3. CASE worker[w].row # r
      <4>1. box'[r] = box[r]
        BY <1>t, <2>4, <3>3
      <4> QED BY <4>1 DEF Held
    <3> QED BY <3>2, <3>3
  <2> QED BY <2>2, <2>3, <2>4
<1> QED BY <1>1, <1>2, <1>3

LEMMA StepHolds ==
  ASSUME IndInv, [Next]_vars, NEW r \in Rows
  PROVE  \/ Held(r)
         \/ /\ box[r].state = "leased"
            /\ \E w \in Workers : worker[w].phase = "settle" /\ worker[w].row = r
                                    /\ HoldsLease(w) /\ worker'[w] = Idle
<1>1. CASE Produce \/ \E e \in Events, success \in BOOLEAN : SettleIntent(e, success)
  BY <1>1, ProducersHold
<1>2. ASSUME NEW w \in Workers, Claim(w)
      PROVE  Held(r)
  BY <1>2, ClaimHolds
<1>3. ASSUME NEW w \in Workers, Prepare(w) \/ Deliver(w) \/ PersistRateLimit(w) \/ Settle(w)
      PROVE  \/ Held(r)
             \/ /\ box[r].state = "leased"
                /\ worker[w].phase = "settle" /\ worker[w].row = r
                /\ HoldsLease(w) /\ worker'[w] = Idle
  BY <1>3, TurnHolds
<1>4. CASE Tick \/ Shutdown \/ Exit \/ UNCHANGED vars
  BY <1>4, TicksHold
<1>5. \/ Produce \/ \E e \in Events, success \in BOOLEAN : SettleIntent(e, success)
      \/ \E w \in Workers : \/ Claim(w)
                            \/ Prepare(w) \/ Deliver(w) \/ PersistRateLimit(w) \/ Settle(w)
      \/ Tick \/ Shutdown \/ Exit \/ UNCHANGED vars
  BY DEF Next, Turn
<1> QED BY <1>1, <1>2, <1>3, <1>4, <1>5

\* accepted and dead_letter are final: no late worker, claim or producer leaves them.
THEOREM AlwaysTerminalIsFinal == Spec => TerminalIsFinal
<1>1. IndInv /\ [Next]_vars => [\A r \in Rows : box[r].state \in Terminal => box'[r] = box[r]]_vars
  BY StepHolds DEF Held, Terminal
<1> QED BY <1>1, OutboxInductive, PTL DEF Spec, TerminalIsFinal

\* The guarded UPDATE: only the holder of a lease that runs moves its row.
THEOREM AlwaysLeaseProtects == Spec => LeaseProtects
<1>1. IndInv /\ [Next]_vars =>
        [\A r \in Rows :
           box[r].state = "leased" /\ ~box[r].late /\ box'[r].state # "leased"
             => \E w \in Workers : worker[w].phase = "settle" /\ worker[w].row = r
                                     /\ HoldsLease(w) /\ worker'[w] = Idle]_vars
  BY StepHolds DEF Held
<1> QED BY <1>1, OutboxInductive, PTL DEF Spec, LeaseProtects
=============================================================================
