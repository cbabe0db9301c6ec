-------------------------- MODULE AuditLedgerProofs --------------------------
(***************************************************************************)
(* For every digest, every number of tenants and intents and every bound:  *)
(* a ledger only this program wrote verifies, is append-only, gives every  *)
(* reservation one terminal event, and retention refuses it only when a    *)
(* writer committed between the statements of its verification.  A scan    *)
(* page by page misses no event, and with collision-free digests every     *)
(* loss of a row, checkpoint or receipt is reported.                       *)
(*                                                                         *)
(* LedgerVerifies speaks of a sealed head.  The inductive invariant splits *)
(* it: the chain part (Chained) also holds for the pristine head, and the  *)
(* seal part (Sealed) is what every transaction re-establishes.            *)
(***************************************************************************)
EXTENDS AuditLedger, FiniteSetTheorems, TLAPS

\* The rows the code reads are rows of their tables.
Shape ==
  /\ head = [sequence |-> head.sequence, head_hash |-> head.head_hash,
             head_mac |-> head.head_mac, root |-> head.root]
  /\ checkpoints \in Seq({checkpoints[i] : i \in 1 .. Len(checkpoints)})
  /\ \A i \in 1 .. Len(checkpoints) : checkpoints[i].last \in Nat

\* Checkpoints, rows and head form one chain.
Chained ==
  /\ VerifyCheckpoints(checkpoints)
  /\ VerifyEvents(events, ExpectedSequence(checkpoints), Bridge(checkpoints),
                  head.sequence + 1)
  /\ head.head_hash = LinkBefore(events, head.sequence + 1, ExpectedSequence(checkpoints),
                                 Bridge(checkpoints))

\* Once sealed, the head authenticates itself and the pending receipts.
Sealed ==
  process # "down" \/ head # PristineHead => VerifyPendingReceipts(head, receipts)

\* What a retention run has read is still so, unless a writer committed since.
PruneAgrees ==
  /\ prune.at # "idle" => process = "serving"
  /\ prune.at \in {"events", "head", "receipts", "refused"} =>
       /\ prune.began \in Nat \X Nat
       /\ prune.began[1] <= head.sequence
       /\ prune.began[2] <= reserved
       /\ Commits = prune.began =>
            /\ prune.at # "refused"
            /\ prune.at = "events" => /\ prune.next = ExpectedSequence(checkpoints)
                                      /\ prune.link = Bridge(checkpoints)
            /\ prune.at \in {"head", "receipts"} => /\ prune.next = head.sequence + 1
                                                    /\ prune.link = head.head_hash
            /\ prune.at = "receipts" => prune.head = head

\* Correlations are handed out once; a pending one has no event yet.
Terminals ==
  /\ OneTerminalEvent
  /\ \A s \in DOMAIN events : events[s].content.correlation <= reserved
  /\ \A i \in Intents : receipts[i].state # "none" =>
       receipts[i].correlation \in 1 .. reserved
  /\ \A i, j \in Intents :
       /\ receipts[i].state = "pending"
       /\ receipts[j].state = "pending"
       /\ receipts[i].correlation = receipts[j].correlation
       => i = j

IndInv == TypeOK /\ Shape /\ Chained /\ Sealed /\ PruneAgrees /\ Terminals

------------------------------------------------------------------------------
(* Facts about the operators.                                              *)

\* Leaves are left to Zenon unless they name another backend.
USE ZenonT(30)

\* An interval of integers determines its end.
LEMMA IntervalEnd ==
  ASSUME NEW a \in Int, NEW m \in Int, NEW n \in Int, m >= a, n >= a,
         a .. (m - 1) = a .. (n - 1)
  PROVE  m = n
<1>1. CASE m < n
  <2>1. n - 1 \in a .. (n - 1)
    BY <1>1, SMTT(20)
  <2>2. n - 1 \notin a .. (m - 1)
    BY <1>1, SMTT(20)
  <2> QED BY <2>1, <2>2
<1>2. CASE n < m
  <2>1. m - 1 \in a .. (m - 1)
    BY <1>2, SMTT(20)
  <2>2. m - 1 \notin a .. (n - 1)
    BY <1>2, SMTT(20)
  <2> QED BY <2>1, <2>2
<1> QED BY <1>1, <1>2, SMTT(20)

\* The link a row after the last one must have.
LEMMA LinkAfter ==
  ASSUME NEW ev, NEW s \in Int, NEW x \in Int, NEW b, s >= x
  PROVE  LinkBefore(ev, s + 1, x, b) = ev[s].hash
<1>1. s + 1 # x /\ s + 1 - 1 = s
  BY SMTT(20)
<1> QED BY <1>1, SMTT(20) DEF LinkBefore

\* What one appending transaction leaves in the head, the rows and the receipts.
LEMMA AppendFacts ==
  ASSUME NEW ev, NEW content, NEW rc, AppendInTransaction(ev, content, rc)
  PROVE  LET s == head.sequence + 1
             h == Hash(s, head.head_hash, content)
             r == PendingReceiptsRoot(rc)
         IN /\ s <= MaxSequence
            /\ head' = HeadRow(s, h, r)
            /\ events' = [t \in DOMAIN ev \cup {s} |->
                            IF t = s
                            THEN [content |-> content, prev |-> head.head_hash, hash |-> h]
                            ELSE ev[t]]
            /\ receipts' = rc
<1> DEFINE h == InitializeHead(head, receipts)
<1>1. h.sequence = head.sequence /\ h.head_hash = head.head_hash
  BY DEF InitializeHead, HeadRow, PristineHead
<1>2. /\ head' = RefreshPendingReceiptsRoot(AppendedHead(h, content), rc)
      /\ NextSequence(h) <= MaxSequence
      /\ events' = [t \in DOMAIN ev \cup {NextSequence(h)} |->
                      IF t = NextSequence(h) THEN EventRow(h, content) ELSE ev[t]]
      /\ receipts' = rc
  BY DEF AppendInTransaction
<1> HIDE DEF h
<1>3. NextSequence(h) = head.sequence + 1
  BY <1>1 DEF NextSequence
<1>4. EventRow(h, content) =
        [content |-> content, prev |-> head.head_hash,
         hash |-> Hash(head.sequence + 1, head.head_hash, content)]
  BY <1>1, <1>3 DEF EventRow
<1>5. AppendedHead(h, content) =
        HeadRow(head.sequence + 1, Hash(head.sequence + 1, head.head_hash, content), h.root)
  BY <1>3, <1>4, SMTT(20) DEF AppendedHead
<1>6. head' = HeadRow(head.sequence + 1, Hash(head.sequence + 1, head.head_hash, content),
                      PendingReceiptsRoot(rc))
  <2>1. AppendedHead(h, content).sequence = head.sequence + 1
    BY <1>5, SMTT(20) DEF HeadRow
  <2>2. AppendedHead(h, content).head_hash =
          Hash(head.sequence + 1, head.head_hash, content)
    BY <1>5, SMTT(20) DEF HeadRow
  <2> QED BY <2>1, <2>2, <1>2 DEF RefreshPendingReceiptsRoot
<1> QED BY <1>2, <1>3, <1>4, <1>6

\* The checkpoint a retention run appends to the table.
LEMMA AppendCheckpoint ==
  ASSUME Shape, NEW c, checkpoints' = Append(checkpoints, c)
  PROVE  /\ Len(checkpoints) \in Nat
         /\ Len(checkpoints') = Len(checkpoints) + 1
         /\ checkpoints' # <<>>
         /\ \A i \in 1 .. Len(checkpoints) : checkpoints'[i] = checkpoints[i]
         /\ checkpoints'[Len(checkpoints) + 1] = c
         /\ checkpoints' \in Seq({checkpoints'[i] : i \in 1 .. Len(checkpoints')})
<1> DEFINE S == {checkpoints[i] : i \in 1 .. Len(checkpoints)}
           T == S \cup {c}
<1>1. checkpoints \in Seq(T)
  BY SMTT(20) DEF Shape
<1> HIDE DEF S, T
<1>2. c \in T
  BY DEF T
<1>3. /\ Len(checkpoints) \in Nat
      /\ checkpoints' \in Seq(T)
      /\ Len(checkpoints') = Len(checkpoints) + 1
      /\ \A i \in 1 .. Len(checkpoints) : checkpoints'[i] = checkpoints[i]
      /\ checkpoints'[Len(checkpoints) + 1] = c
  BY <1>1, <1>2, SMTT(20)
<1>4. checkpoints' # <<>>
  BY <1>3, SMTT(20)
<1>5. checkpoints' \in Seq({checkpoints'[i] : i \in 1 .. Len(checkpoints')})
  BY <1>3, SMTT(20)
<1> QED BY <1>3, <1>4, <1>5

\* The numbers the checkpoints give are natural, the first retained one positive.
LEMMA ExpectedNat ==
  ASSUME Shape
  PROVE  ExpectedSequence(checkpoints) \in Nat \ {0} /\ Len(checkpoints) \in Nat
<1>1. Len(checkpoints) \in Nat
  BY SMTT(20) DEF Shape
<1>2. CASE checkpoints = <<>>
  BY <1>1, <1>2, SMTT(20) DEF ExpectedSequence
<1>3. CASE checkpoints # <<>>
  <2>1. Len(checkpoints) \in 1 .. Len(checkpoints)
    BY <1>1, <1>3, SMTT(20) DEF Shape
  <2> QED BY <1>1, <1>3, <2>1, SMTT(20) DEF Shape, ExpectedSequence
<1> QED BY <1>2, <1>3

\* Appending at the end of the rows keeps the chain.
LEMMA AppendKeepsChain ==
  ASSUME IndInv, NEW content, NEW rc, AppendInTransaction(events, content, rc),
         UNCHANGED checkpoints
  PROVE  Chained'
<1> DEFINE s == head.sequence + 1
           x == ExpectedSequence(checkpoints)
           b == Bridge(checkpoints)
<1>1. /\ head'.sequence = s
      /\ head'.head_hash = Hash(s, head.head_hash, content)
      /\ events' = [t \in DOMAIN events \cup {s} |->
                      IF t = s THEN [content |-> content, prev |-> head.head_hash,
                                     hash |-> Hash(s, head.head_hash, content)]
                      ELSE events[t]]
  <2>1. head' = HeadRow(s, Hash(s, head.head_hash, content), PendingReceiptsRoot(rc))
    BY AppendFacts
  <2>2. events' = [t \in DOMAIN events \cup {s} |->
                     IF t = s THEN [content |-> content, prev |-> head.head_hash,
                                    hash |-> Hash(s, head.head_hash, content)]
                     ELSE events[t]]
    BY AppendFacts
  <2> QED BY <2>1, <2>2 DEF HeadRow
<1>2. x \in Nat \ {0} /\ head.sequence \in Nat
  BY ExpectedNat, SMTT(20) DEF IndInv, TypeOK
<1>3. /\ ExpectedSequence(checkpoints)' = x
      /\ Bridge(checkpoints)' = b
      /\ VerifyCheckpoints(checkpoints)'
  BY DEF IndInv, Chained, ExpectedSequence, Bridge, VerifyCheckpoints, PreviousCheckpoint
<1>4. /\ s >= x
      /\ DOMAIN events = x .. (s - 1)
      /\ \A t \in DOMAIN events : /\ events[t].prev = LinkBefore(events, t, x, b)
                                  /\ events[t].hash = Hash(t, events[t].prev, events[t].content)
      /\ head.head_hash = LinkBefore(events, s, x, b)
  BY <1>2 DEF IndInv, Chained, VerifyEvents
<1> HIDE DEF x, b
<1>5. DOMAIN events' = x .. s
  BY <1>1, <1>2, <1>4, SMTT(20)
<1>6. \A t \in x .. s : LinkBefore(events', t, x, b) = LinkBefore(events, t, x, b)
  BY <1>1, <1>2, <1>4, SMTT(20) DEF LinkBefore
<1>7. ASSUME NEW t \in DOMAIN events'
      PROVE  /\ events'[t].prev = LinkBefore(events', t, x, b)
             /\ events'[t].hash = Hash(t, events'[t].prev, events'[t].content)
  <2>1. CASE t = s
    BY <2>1, <1>1, <1>4, <1>5, <1>6
  <2>2. CASE t # s
    <3>1. t \in DOMAIN events /\ events'[t] = events[t]
      BY <2>2, <1>1, <1>2, <1>5
    <3> QED BY <3>1, <1>4, <1>5, <1>6, <1>7
  <2> QED BY <2>1, <2>2
<1>8. head'.head_hash = LinkBefore(events', s + 1, x, b)
  <2>1. events'[s].hash = Hash(s, head.head_hash, content)
    BY <1>1
  <2>2. LinkBefore(events', s + 1, x, b) = events'[s].hash
    <3>1. s \in Int /\ x \in Int /\ s >= x
      BY <1>2, <1>4, SMTT(20)
    <3> HIDE DEF s
    <3> QED BY <3>1, LinkAfter
  <2> QED BY <2>1, <2>2, <1>1
<1>9. s + 1 >= x /\ s + 1 - 1 = s
  BY <1>2, <1>4, SMTT(20)
<1>10. VerifyEvents(events', x, b, s + 1)
  <2>1. s \in Int /\ x \in Int
    BY <1>2, SMTT(20)
  <2>2. \A t \in DOMAIN events' :
          /\ events'[t].prev = LinkBefore(events', t, x, b)
          /\ events'[t].hash = Hash(t, events'[t].prev, events'[t].content)
    BY <1>7
  <2> HIDE DEF s
  <2> QED BY <2>1, <2>2, <1>5, <1>9, SMTT(20) DEF VerifyEvents
<1> QED
  BY <1>1, <1>3, <1>8, <1>10 DEF Chained

\* Retention replaces a prefix of the rows by a checkpoint that bridges to the rest.
LEMMA PruneKeepsChain ==
  ASSUME IndInv, NEW last \in DOMAIN events, PruneDelete(last)
  PROVE  /\ Chained'
         /\ ExpectedSequence(checkpoints') = last + 1
         /\ ExpectedSequence(checkpoints) <= last
         /\ checkpoints' \in Seq({checkpoints'[i] : i \in 1 .. Len(checkpoints')})
         /\ \A i \in 1 .. Len(checkpoints') : checkpoints'[i].last \in Nat
<1> DEFINE s == head.sequence + 1
           n == Len(checkpoints)
           x == ExpectedSequence(checkpoints)
           b == Bridge(checkpoints)
           first == CHOOSE u \in DOMAIN events : \A t \in DOMAIN events : u <= t
           prev == IF checkpoints = <<>> THEN NoHash ELSE checkpoints[Len(checkpoints)].mac
           bridge == events[last].hash
           c == [first |-> first, last |-> last, bridge |-> bridge, prev |-> prev,
                 mac |-> CheckpointMac(first, last, bridge, prev)]
           kept == [u \in {t \in DOMAIN events : t > last} |-> events[u]]
<1>1. checkpoints' = Append(checkpoints, c) /\ AppendInTransaction(kept, PruneContent, receipts)
  BY DEF PruneDelete
<1>2. /\ n \in Nat
      /\ Len(checkpoints') = n + 1
      /\ checkpoints' # <<>>
      /\ \A i \in 1 .. n : checkpoints'[i] = checkpoints[i]
      /\ checkpoints'[n + 1] = c
      /\ checkpoints' \in Seq({checkpoints'[i] : i \in 1 .. Len(checkpoints')})
  <2>1. Shape
    BY DEF IndInv
  <2> HIDE DEF c
  <2> QED BY <2>1, <1>1, AppendCheckpoint
<1>3. x \in Nat \ {0} /\ head.sequence \in Nat /\ s \in Nat
  BY ExpectedNat, SMTT(20) DEF IndInv, TypeOK
<1>4. /\ s >= x
      /\ DOMAIN events = x .. (s - 1)
      /\ \A t \in DOMAIN events : /\ events[t].prev = LinkBefore(events, t, x, b)
                                  /\ events[t].hash = Hash(t, events[t].prev, events[t].content)
      /\ head.head_hash = LinkBefore(events, s, x, b)
  BY <1>3 DEF IndInv, Chained, VerifyEvents
<1> HIDE DEF x, b
<1>5. first = x /\ last \in Nat /\ x <= last /\ last < s
  <2>1. x \in DOMAIN events /\ \A t \in DOMAIN events : x <= t
    BY <1>3, <1>4, SMTT(20)
  <2>2. first \in DOMAIN events /\ \A t \in DOMAIN events : first <= t
    BY <2>1
  <2> HIDE DEF first
  <2>3. first = x
    BY <2>1, <2>2, <1>3, <1>4, SMTT(20)
  <2> QED BY <2>3, <1>3, <1>4, SMTT(20)
<1> HIDE DEF first
<1>6. \A i \in 1 .. (n + 1) : checkpoints'[i].last \in Nat
  <2>1. \A i \in 1 .. n : checkpoints[i].last \in Nat
    BY DEF IndInv, Shape
  <2>2. c.last \in Nat
    BY <1>5
  <2> HIDE DEF c
  <2> QED BY <2>1, <2>2, <1>2, SMTT(20)
<1>7. /\ ExpectedSequence(checkpoints') = last + 1
      /\ Bridge(checkpoints') = bridge
  BY <1>2, SMTT(20) DEF ExpectedSequence, Bridge
<1>8. /\ x = IF n = 0 THEN 1 ELSE checkpoints[n].last + 1
      /\ prev = IF n = 0 THEN NoHash ELSE checkpoints[n].mac
  <2>1. checkpoints = <<>> <=> n = 0
    BY SMTT(20) DEF IndInv, Shape
  <2> QED BY <2>1 DEF x, ExpectedSequence
<1>9. VerifyCheckpoints(checkpoints')
  <2> SUFFICES ASSUME NEW i \in 1 .. (n + 1)
               PROVE  /\ checkpoints'[i].first = IF i = 1 THEN 1 ELSE checkpoints'[i - 1].last + 1
                      /\ checkpoints'[i].last >= checkpoints'[i].first
                      /\ checkpoints'[i].prev = PreviousCheckpoint(checkpoints', i)
                      /\ checkpoints'[i].mac =
                           CheckpointMac(checkpoints'[i].first, checkpoints'[i].last,
                                         checkpoints'[i].bridge, checkpoints'[i].prev)
    BY <1>2 DEF VerifyCheckpoints
  <2>1. CASE i \in 1 .. n
    <3>1. checkpoints'[i] = checkpoints[i] /\ (i # 1 => checkpoints'[i - 1] = checkpoints[i - 1])
      BY <2>1, <1>2, SMTT(20)
    <3>2. /\ checkpoints[i].first = IF i = 1 THEN 1 ELSE checkpoints[i - 1].last + 1
          /\ checkpoints[i].last >= checkpoints[i].first
          /\ checkpoints[i].prev = PreviousCheckpoint(checkpoints, i)
          /\ checkpoints[i].mac =
               CheckpointMac(checkpoints[i].first, checkpoints[i].last,
                             checkpoints[i].bridge, checkpoints[i].prev)
      BY <2>1 DEF IndInv, Chained, VerifyCheckpoints
    <3> QED BY <3>1, <3>2 DEF PreviousCheckpoint
  <2>2. CASE i = n + 1
    <3>1. /\ checkpoints'[i] = c
          /\ i = 1 <=> n = 0
          /\ i - 1 = n
          /\ i # 1 => checkpoints'[i - 1] = checkpoints[n]
      BY <2>2, <1>2, SMTT(20)
    <3>2. c.first = IF i = 1 THEN 1 ELSE checkpoints'[i - 1].last + 1
      BY <3>1, <1>5, <1>8
    <3>3. c.prev = PreviousCheckpoint(checkpoints', i)
      BY <3>1, <1>8 DEF PreviousCheckpoint
    <3>4. c.last >= c.first
      BY <1>5
    <3>5. c.mac = CheckpointMac(c.first, c.last, c.bridge, c.prev)
      OBVIOUS
    <3> HIDE DEF c
    <3> QED BY <3>1, <3>2, <3>3, <3>4, <3>5
  <2> QED BY <2>1, <2>2, <1>2, SMTT(20)
<1>10. /\ head' = HeadRow(s, Hash(s, head.head_hash, PruneContent), PendingReceiptsRoot(receipts))
       /\ events' = [t \in DOMAIN kept \cup {s} |->
                       IF t = s THEN [content |-> PruneContent, prev |-> head.head_hash,
                                      hash |-> Hash(s, head.head_hash, PruneContent)]
                       ELSE kept[t]]
  <2> HIDE DEF kept
  <2> QED BY <1>1, AppendFacts
<1>11. head'.sequence = s /\ head'.head_hash = Hash(s, head.head_hash, PruneContent)
  BY <1>10 DEF HeadRow
<1>12. /\ DOMAIN events' = (last + 1) .. s
       /\ \A t \in (last + 1) .. (s - 1) : events'[t] = events[t]
       /\ events'[s] = [content |-> PruneContent, prev |-> head.head_hash,
                        hash |-> Hash(s, head.head_hash, PruneContent)]
  <2>1. DOMAIN kept = (last + 1) .. (s - 1)
    BY <1>3, <1>4, <1>5, SMTT(20)
  <2>2. \A t \in DOMAIN kept : kept[t] = events[t]
    OBVIOUS
  <2> HIDE DEF kept, s
  <2>3. \A t \in (last + 1) .. (s - 1) : t # s
    BY <1>3, <1>5, SMTT(20)
  <2>4. DOMAIN kept \cup {s} = (last + 1) .. s
    BY <2>1, <1>3, <1>5, SMTT(20)
  <2> QED BY <1>10, <2>1, <2>2, <2>3, <2>4
<1>13. \A t \in (last + 1) .. s :
          LinkBefore(events', t, last + 1, bridge) = LinkBefore(events, t, x, b)
  <2> SUFFICES ASSUME NEW t \in (last + 1) .. s
               PROVE  LinkBefore(events', t, last + 1, bridge) = LinkBefore(events, t, x, b)
    OBVIOUS
  <2>1. CASE t = last + 1
    <3>1. LinkBefore(events, last + 1, x, b) = events[last].hash
      BY <1>3, <1>5, LinkAfter, SMTT(20)
    <3> QED BY <3>1, <2>1 DEF LinkBefore
  <2>2. CASE t # last + 1
    <3>1. t - 1 \in (last + 1) .. (s - 1) /\ t # x
      BY <2>2, <1>3, <1>5, SMTT(20)
    <3> QED BY <3>1, <2>2, <1>12 DEF LinkBefore
  <2> QED BY <2>1, <2>2
<1>14. \A t \in DOMAIN events' :
          /\ events'[t].prev = LinkBefore(events', t, last + 1, bridge)
          /\ events'[t].hash = Hash(t, events'[t].prev, events'[t].content)
  <2> SUFFICES ASSUME NEW t \in (last + 1) .. s
               PROVE  /\ events'[t].prev = LinkBefore(events', t, last + 1, bridge)
                      /\ events'[t].hash = Hash(t, events'[t].prev, events'[t].content)
    BY <1>12
  <2>1. CASE t = s
    BY <2>1, <1>4, <1>12, <1>13, SMTT(20)
  <2>2. CASE t # s
    <3>1. t \in (last + 1) .. (s - 1) /\ t \in DOMAIN events
      BY <2>2, <1>3, <1>4, <1>5, SMTT(20)
    <3> QED BY <3>1, <1>4, <1>12, <1>13
  <2> QED BY <2>1, <2>2
<1>15. head'.head_hash = LinkBefore(events', s + 1, last + 1, bridge)
  <2>1. s \in Int /\ last + 1 \in Int /\ s >= last + 1
    BY <1>3, <1>5, SMTT(20)
  <2> HIDE DEF s
  <2>2. LinkBefore(events', s + 1, last + 1, bridge) = events'[s].hash
    BY <2>1, LinkAfter
  <2> QED BY <2>2, <1>11, <1>12, SMTT(20)
<1>16. VerifyEvents(events', last + 1, bridge, s + 1)
  <2>1. s \in Int /\ last + 1 \in Int /\ s + 1 >= last + 1 /\ s + 1 - 1 = s
    BY <1>3, <1>5, SMTT(20)
  <2> HIDE DEF s
  <2> QED BY <2>1, <1>12, <1>14, SMTT(20) DEF VerifyEvents
<1> HIDE DEF s, bridge
<1>17. Chained'
  BY <1>7, <1>9, <1>11, <1>15, <1>16 DEF Chained
<1> QED BY <1>2, <1>5, <1>6, <1>7, <1>17 DEF x

------------------------------------------------------------------------------
(* The actions.                                                            *)

\* The four actions that append one event and leave the checkpoints alone.
AppendStep(content, rc) ==
  /\ AppendInTransaction(events, content, rc)
  /\ content \in Contents
  /\ content.correlation <= reserved
  /\ rc \in [Intents -> Receipts]
  /\ process # "down"
  /\ inflight' \subseteq inflight
  /\ UNCHANGED <<checkpoints, reserved, old, process, prune, scan>>

\* What Finalize, Cancel and Reconcile have in common.
TerminalStep(i, result, r) ==
  /\ AwaitsTerminalEvent(i)
  /\ r \in {NoReceipt, FinalizedReceipt(i, result)}
  /\ AppendStep(ReceiptContent(i, result), [receipts EXCEPT ![i] = r])

\* A receipt's terminal event and the receipt it leaves are rows of their tables.
LEMMA ReceiptTypes ==
  ASSUME IndInv, NEW i \in Intents, NEW result \in Results, AwaitsTerminalEvent(i)
  PROVE  /\ ReceiptContent(i, result) \in Contents
         /\ ReceiptContent(i, result).correlation \in 1 .. reserved
         /\ [receipts EXCEPT ![i] = NoReceipt] \in [Intents -> Receipts]
         /\ [receipts EXCEPT ![i] = FinalizedReceipt(i, result)] \in [Intents -> Receipts]
         /\ NoReceipt \in Receipts
         /\ FinalizedReceipt(i, result) \in Receipts
<1>1. receipts[i] \in Receipts /\ receipts \in [Intents -> Receipts] /\ head.sequence \in Nat
  BY SMTT(20) DEF IndInv, TypeOK
<1>2. receipts[i].correlation \in 1 .. reserved
  BY DEF IndInv, Terminals, AwaitsTerminalEvent
<1>3. ReceiptContent(i, result) \in Contents /\ ReceiptContent(i, result).correlation \in 1 .. reserved
  BY <1>1, <1>2, LedgerAssumption DEF ReceiptContent, Contents, Receipts
<1>4. NoReceipt \in Receipts
  BY DEF NoReceipt, Receipts, Results
<1>5. FinalizedReceipt(i, result) \in Receipts
  BY <1>1, SMTT(20) DEF FinalizedReceipt, Receipts, NextSequence
<1> QED BY <1>1, <1>3, <1>4, <1>5

\* Every step is one of six kinds.
LEMMA StepKinds ==
  ASSUME IndInv, [Next]_vars
  PROVE  \/ \E content \in Contents :
              content.correlation = 0 /\ AppendStep(content, receipts)
         \/ \E i \in Intents, result \in Results : \E r \in Receipts : TerminalStep(i, result, r)
         \/ \E i \in Intents : Reserve(i)
         \/ \E last \in DOMAIN events : PruneDelete(last)
         \/ Boot
         \/ /\ UNCHANGED <<events, head, checkpoints, receipts, reserved>>
            /\ \/ UNCHANGED <<old, process, inflight, prune>>
               \/ Serve
               \/ Crash
               \/ \E s \in DOMAIN events : Expire(s)
               \/ PruneReadCheckpoints
               \/ PruneReadEvents
               \/ PruneReadHead
               \/ PruneReadReceipts
               \/ PruneRefuse
               \/ PruneNothing
<1>0. reserved \in Nat /\ receipts \in [Intents -> Receipts] /\ {"success", "failure", "recovered"} = Results
  BY SMTT(20) DEF IndInv, TypeOK, Results
<1>1. ASSUME NEW t \in Tenants, Mutate(t)
      PROVE  \E content \in Contents : content.correlation = 0 /\ AppendStep(content, receipts)
  <2> DEFINE c == [tenant |-> t, correlation |-> 0, result |-> "success"]
  <2>1. c \in Contents /\ c.correlation = 0
    BY DEF Contents, Results
  <2>2. AppendStep(c, receipts)
    BY <1>0, <1>1, <2>1, SMTT(20) DEF Mutate, AppendStep
  <2> QED BY <2>1, <2>2
<1>2. ASSUME NEW i \in Intents, Finalize(i)
      PROVE  TerminalStep(i, "success", FinalizedReceipt(i, "success"))
             /\ FinalizedReceipt(i, "success") \in Receipts
  BY <1>0, <1>2, ReceiptTypes, SMTT(20) DEF Finalize, TerminalStep, AppendStep
<1>3. ASSUME NEW i \in Intents, Cancel(i)
      PROVE  TerminalStep(i, "failure", NoReceipt) /\ NoReceipt \in Receipts
  BY <1>0, <1>3, ReceiptTypes, SMTT(20) DEF Cancel, TerminalStep, AppendStep
<1>4. ASSUME NEW i \in Intents, NEW result \in {"recovered", "failure"}, Reconcile(i, result)
      PROVE  \E r \in Receipts : TerminalStep(i, result, r)
  <2>1. result \in Results
    BY <1>0
  <2>2. CASE result = "failure"
    <3>1. TerminalStep(i, result, NoReceipt) /\ NoReceipt \in Receipts
      BY <1>0, <1>4, <2>1, <2>2, ReceiptTypes, SMTT(20) DEF Reconcile, TerminalStep, AppendStep
    <3> QED BY <3>1
  <2>3. CASE result # "failure"
    <3>1. TerminalStep(i, result, FinalizedReceipt(i, result)) /\ FinalizedReceipt(i, result) \in Receipts
      BY <1>0, <1>4, <2>1, <2>3, ReceiptTypes, SMTT(20) DEF Reconcile, TerminalStep, AppendStep
    <3> QED BY <3>1
  <2> QED BY <2>2, <2>3
<1>5. ASSUME NEW t \in Tenants, Page(t, scan.after)
      PROVE  UNCHANGED <<events, head, checkpoints, receipts, reserved, old, process, inflight, prune>>
  BY <1>5 DEF Page
<1>6. Serve \/ Crash \/ (\E s \in DOMAIN events : Expire(s)) =>
        UNCHANGED <<events, head, checkpoints, receipts, reserved>>
  BY DEF Serve, Crash, Expire
<1>7. \/ PruneReadCheckpoints \/ PruneReadEvents \/ PruneReadHead \/ PruneReadReceipts
      \/ PruneRefuse \/ PruneNothing
      => UNCHANGED <<events, head, checkpoints, receipts, reserved>>
  BY DEF PruneReadCheckpoints, PruneReadEvents, PruneReadHead, PruneReadReceipts,
               PruneRefuse, PruneNothing, tables
<1>8. CASE UNCHANGED vars
  BY <1>8 DEF vars
<1>9. CASE Next
  BY <1>0, <1>1, <1>2, <1>3, <1>4, <1>5, <1>6, <1>7, <1>9 DEF Next
<1> QED BY <1>8, <1>9

\* Types and shapes.
LEMMA TypeStep ==
  ASSUME IndInv, [Next]_vars
  PROVE  TypeOK' /\ Shape'
<1> USE DEF IndInv, TypeOK, Shape
<1>0. MaxSequence \in Nat /\ MaxReservations \in Nat
  BY LedgerAssumption
<1>1. ASSUME NEW content \in Contents, NEW rc \in [Intents -> Receipts], AppendStep(content, rc)
      PROVE  TypeOK' /\ Shape'
  <2> DEFINE s == head.sequence + 1
  <2>1. /\ s <= MaxSequence
        /\ head' = HeadRow(s, Hash(s, head.head_hash, content), PendingReceiptsRoot(rc))
        /\ events' = [t \in DOMAIN events \cup {s} |->
                        IF t = s THEN [content |-> content, prev |-> head.head_hash,
                                       hash |-> Hash(s, head.head_hash, content)]
                        ELSE events[t]]
        /\ receipts' = rc
    BY <1>1, AppendFacts DEF AppendStep
  <2>2. head'.sequence = s /\ s \in 1 .. MaxSequence
    BY <2>1, <1>0, SMTT(20) DEF HeadRow
  <2>3. /\ DOMAIN events' = DOMAIN events \cup {s}
        /\ \A t \in DOMAIN events' : events'[t].content \in Contents
    BY <2>1
  <2>4. head' = [sequence |-> head'.sequence, head_hash |-> head'.head_hash,
                 head_mac |-> head'.head_mac, root |-> head'.root]
    BY <2>1 DEF HeadRow
  <2>5. Shape'
    BY <1>1, <2>4 DEF AppendStep
  <2>6. TypeOK'
    BY <1>1, <1>0, <2>1, <2>2, <2>3, SMTT(20) DEF AppendStep
  <2> QED BY <2>5, <2>6
<1>2. ASSUME NEW i \in Intents, Reserve(i)
      PROVE  TypeOK' /\ Shape'
  <2>1. InitializeHead(head, receipts).sequence = head.sequence
    BY DEF InitializeHead, HeadRow, PristineHead
  <2>2. head' = HeadRow(head.sequence, InitializeHead(head, receipts).head_hash,
                        PendingReceiptsRoot(receipts'))
    BY <1>2, <2>1 DEF Reserve, RefreshPendingReceiptsRoot
  <2>3. head'.sequence = head.sequence
    BY <2>2 DEF HeadRow
  <2>4. head' = [sequence |-> head'.sequence, head_hash |-> head'.head_hash,
                 head_mac |-> head'.head_mac, root |-> head'.root]
    BY <2>2 DEF HeadRow
  <2>5. Shape'
    BY <1>2, <2>4 DEF Reserve
  <2>6. receipts' \in [Intents -> Receipts] /\ reserved' \in 0 .. MaxReservations
    BY <1>0, <1>2, SMTT(20) DEF Reserve, Receipts, Results
  <2>7. TypeOK'
    BY <1>2, <2>3, <2>6 DEF Reserve
  <2> QED BY <2>5, <2>7
<1>3. ASSUME NEW last \in DOMAIN events, PruneDelete(last)
      PROVE  TypeOK' /\ Shape'
  <2> DEFINE s == head.sequence + 1
             kept == [u \in {t \in DOMAIN events : t > last} |-> events[u]]
  <2>1. /\ AppendInTransaction(kept, PruneContent, receipts)
        /\ old' = {u \in old : u > last}
        /\ prune' = IdlePrune
        /\ UNCHANGED <<reserved, process, inflight, scan>>
    BY <1>3 DEF PruneDelete
  <2>2. PruneContent \in Contents
    BY DEF PruneContent, Contents, Results
  <2>3. /\ s <= MaxSequence
        /\ head' = HeadRow(s, Hash(s, head.head_hash, PruneContent), PendingReceiptsRoot(receipts))
        /\ events' = [t \in DOMAIN kept \cup {s} |->
                        IF t = s THEN [content |-> PruneContent, prev |-> head.head_hash,
                                       hash |-> Hash(s, head.head_hash, PruneContent)]
                        ELSE kept[t]]
        /\ receipts' = receipts
    <3> HIDE DEF kept
    <3> QED BY <2>1, AppendFacts
  <2>4. head'.sequence = s /\ s \in 1 .. MaxSequence
    BY <2>3, <1>0, SMTT(20) DEF HeadRow
  <2>5. /\ DOMAIN events' = {t \in DOMAIN events : t > last} \cup {s}
        /\ \A t \in DOMAIN events' : events'[t].content \in Contents
    BY <2>2, <2>3
  <2>6. head' = [sequence |-> head'.sequence, head_hash |-> head'.head_hash,
                 head_mac |-> head'.head_mac, root |-> head'.root]
    BY <2>3 DEF HeadRow
  <2>7. Shape'
    BY <1>3, <2>6, PruneKeepsChain
  <2>8. prune'.at = "idle"
    BY <2>1 DEF IdlePrune, RetentionRun
  <2>9. head'.sequence \in 0 .. MaxSequence /\ DOMAIN events' \subseteq 1 .. head'.sequence
    BY <2>4, <2>5, SMTT(20)
  <2>10. old' \subseteq DOMAIN events'
    BY <2>1, <2>5
  <2>11. TypeOK'
    BY <2>1, <2>3, <2>5, <2>8, <2>9, <2>10
  <2> QED BY <2>7, <2>11
<1>4. ASSUME Boot
      PROVE  TypeOK' /\ Shape'
  <2>1. /\ head'.sequence = head.sequence
        /\ head' = [sequence |-> head'.sequence, head_hash |-> head'.head_hash,
                    head_mac |-> head'.head_mac, root |-> head'.root]
    BY <1>4 DEF Boot, InitializeHead, HeadRow, PristineHead
  <2> QED BY <1>4, <2>1 DEF Boot
<1>5. ASSUME UNCHANGED <<events, head, checkpoints, receipts, reserved>>,
             UNCHANGED <<old, process, inflight, prune>> \/ Serve \/ Crash
             \/ (\E s \in DOMAIN events : Expire(s))
      PROVE  TypeOK' /\ Shape'
  BY <1>5, SMTT(20) DEF Serve, Crash, Expire, IdlePrune, RetentionRun
<1>6. ASSUME UNCHANGED <<events, head, checkpoints, receipts, reserved>>,
             \/ PruneReadCheckpoints \/ PruneReadEvents \/ PruneReadHead
             \/ PruneReadReceipts \/ PruneRefuse \/ PruneNothing
      PROVE  TypeOK' /\ Shape'
  <2>1. UNCHANGED <<old, process, inflight>>
    BY <1>6 DEF PruneReadCheckpoints, PruneReadEvents, PruneReadHead, PruneReadReceipts,
                       PruneRefuse, PruneNothing, tables
  <2>2. prune'.at \in {"idle", "events", "head", "receipts", "verified", "refused"}
    BY <1>6, SMTT(20) DEF PruneReadCheckpoints, PruneReadEvents, PruneReadHead, PruneReadReceipts,
                PruneRefuse, PruneNothing, IdlePrune, RetentionRun
  <2> QED BY <1>6, <2>1, <2>2
<1>7. ASSUME NEW i \in Intents, NEW result \in Results, NEW r \in Receipts, TerminalStep(i, result, r)
      PROVE  TypeOK' /\ Shape'
  <2>1. /\ AppendStep(ReceiptContent(i, result), [receipts EXCEPT ![i] = r])
        /\ ReceiptContent(i, result) \in Contents
        /\ [receipts EXCEPT ![i] = r] \in [Intents -> Receipts]
    BY <1>7 DEF TerminalStep, AppendStep
  <2> QED BY <2>1, <1>1
<1>8. receipts \in [Intents -> Receipts]
  OBVIOUS
<1> HIDE DEF IndInv, TypeOK, Shape
<1> QED BY <1>1, <1>2, <1>3, <1>4, <1>5, <1>6, <1>7, <1>8, StepKinds

\* A reservation and the seal at start-up change no more of the head than its commitment.
LEMMA ReserveHead ==
  ASSUME NEW i \in Intents, Reserve(i)
  PROVE  head' = HeadRow(head.sequence, head.head_hash, PendingReceiptsRoot(receipts'))
<1> DEFINE h == InitializeHead(head, receipts)
<1>1. h.sequence = head.sequence /\ h.head_hash = head.head_hash
  BY DEF InitializeHead, HeadRow, PristineHead
<1>2. head' = RefreshPendingReceiptsRoot(h, receipts')
  BY DEF Reserve
<1> HIDE DEF h
<1> QED BY <1>1, <1>2 DEF RefreshPendingReceiptsRoot

\* The chain.
LEMMA ChainedStep ==
  ASSUME IndInv, [Next]_vars
  PROVE  Chained'
<1>1. ASSUME NEW content, NEW rc, AppendStep(content, rc)
      PROVE  Chained'
  BY <1>1, AppendKeepsChain DEF AppendStep
<1>2. ASSUME head'.sequence = head.sequence, head'.head_hash = head.head_hash,
             UNCHANGED <<events, checkpoints>>
      PROVE  Chained'
  BY <1>2 DEF IndInv, Chained
<1>3. ASSUME NEW i \in Intents, Reserve(i)
      PROVE  Chained'
  <2>1. head'.sequence = head.sequence /\ head'.head_hash = head.head_hash
    BY <1>3, ReserveHead, SMTT(20) DEF HeadRow
  <2> QED BY <2>1, <1>2, <1>3 DEF Reserve
<1>4. ASSUME Boot
      PROVE  Chained'
  <2>1. head'.sequence = head.sequence /\ head'.head_hash = head.head_hash
    BY <1>4 DEF Boot, InitializeHead, HeadRow, PristineHead
  <2> QED BY <2>1, <1>2, <1>4 DEF Boot
<1>5. ASSUME UNCHANGED <<events, head, checkpoints, receipts, reserved>>
      PROVE  Chained'
  BY <1>2, <1>5
<1> QED BY <1>1, <1>3, <1>4, <1>5, PruneKeepsChain, StepKinds DEF TerminalStep

\* The seal.
LEMMA SealedStep ==
  ASSUME IndInv, [Next]_vars
  PROVE  Sealed'
<1>1. ASSUME NEW s, NEW h, head' = HeadRow(s, h, PendingReceiptsRoot(receipts'))
      PROVE  Sealed'
  <2>1. VerifyPendingReceipts(head', receipts')
    BY <1>1 DEF VerifyPendingReceipts, VerifyHeadMac, HeadRow
  <2> QED BY <2>1 DEF Sealed, VerifyPendingReceipts, VerifyHeadMac, PendingReceiptsRoot, Pending
<1>2. ASSUME NEW content, NEW rc, AppendStep(content, rc)
      PROVE  Sealed'
  <2>1. /\ head' = HeadRow(head.sequence + 1, Hash(head.sequence + 1, head.head_hash, content),
                           PendingReceiptsRoot(rc))
        /\ receipts' = rc
    BY <1>2, AppendFacts DEF AppendStep
  <2> QED BY <2>1, <1>1
<1>3. ASSUME NEW i \in Intents, Reserve(i)
      PROVE  Sealed'
  BY <1>1, <1>3, ReserveHead
<1>4. ASSUME NEW last \in DOMAIN events, PruneDelete(last)
      PROVE  Sealed'
  <2> DEFINE kept == [u \in {t \in DOMAIN events : t > last} |-> events[u]]
  <2>1. AppendInTransaction(kept, PruneContent, receipts)
    BY <1>4 DEF PruneDelete
  <2> HIDE DEF kept
  <2>2. /\ head' = HeadRow(head.sequence + 1,
                           Hash(head.sequence + 1, head.head_hash, PruneContent),
                           PendingReceiptsRoot(receipts))
        /\ receipts' = receipts
    BY <2>1, AppendFacts
  <2> QED BY <2>2, <1>1
<1>5. ASSUME Boot
      PROVE  Sealed'
  BY <1>5 DEF Boot, Sealed, VerifyPendingReceipts, VerifyHeadMac, PendingReceiptsRoot, Pending
<1>6. ASSUME UNCHANGED <<events, head, checkpoints, receipts, reserved>>,
             \/ UNCHANGED <<old, process, inflight, prune>>
             \/ Serve
             \/ Crash
             \/ \E s \in DOMAIN events : Expire(s)
             \/ PruneReadCheckpoints
             \/ PruneReadEvents
             \/ PruneReadHead
             \/ PruneReadReceipts
             \/ PruneRefuse
             \/ PruneNothing
      PROVE  Sealed'
  <2>1. process' # "down" => process # "down"
    BY <1>6 DEF Serve, Crash, Expire, PruneReadCheckpoints, PruneReadEvents,
                PruneReadHead, PruneReadReceipts, PruneRefuse, PruneNothing, tables
  <2>2. Sealed
    BY DEF IndInv
  <2>3. VerifyPendingReceipts(head, receipts) => VerifyPendingReceipts(head, receipts)'
    BY <1>6 DEF VerifyPendingReceipts, VerifyHeadMac, PendingReceiptsRoot, Pending
  <2> QED BY <1>6, <2>1, <2>2, <2>3 DEF Sealed
<1> QED BY <1>2, <1>3, <1>4, <1>5, <1>6, StepKinds DEF TerminalStep

\* The reads of a retention run.
LEMMA PruneAgreesStep ==
  ASSUME IndInv, [Next]_vars
  PROVE  PruneAgrees'
<1>0. /\ head.sequence \in Nat /\ reserved \in Nat
      /\ ExpectedSequence(checkpoints) \in Nat
      /\ head.sequence <= MaxSequence /\ MaxSequence \in Nat
  BY ExpectedNat, LedgerAssumption, SMTT(20) DEF IndInv, TypeOK
<1>1. ASSUME head'.sequence \in Nat, reserved' \in Nat,
             \/ head'.sequence > head.sequence /\ reserved' = reserved
             \/ head'.sequence = head.sequence /\ reserved' > reserved,
             prune' = prune, process' = process
      PROVE  PruneAgrees'
  <2>1. prune.at \in {"events", "head", "receipts", "refused"} =>
          /\ prune.began \in Nat \X Nat
          /\ prune.began[1] <= head'.sequence
          /\ prune.began[2] <= reserved'
          /\ <<head'.sequence, reserved'>> # prune.began
    BY <1>0, <1>1, SMTT(20) DEF IndInv, PruneAgrees
  <2>2. prune.at # "idle" => process = "serving"
    BY DEF IndInv, PruneAgrees
  <2> QED BY <1>1, <2>1, <2>2 DEF PruneAgrees, Commits
<1>2. ASSUME NEW content, NEW rc, AppendStep(content, rc)
      PROVE  PruneAgrees'
  <2>1. head' = HeadRow(head.sequence + 1, Hash(head.sequence + 1, head.head_hash, content),
                        PendingReceiptsRoot(rc))
    BY <1>2, AppendFacts DEF AppendStep
  <2>2. head'.sequence = head.sequence + 1
    BY <2>1 DEF HeadRow
  <2> QED BY <1>0, <1>1, <1>2, <2>2, SMTT(20) DEF AppendStep
<1>3. ASSUME NEW i \in Intents, Reserve(i)
      PROVE  PruneAgrees'
  <2>1. head'.sequence = head.sequence
    BY <1>3, ReserveHead, SMTT(20) DEF HeadRow
  <2> QED BY <1>0, <1>1, <1>3, <2>1, SMTT(20) DEF Reserve
<1>4. ASSUME prune'.at = "idle"
      PROVE  PruneAgrees'
  BY <1>4 DEF PruneAgrees
<1>5. ASSUME Boot
      PROVE  PruneAgrees'
  BY <1>4, <1>5 DEF Boot, IndInv, PruneAgrees
<1>6. ASSUME NEW last \in DOMAIN events, PruneDelete(last)
      PROVE  PruneAgrees'
  BY <1>4, <1>6 DEF PruneDelete, IdlePrune, RetentionRun
<1>7. ASSUME Crash \/ PruneRefuse \/ PruneNothing
      PROVE  PruneAgrees'
  BY <1>4, <1>7, SMTT(20) DEF Crash, PruneRefuse, PruneNothing, IdlePrune, RetentionRun
<1>8. ASSUME UNCHANGED <<events, head, checkpoints, receipts, reserved>>, prune' = prune,
             process' = process
      PROVE  PruneAgrees'
  BY <1>8 DEF IndInv, PruneAgrees, Commits
<1>9. ASSUME UNCHANGED <<events, head, checkpoints, receipts, reserved>>, Serve
      PROVE  PruneAgrees'
  BY <1>4, <1>9 DEF Serve, IndInv, PruneAgrees
<1>10. ASSUME UNCHANGED <<events, head, checkpoints, receipts, reserved>>, PruneReadCheckpoints
       PROVE  PruneAgrees'
  <2>1. /\ prune' = RetentionRun("events", Commits, ExpectedSequence(checkpoints),
                                 Bridge(checkpoints), PristineHead)
        /\ process' = "serving"
    BY <1>10 DEF PruneReadCheckpoints, PruneIs, tables, IndInv, Chained
  <2>2. /\ prune'.at = "events" /\ prune'.began = <<head.sequence, reserved>>
        /\ prune'.next = ExpectedSequence(checkpoints)
        /\ prune'.link = Bridge(checkpoints)
    BY <2>1 DEF RetentionRun, Commits
  <2> QED BY <1>0, <1>10, <2>1, <2>2, SMTT(20) DEF PruneAgrees
<1>11. ASSUME UNCHANGED <<events, head, checkpoints, receipts, reserved>>, PruneReadEvents
       PROVE  PruneAgrees'
  <2>1. prune.at = "events" /\ process' = "serving"
    BY <1>11 DEF PruneReadEvents, PruneIs, tables
  <2>2. /\ prune.began \in Nat \X Nat
        /\ prune.began[1] <= head.sequence
        /\ prune.began[2] <= reserved
        /\ Commits = prune.began => /\ prune.next = ExpectedSequence(checkpoints)
                                    /\ prune.link = Bridge(checkpoints)
    BY <2>1 DEF IndInv, PruneAgrees
  <2>3. /\ head.sequence + 1 \in 1 .. (MaxSequence + 1)
        /\ VerifyEvents(events, ExpectedSequence(checkpoints), Bridge(checkpoints),
                        head.sequence + 1)
        /\ head.head_hash = LinkBefore(events, head.sequence + 1,
                                       ExpectedSequence(checkpoints), Bridge(checkpoints))
    BY <1>0, SMTT(20) DEF IndInv, Chained
  <2>4. ASSUME NEW next \in 1 .. (MaxSequence + 1),
               VerifyEvents(events, prune.next, prune.link, next),
               prune' = RetentionRun("head", prune.began, next,
                                     LinkBefore(events, next, prune.next, prune.link),
                                     prune.head)
        PROVE  PruneAgrees'
    <3>1. /\ prune'.at = "head" /\ prune'.began = prune.began /\ prune'.next = next
          /\ prune'.link = LinkBefore(events, next, prune.next, prune.link)
      BY <2>4 DEF RetentionRun
    <3>2. ASSUME Commits = prune.began
          PROVE  next = head.sequence + 1 /\ prune'.link = head.head_hash
      <4>1. prune.next = ExpectedSequence(checkpoints) /\ prune.link = Bridge(checkpoints)
        BY <3>2, <2>2
      <4>2. /\ next >= ExpectedSequence(checkpoints)
            /\ head.sequence + 1 >= ExpectedSequence(checkpoints)
            /\ ExpectedSequence(checkpoints) .. (next - 1) =
                 ExpectedSequence(checkpoints) .. ((head.sequence + 1) - 1)
        BY <2>3, <2>4, <4>1 DEF VerifyEvents
      <4>3. next = head.sequence + 1
        <5>1. next \in Int /\ head.sequence + 1 \in Int /\ ExpectedSequence(checkpoints) \in Int
          BY <1>0, SMTT(20)
        <5> QED BY <4>2, <5>1, IntervalEnd
      <4> QED BY <4>1, <4>3, <3>1, <2>3
    <3> QED BY <1>11, <2>1, <2>2, <3>1, <3>2 DEF PruneAgrees, Commits
  <2>5. ASSUME \A next \in 1 .. (MaxSequence + 1) :
                 ~VerifyEvents(events, prune.next, prune.link, next),
               prune' = RetentionRun("refused", prune.began, prune.next, prune.link, prune.head)
        PROVE  PruneAgrees'
    <3>1. Commits # prune.began
      BY <2>2, <2>3, <2>5
    <3>2. prune'.at = "refused" /\ prune'.began = prune.began
      BY <2>5 DEF RetentionRun
    <3> QED BY <1>11, <2>1, <2>2, <3>1, <3>2 DEF PruneAgrees, Commits
  <2> QED BY <1>11, <2>4, <2>5 DEF PruneReadEvents
<1>12. ASSUME UNCHANGED <<events, head, checkpoints, receipts, reserved>>, PruneReadHead
       PROVE  PruneAgrees'
  <2>1. /\ prune.at = "head" /\ process' = "serving"
        /\ prune' = RetentionRun("receipts", prune.began, prune.next, prune.link, head)
    BY <1>12 DEF PruneReadHead, PruneIs, tables
  <2>2. /\ prune'.at = "receipts" /\ prune'.began = prune.began /\ prune'.next = prune.next
        /\ prune'.link = prune.link /\ prune'.head = head
    BY <2>1 DEF RetentionRun
  <2> QED BY <1>12, <2>1, <2>2 DEF IndInv, PruneAgrees, Commits
<1>13. ASSUME UNCHANGED <<events, head, checkpoints, receipts, reserved>>, PruneReadReceipts
       PROVE  PruneAgrees'
  <2> DEFINE ok == VerifyChainHead(prune.head, PendingReceiptsRoot(receipts), prune.next,
                                   prune.link)
  <2>1. /\ prune.at = "receipts" /\ process = "serving" /\ process' = "serving"
        /\ prune' = RetentionRun(IF ok THEN "verified" ELSE "refused", prune.began,
                                 prune.next, prune.link, prune.head)
    BY <1>13 DEF PruneReadReceipts, PruneIs, tables
  <2>2. /\ prune.began \in Nat \X Nat
        /\ prune.began[1] <= head.sequence
        /\ prune.began[2] <= reserved
        /\ Commits = prune.began => /\ prune.next = head.sequence + 1
                                    /\ prune.link = head.head_hash
                                    /\ prune.head = head
    BY <2>1 DEF IndInv, PruneAgrees
  <2>3. VerifyPendingReceipts(head, receipts)
    BY <2>1 DEF IndInv, Sealed
  <2>4. Commits = prune.began => ok
    <3> SUFFICES ASSUME Commits = prune.began
                 PROVE  ok
      OBVIOUS
    <3>1. /\ prune.next - 1 = head.sequence
          /\ prune.link = head.head_hash
          /\ prune.head = head
      BY <1>0, <2>2, SMTT(20)
    <3> QED BY <2>3, <3>1 DEF VerifyChainHead, VerifyPendingReceipts, VerifyHeadMac
  <2> HIDE DEF ok
  <2>5. /\ prune'.at = IF ok THEN "verified" ELSE "refused"
        /\ prune'.began = prune.began
    BY <2>1 DEF RetentionRun
  <2> QED BY <1>13, <2>1, <2>2, <2>4, <2>5 DEF PruneAgrees, Commits
<1>14. ASSUME UNCHANGED <<events, head, checkpoints, receipts, reserved>>,
              NEW s \in DOMAIN events, Expire(s)
       PROVE  PruneAgrees'
  BY <1>8, <1>14 DEF Expire
<1> QED BY <1>2, <1>3, <1>5, <1>6, <1>7, <1>8, <1>9, <1>10, <1>11, <1>12, <1>13, <1>14,
           StepKinds DEF TerminalStep

\* Terminal events.
LEMMA TerminalsStep ==
  ASSUME IndInv, [Next]_vars
  PROVE  Terminals'
<1> DEFINE corr(e, u) == e[u].content.correlation
           x == ExpectedSequence(checkpoints)
           s == head.sequence + 1
<1>nat. head.sequence \in Nat /\ reserved \in Nat /\ x \in Nat
  BY ExpectedNat, SMTT(20) DEF IndInv, TypeOK
<1>dom. DOMAIN events \subseteq 1 .. head.sequence
  BY DEF IndInv, TypeOK
<1>con. \A u \in DOMAIN events : corr(events, u) \in Nat
  BY DEF IndInv, TypeOK, Contents
<1>rec. receipts \in [Intents -> Receipts]
  BY DEF IndInv, TypeOK
<1>uniq. \A u, v \in DOMAIN events :
           corr(events, u) = corr(events, v) /\ corr(events, u) # 0 => u = v
  BY DEF IndInv, Terminals, OneTerminalEvent
<1>pend. \A i \in Intents : receipts[i].state = "pending" =>
           \A u \in DOMAIN events : corr(events, u) # receipts[i].correlation
  BY DEF IndInv, Terminals, OneTerminalEvent
<1>fin. \A i \in Intents : receipts[i].state = "finalized" =>
          \/ receipts[i].event < x
          \/ /\ receipts[i].event \in DOMAIN events
             /\ events[receipts[i].event].content = ReceiptContent(i, receipts[i].result)
  BY DEF IndInv, Terminals, OneTerminalEvent
<1>low. \A u \in DOMAIN events : corr(events, u) <= reserved
  BY DEF IndInv, Terminals
<1>act. \A i \in Intents : receipts[i].state # "none" => receipts[i].correlation \in 1 .. reserved
  BY DEF IndInv, Terminals
<1>dist. \A i, j \in Intents :
           /\ receipts[i].state = "pending"
           /\ receipts[j].state = "pending"
           /\ receipts[i].correlation = receipts[j].correlation
           => i = j
  BY DEF IndInv, Terminals
<1>2. ASSUME UNCHANGED <<events, checkpoints, receipts, reserved>>
      PROVE  Terminals'
  BY <1>2 DEF IndInv, Terminals, OneTerminalEvent, ReceiptContent
<1>3. ASSUME NEW content, content.correlation = 0, AppendStep(content, receipts)
      PROVE  Terminals'
  <2>1. /\ events' = [t \in DOMAIN events \cup {s} |->
                        IF t = s THEN [content |-> content, prev |-> head.head_hash,
                                       hash |-> Hash(s, head.head_hash, content)]
                        ELSE events[t]]
        /\ receipts' = receipts /\ checkpoints' = checkpoints /\ reserved' = reserved
    <3>1. /\ AppendInTransaction(events, content, receipts)
          /\ checkpoints' = checkpoints /\ reserved' = reserved
      BY <1>3 DEF AppendStep
    <3> QED BY <3>1, AppendFacts
  <2>2. /\ DOMAIN events' = DOMAIN events \cup {s}
        /\ s \notin DOMAIN events
        /\ \A u \in DOMAIN events : events'[u] = events[u]
        /\ corr(events', s) = 0
    BY <1>nat, <1>dom, <1>3, <2>1, SMTT(20)
  <2> HIDE DEF s, x
  <2>3. ExpectedSequence(checkpoints)' = x
    BY <2>1 DEF x
  <2>5. OneTerminalEvent'
    <3>1. \A u, v \in DOMAIN events' : corr(events', u) = corr(events', v) /\ corr(events', u) # 0 => u = v
      BY <1>uniq, <2>2
    <3>2. ASSUME NEW i \in Intents, receipts'[i].state = "pending", NEW u \in DOMAIN events'
          PROVE  corr(events', u) # receipts'[i].correlation
      BY <1>nat, <1>pend, <1>act, <2>1, <2>2, <3>2, SMTT(20)
    <3>3. ASSUME NEW i \in Intents, receipts'[i].state = "finalized"
          PROVE  \/ receipts'[i].event < x
                 \/ /\ receipts'[i].event \in DOMAIN events'
                    /\ events'[receipts'[i].event].content =
                         [tenant |-> TenantOf[i], correlation |-> receipts'[i].correlation,
                          result |-> receipts'[i].result]
      <4>1. receipts'[i] = receipts[i]
        BY <2>1
      <4>2. \/ receipts[i].event < x
            \/ /\ receipts[i].event \in DOMAIN events
               /\ events[receipts[i].event].content = ReceiptContent(i, receipts[i].result)
        BY <1>fin, <3>3, <4>1
      <4>3. ReceiptContent(i, receipts[i].result) =
              [tenant |-> TenantOf[i], correlation |-> receipts[i].correlation,
               result |-> receipts[i].result]
        BY DEF ReceiptContent
      <4>4. receipts[i].event \in DOMAIN events =>
              /\ receipts[i].event \in DOMAIN events'
              /\ events'[receipts[i].event] = events[receipts[i].event]
        BY <2>2
      <4> QED BY <4>1, <4>2, <4>3, <4>4
    <3> QED BY <2>3, <3>1, <3>2, <3>3 DEF OneTerminalEvent, ReceiptContent
  <2>6. \A u \in DOMAIN events' : corr(events', u) <= reserved'
    <3> SUFFICES ASSUME NEW u \in DOMAIN events'
                 PROVE  corr(events', u) <= reserved
      BY <2>1
    <3>1. CASE u = s
      BY <1>nat, <2>2, <3>1, SMTT(20)
    <3>2. CASE u # s
      <4>1. u \in DOMAIN events /\ events'[u] = events[u]
        BY <2>2, <3>2
      <4> QED BY <1>low, <4>1
    <3> QED BY <3>1, <3>2
  <2> QED BY <1>act, <1>dist, <2>1, <2>5, <2>6 DEF Terminals
<1>4. ASSUME NEW k \in Intents, NEW result \in Results, NEW r \in Receipts, TerminalStep(k, result, r)
      PROVE  Terminals'
  <2> DEFINE c == ReceiptContent(k, result)
  <2>1. /\ events' = [t \in DOMAIN events \cup {s} |->
                        IF t = s THEN [content |-> c, prev |-> head.head_hash,
                                       hash |-> Hash(s, head.head_hash, c)]
                        ELSE events[t]]
        /\ receipts' = [receipts EXCEPT ![k] = r]
        /\ checkpoints' = checkpoints /\ reserved' = reserved
    <3> HIDE DEF c
    <3>1. AppendStep(c, [receipts EXCEPT ![k] = r])
      BY <1>4 DEF TerminalStep, c
    <3> QED BY <3>1, AppendFacts DEF AppendStep
  <2>2. receipts[k].state = "pending" /\ r \in {NoReceipt, FinalizedReceipt(k, result)}
    BY <1>4 DEF TerminalStep, AwaitsTerminalEvent
  <2>3. /\ DOMAIN events' = DOMAIN events \cup {s}
        /\ s \notin DOMAIN events
        /\ \A u \in DOMAIN events : events'[u] = events[u]
        /\ events'[s].content = c
    BY <1>nat, <1>dom, <2>1, SMTT(20)
  <2>4. /\ corr(events', s) = receipts[k].correlation
        /\ receipts[k].correlation \in 1 .. reserved
    <3>1. receipts[k].correlation \in 1 .. reserved
      BY <1>act, <2>2
    <3>2. c.correlation = receipts[k].correlation
      BY DEF ReceiptContent
    <3> HIDE DEF c
    <3> QED BY <2>3, <3>1, <3>2
  <2>5. /\ r.state # "pending"
        /\ r.state = "finalized" => /\ r.event = s
                                    /\ r.result = result
                                    /\ r.correlation = receipts[k].correlation
        /\ r.state = "none" \/ r.state = "finalized"
    BY <2>2, SMTT(20) DEF NoReceipt, FinalizedReceipt, NextSequence
  <2>6. /\ receipts'[k] = r
        /\ \A i \in Intents \ {k} : receipts'[i] = receipts[i]
    BY <1>rec, <2>1
  <2>7. ExpectedSequence(checkpoints)' = x
    <3>1. checkpoints' = checkpoints
      BY <2>1
    <3> QED BY <3>1
  <2> HIDE DEF s, x, c
  <2>8. OneTerminalEvent'
    <3>1. \A u, v \in DOMAIN events' : corr(events', u) = corr(events', v) /\ corr(events', u) # 0 => u = v
      <4> SUFFICES ASSUME NEW u \in DOMAIN events', NEW v \in DOMAIN events',
                          corr(events', u) = corr(events', v), corr(events', u) # 0
                   PROVE  u = v
        OBVIOUS
      <4>1. \A w \in DOMAIN events : corr(events', w) # corr(events', s)
        BY <1>pend, <2>2, <2>3, <2>4
      <4>2. CASE u = s \/ v = s
        BY <2>3, <4>1, <4>2
      <4>3. CASE u # s /\ v # s
        <5>1. /\ u \in DOMAIN events /\ v \in DOMAIN events
              /\ events'[u] = events[u] /\ events'[v] = events[v]
          BY <2>3, <4>3
        <5> QED BY <1>uniq, <5>1
      <4> QED BY <4>2, <4>3
    <3>2. ASSUME NEW i \in Intents, receipts'[i].state = "pending", NEW u \in DOMAIN events'
          PROVE  corr(events', u) # receipts'[i].correlation
      <4>1. i # k
        BY <3>2, <2>5, <2>6
      <4> QED BY <1>pend, <1>dist, <2>2, <2>3, <2>4, <2>6, <3>2, <4>1, SMTT(20)
    <3>3. ASSUME NEW i \in Intents, receipts'[i].state = "finalized"
          PROVE  \/ receipts'[i].event < x
                 \/ /\ receipts'[i].event \in DOMAIN events'
                    /\ events'[receipts'[i].event].content =
                         [tenant |-> TenantOf[i], correlation |-> receipts'[i].correlation,
                          result |-> receipts'[i].result]
      <4>1. CASE i = k
        BY <3>3, <4>1, <2>3, <2>5, <2>6 DEF c, ReceiptContent
      <4>2. CASE i # k
        BY <3>3, <4>2, <1>fin, <2>3, <2>6 DEF ReceiptContent
      <4> QED BY <4>1, <4>2
    <3> QED BY <2>7, <3>1, <3>2, <3>3 DEF OneTerminalEvent, ReceiptContent
  <2>9. \A u \in DOMAIN events' : corr(events', u) <= reserved'
    <3> SUFFICES ASSUME NEW u \in DOMAIN events'
                 PROVE  corr(events', u) <= reserved
      BY <2>1
    <3>1. CASE u = s
      BY <1>nat, <2>4, <3>1, SMTT(20)
    <3>2. CASE u # s
      <4>1. u \in DOMAIN events /\ events'[u] = events[u]
        BY <2>3, <3>2
      <4> QED BY <1>low, <4>1
    <3> QED BY <3>1, <3>2
  <2>10. \A i \in Intents : receipts'[i].state # "none" => receipts'[i].correlation \in 1 .. reserved'
    BY <1>act, <2>1, <2>2, <2>4, <2>5, <2>6
  <2>11. \A i, j \in Intents :
           /\ receipts'[i].state = "pending"
           /\ receipts'[j].state = "pending"
           /\ receipts'[i].correlation = receipts'[j].correlation
           => i = j
    BY <1>dist, <2>5, <2>6
  <2> QED BY <2>8, <2>9, <2>10, <2>11 DEF Terminals
<1>5. ASSUME NEW k \in Intents, Reserve(k)
      PROVE  Terminals'
  <2> DEFINE r == [state |-> "pending", correlation |-> reserved + 1, event |-> 0,
                   result |-> "success"]
  <2>1. /\ receipts' = [receipts EXCEPT ![k] = r]
        /\ events' = events /\ checkpoints' = checkpoints /\ reserved' = reserved + 1
    BY <1>5 DEF Reserve
  <2>2. /\ receipts'[k] = r
        /\ \A i \in Intents \ {k} : receipts'[i] = receipts[i]
    BY <1>rec, <2>1
  <2>3. r.state = "pending" /\ r.correlation = reserved + 1
    OBVIOUS
  <2> HIDE DEF r, x
  <2>4. \A u \in DOMAIN events : corr(events, u) # reserved + 1 /\ corr(events, u) <= reserved + 1
    BY <1>nat, <1>con, <1>low, SMTT(20)
  <2>5. \A i \in Intents \ {k} : receipts[i].state # "none" =>
          receipts[i].correlation \in 1 .. (reserved + 1) /\ receipts[i].correlation # reserved + 1
    BY <1>nat, <1>act, SMTT(20)
  <2>6. OneTerminalEvent'
    <3>1. ASSUME NEW i \in Intents, receipts'[i].state = "pending", NEW u \in DOMAIN events
          PROVE  corr(events, u) # receipts'[i].correlation
      BY <1>pend, <2>2, <2>3, <2>4, <3>1
    <3>2. ASSUME NEW i \in Intents, receipts'[i].state = "finalized"
          PROVE  \/ receipts'[i].event < x
                 \/ /\ receipts'[i].event \in DOMAIN events
                    /\ events[receipts'[i].event].content =
                         [tenant |-> TenantOf[i], correlation |-> receipts'[i].correlation,
                          result |-> receipts'[i].result]
      BY <1>fin, <2>2, <2>3, <3>2 DEF ReceiptContent
    <3> QED BY <1>uniq, <2>1, <3>1, <3>2 DEF OneTerminalEvent, ReceiptContent, x
  <2>7. \A i \in Intents : receipts'[i].state # "none" => receipts'[i].correlation \in 1 .. (reserved + 1)
    <3> SUFFICES ASSUME NEW i \in Intents, receipts'[i].state # "none"
                 PROVE  receipts'[i].correlation \in 1 .. (reserved + 1)
      OBVIOUS
    <3>1. CASE i = k
      <4>1. receipts'[i].correlation = reserved + 1
        BY <2>2, <2>3, <3>1
      <4> QED BY <1>nat, <4>1, SMTT(20)
    <3>2. CASE i # k
      BY <2>2, <2>5, <3>2
    <3> QED BY <3>1, <3>2
  <2>8. \A i, j \in Intents :
           /\ receipts'[i].state = "pending"
           /\ receipts'[j].state = "pending"
           /\ receipts'[i].correlation = receipts'[j].correlation
           => i = j
    BY <1>dist, <2>2, <2>3, <2>5
  <2> QED BY <2>1, <2>4, <2>6, <2>7, <2>8 DEF Terminals
<1>6. ASSUME NEW last \in DOMAIN events, PruneDelete(last)
      PROVE  Terminals'
  <2> DEFINE kept == [u \in {t \in DOMAIN events : t > last} |-> events[u]]
  <2>1. AppendInTransaction(kept, PruneContent, receipts) /\ reserved' = reserved
    BY <1>6 DEF PruneDelete
  <2>2. /\ events' = [t \in DOMAIN kept \cup {s} |->
                        IF t = s THEN [content |-> PruneContent, prev |-> head.head_hash,
                                       hash |-> Hash(s, head.head_hash, PruneContent)]
                        ELSE kept[t]]
        /\ receipts' = receipts
    <3> HIDE DEF kept
    <3> QED BY <2>1, AppendFacts
  <2>3. /\ DOMAIN events' = {t \in DOMAIN events : t > last} \cup {s}
        /\ \A u \in DOMAIN events' \ {s} : u \in DOMAIN events /\ u # s /\ events'[u] = events[u]
        /\ corr(events', s) = 0
    <3>1. s \notin DOMAIN events
      BY <1>nat, <1>dom, SMTT(20)
    <3> HIDE DEF s
    <3> QED BY <3>1, <2>2 DEF PruneContent
  <2>4. ExpectedSequence(checkpoints)' = last + 1 /\ x <= last /\ last \in Nat
    <3>1. ExpectedSequence(checkpoints') = last + 1 /\ x <= last
      BY <1>6, PruneKeepsChain
    <3>2. last \in Nat
      BY <1>nat, <1>dom, SMTT(20)
    <3> QED BY <3>1, <3>2
  <2> HIDE DEF s, x, kept
  <2>5. OneTerminalEvent'
    <3>1. \A u, v \in DOMAIN events' : corr(events', u) = corr(events', v) /\ corr(events', u) # 0 => u = v
      BY <1>uniq, <2>3
    <3>2. ASSUME NEW i \in Intents, receipts'[i].state = "pending", NEW u \in DOMAIN events'
          PROVE  corr(events', u) # receipts'[i].correlation
      <4>1. receipts'[i] = receipts[i]
        BY <2>2
      <4>2. CASE u = s
        <5>1. receipts[i].correlation \in 1 .. reserved
          BY <1>act, <3>2, <4>1
        <5> QED BY <1>nat, <2>3, <4>1, <4>2, <5>1, SMTT(20)
      <4>3. CASE u # s
        <5>1. u \in DOMAIN events /\ events'[u] = events[u]
          BY <2>3, <4>3
        <5>2. corr(events, u) # receipts[i].correlation
          BY <1>pend, <3>2, <4>1, <5>1
        <5> QED BY <4>1, <5>1, <5>2
      <4> QED BY <4>2, <4>3
    <3>3. ASSUME NEW i \in Intents, receipts'[i].state = "finalized"
          PROVE  \/ receipts'[i].event < last + 1
                 \/ /\ receipts'[i].event \in DOMAIN events'
                    /\ events'[receipts'[i].event].content =
                         [tenant |-> TenantOf[i], correlation |-> receipts'[i].correlation,
                          result |-> receipts'[i].result]
      <4>1. receipts[i].event \in Nat /\ receipts'[i] = receipts[i]
        BY <1>rec, <2>2 DEF Receipts
      <4>2. CASE receipts[i].event < x
        BY <1>nat, <2>4, <4>1, <4>2, SMTT(20)
      <4>3. CASE /\ receipts[i].event \in DOMAIN events
                 /\ events[receipts[i].event].content = ReceiptContent(i, receipts[i].result)
        <5>1. CASE receipts[i].event > last
          <6>1. receipts[i].event \in DOMAIN events' /\ receipts[i].event # s
            BY <4>3, <5>1, <2>3, <1>nat, <1>dom, SMTT(20) DEF s
          <6> QED BY <4>1, <4>3, <6>1, <2>3 DEF ReceiptContent
        <5>2. CASE ~(receipts[i].event > last)
          BY <4>1, <5>2, <2>4, SMTT(20)
        <5> QED BY <5>1, <5>2
      <4> QED BY <1>fin, <3>3, <4>1, <4>2, <4>3
    <3> QED BY <2>4, <3>1, <3>2, <3>3 DEF OneTerminalEvent, ReceiptContent
  <2>6. \A u \in DOMAIN events' : corr(events', u) <= reserved'
    BY <1>nat, <1>low, <2>1, <2>3, SMTT(20)
  <2> QED BY <1>act, <1>dist, <2>1, <2>2, <2>5, <2>6 DEF Terminals
<1>7. ASSUME Boot
      PROVE  Terminals'
  BY <1>2, <1>7 DEF Boot
<1> QED BY <1>2, <1>3, <1>4, <1>5, <1>6, <1>7, StepKinds

------------------------------------------------------------------------------
(* Rows come and go at the ends.                                           *)

\* What a step may do to the rows: append after the last one, delete a prefix of
\* expired ones below a new checkpoint.
AppendOnly ==
  /\ head'.sequence >= head.sequence
  /\ \A s \in DOMAIN events \cap DOMAIN events' : events'[s] = events[s]
  /\ \A s \in DOMAIN events' \ DOMAIN events : s > head.sequence
  /\ \A s \in DOMAIN events \ DOMAIN events' :
       s \in old /\ s < ExpectedSequence(checkpoints')

LEMMA AppendOnlyStep ==
  ASSUME IndInv, [Next]_vars
  PROVE  AppendOnly
<1> USE DEF AppendOnly
<1> DEFINE n == head.sequence + 1
<1>0. head.sequence \in Nat /\ DOMAIN events \subseteq 1 .. head.sequence
  BY SMTT(20) DEF IndInv, TypeOK
<1>1. ASSUME NEW content, NEW rc, AppendStep(content, rc)
      PROVE  AppendOnly
  <2>0. AppendInTransaction(events, content, rc)
    BY <1>1 DEF AppendStep
  <2>1. events' = [t \in DOMAIN events \cup {n} |->
                     IF t = n THEN [content |-> content, prev |-> head.head_hash,
                                    hash |-> Hash(n, head.head_hash, content)]
                     ELSE events[t]]
    BY <2>0, AppendFacts
  <2>2. head'.sequence = n
    <3>1. head' = HeadRow(n, Hash(n, head.head_hash, content), PendingReceiptsRoot(rc))
      BY <2>0, AppendFacts
    <3> QED BY <3>1 DEF HeadRow
  <2>3. DOMAIN events' = DOMAIN events \cup {n} /\ n \notin DOMAIN events
    BY <1>0, <2>1, SMTT(20)
  <2>4. \A t \in DOMAIN events : events'[t] = events[t]
    BY <2>1, <2>3
  <2> QED BY <1>0, <2>2, <2>3, <2>4, SMTT(20)
<1>2. ASSUME NEW last \in DOMAIN events, PruneDelete(last)
      PROVE  AppendOnly
  <2> DEFINE kept == [u \in {t \in DOMAIN events : t > last} |-> events[u]]
  <2>1. /\ AppendInTransaction(kept, PruneContent, receipts)
        /\ \A t \in DOMAIN events : t <= last => t \in old
    BY <1>2 DEF PruneDelete, ExpiredPrefix
  <2>2. /\ head' = HeadRow(n, Hash(n, head.head_hash, PruneContent),
                           PendingReceiptsRoot(receipts))
        /\ events' = [t \in DOMAIN kept \cup {n} |->
                        IF t = n THEN [content |-> PruneContent, prev |-> head.head_hash,
                                       hash |-> Hash(n, head.head_hash, PruneContent)]
                        ELSE kept[t]]
    <3> HIDE DEF kept
    <3> QED BY <2>1, AppendFacts
  <2>3. head'.sequence = n
    BY <2>2 DEF HeadRow
  <2>4. ExpectedSequence(checkpoints') = last + 1
    BY <1>2, PruneKeepsChain
  <2>5. /\ DOMAIN kept = {t \in DOMAIN events : t > last}
        /\ \A t \in DOMAIN kept : kept[t] = events[t]
        /\ n \notin DOMAIN events
    BY <1>0, SMTT(20)
  <2> HIDE DEF kept
  <2>6. /\ DOMAIN events' = DOMAIN kept \cup {n}
        /\ \A t \in DOMAIN kept \ {n} : events'[t] = kept[t]
    BY <2>2
  <2> HIDE DEF n
  <2>7. \A t \in DOMAIN events \cap DOMAIN events' : events'[t] = events[t]
    BY <2>5, <2>6
  <2>8. \A t \in DOMAIN events' \ DOMAIN events : t > head.sequence
    BY <1>0, <2>5, <2>6, SMTT(20) DEF n
  <2>9. \A t \in DOMAIN events \ DOMAIN events' : t \in Nat /\ t <= last
    BY <1>0, <2>5, <2>6, SMTT(20)
  <2>10. head'.sequence >= head.sequence
    BY <1>0, <2>3, SMTT(20) DEF n
  <2>11. \A t \in DOMAIN events \ DOMAIN events' : t < ExpectedSequence(checkpoints')
    <3>1. last \in Nat
      BY <1>0, SMTT(20)
    <3> QED BY <2>4, <2>9, <3>1, SMTT(20)
  <2> QED BY <2>1, <2>7, <2>8, <2>9, <2>10, <2>11
<1>3. ASSUME events' = events, head'.sequence = head.sequence
      PROVE  AppendOnly
  BY <1>0, <1>3, SMTT(20)
<1>4. ASSUME NEW i \in Intents, Reserve(i)
      PROVE  AppendOnly
  <2>1. head'.sequence = head.sequence
    BY <1>4, ReserveHead, SMTT(20) DEF HeadRow
  <2> QED BY <1>3, <1>4, <2>1 DEF Reserve
<1>5. ASSUME Boot
      PROVE  AppendOnly
  <2>1. head'.sequence = head.sequence
    BY <1>5 DEF Boot, InitializeHead, HeadRow, PristineHead
  <2> QED BY <1>3, <1>5, <2>1 DEF Boot
<1> HIDE DEF AppendOnly
<1> QED BY <1>1, <1>2, <1>3, <1>4, <1>5, StepKinds DEF TerminalStep

------------------------------------------------------------------------------
(* Paging.                                                                 *)

\* A set of sequence numbers has a first one.
LEMMA LeastOf ==
  ASSUME NEW T \in SUBSET Nat, T # {}
  PROVE  \E m \in T : \A s \in T : m <= s
<1>1. PICK R : R = OpToRel(<, Nat)
  OBVIOUS
<1>2. IsWellFoundedOn(R, Nat)
  BY <1>1, NatLessThanWellFounded
<1>3. PICK m \in T : \A s \in T : ~(<<s, m>> \in R)
  BY <1>2, WFMin
<1>4. R = {ss \in Nat \X Nat : ss[1] < ss[2]}
  BY <1>1 DEF OpToRel
<1>5. \A s \in T : ~(s < m)
  BY <1>3, <1>4
<1>6. \A s \in T : m <= s
  BY <1>5, SMTT(20)
<1> QED BY <1>6

\* A bounded one has a last one.
LEMMA GreatestOf ==
  ASSUME NEW n \in Nat, NEW T \in SUBSET (0 .. n), T # {}
  PROVE  \E m \in T : \A s \in T : s <= m
<1> DEFINE D == {d \in Nat : \E s \in T : d = n - s}
<1>1. D \in SUBSET Nat /\ D # {}
  <2>1. PICK s \in T : TRUE
    OBVIOUS
  <2>2. n - s \in D
    BY <2>1, SMTT(20)
  <2> QED BY <2>2
<1>2. PICK d \in D : \A e \in D : d <= e
  BY <1>1, LeastOf
<1>3. PICK m \in T : d = n - m
  OBVIOUS
<1>4. \A s \in T : n - s \in D
  BY SMTT(20)
<1>5. \A s \in T : n - m <= n - s
  BY <1>2, <1>3, <1>4
<1>6. \A s \in T : s <= m
  BY <1>5, SMTT(20)
<1> QED BY <1>6

\* When there is more than a page shows, its cursor is a row of the page, the last
\* one, and the page shows every row up to it.
LEMMA PageFacts ==
  ASSUME IndInv, NEW t, NEW from \in Nat, RowsAfter(t, from) # PageRows(t, from)
  PROVE  /\ CursorOf(t, from) \in 1 .. head.sequence
         /\ \A s \in RowsAfter(t, from) : s <= CursorOf(t, from) => s \in PageRows(t, from)
<1> DEFINE R == RowsAfter(t, from)
           P == PageRows(t, from)
           upTo(s) == {r \in R : r <= s}
<1>0. head.sequence \in Nat /\ DOMAIN events \subseteq 1 .. head.sequence
      /\ PageLimit \in Nat /\ PageLimit >= 1
  BY LedgerAssumption, SMTT(20) DEF IndInv, TypeOK
<1>1. \A s \in R : s \in 1 .. head.sequence
  BY <1>0 DEF RowsAfter
<1>2. P = {s \in R : Cardinality(upTo(s)) <= PageLimit}
  BY DEF PageRows
<1> HIDE DEF R, P
<1>3. IsFiniteSet(R)
  <2>1. IsFiniteSet(1 .. head.sequence)
    BY <1>0, FS_Interval, SMTT(20)
  <2> QED BY <1>1, <2>1, FS_Subset
<1>4. \A s \in R : IsFiniteSet(upTo(s)) /\ Cardinality(upTo(s)) \in Nat
  BY <1>3, FS_Subset, FS_CardinalityType
<1>5. R # {} /\ R \in SUBSET Nat
  <2>1. R # {}
    BY <1>2 DEF R, P
  <2> QED BY <1>0, <1>1, <2>1, SMTT(20)
<1>6. PICK m \in R : \A s \in R : m <= s
  BY <1>5, LeastOf
<1>7. m \in P
  <2>1. \A s \in R : s <= m <=> s = m
    BY <1>0, <1>1, <1>6, SMTT(20)
  <2>2. upTo(m) = {m}
    BY <2>1
  <2>3. Cardinality(upTo(m)) = 1
    BY <2>2, FS_Singleton
  <2>4. Cardinality(upTo(m)) <= PageLimit
    BY <1>0, <2>3
  <2> QED BY <1>2, <2>4
<1>8. P \in SUBSET (0 .. head.sequence) /\ P # {}
  <2>1. \A s \in R : s \in 0 .. head.sequence
    BY <1>0, <1>1, SMTT(20)
  <2> QED BY <1>2, <1>7, <2>1
<1>9. \E c \in P : \A r \in P : r <= c
  BY <1>0, <1>8, GreatestOf
<1>10. PICK c : c = CursorOf(t, from)
  OBVIOUS
<1>11. c \in P /\ \A r \in P : r <= c
  BY <1>9, <1>10 DEF CursorOf, P
<1>12. c \in 1 .. head.sequence
  BY <1>1, <1>2, <1>11
<1>13. ASSUME NEW s \in R, s <= c
       PROVE  s \in P
  <2>1. c \in R /\ Cardinality(upTo(c)) <= PageLimit
    BY <1>2, <1>11
  <2>0. \A r \in R : r <= s => r <= c
    BY <1>0, <1>1, <1>13, <2>1, SMTT(20)
  <2>2. upTo(s) \in SUBSET upTo(c)
    BY <2>0
  <2>3. Cardinality(upTo(s)) <= Cardinality(upTo(c))
    BY <1>4, <2>1, <2>2, FS_Subset
  <2>4. Cardinality(upTo(s)) \in Nat /\ Cardinality(upTo(c)) \in Nat
    BY <1>4, <2>1
  <2>5. Cardinality(upTo(s)) <= PageLimit
    BY <1>0, <2>1, <2>3, <2>4, SMTT(20)
  <2> QED BY <1>2, <2>5
<1> QED BY <1>10, <1>12, <1>13 DEF R, P

\* The client's cursor is where its answers reach, and they do not reach beyond the
\* rows there were.
ScanInv ==
  /\ scan.after \in Nat /\ scan.upto \in Nat
  /\ scan.upto <= head.sequence
  /\ scan.after # 0 => scan.after = scan.upto
  /\ ScanComplete

\* A page shows all it claims, on top of what the pages before it showed.
LEMMA PageKeepsScan ==
  ASSUME IndInv, ScanInv, NEW t \in Tenants, Page(t, scan.after)
  PROVE  ScanInv'
<1> DEFINE from == scan.after
           more == RowsAfter(t, from) # PageRows(t, from)
<1>0. head.sequence \in Nat /\ DOMAIN events \subseteq 1 .. head.sequence /\ from \in Nat
  BY SMTT(20) DEF IndInv, TypeOK, ScanInv
<1>1. /\ scan = NoScan \/ (scan.tenant = t /\ from # 0)
      /\ scan'.tenant = t
      /\ scan'.after = IF more THEN CursorOf(t, from) ELSE 0
      /\ scan'.upto = IF more THEN CursorOf(t, from) ELSE head.sequence
      /\ scan'.seen = scan.seen \cup PageRows(t, from)
      /\ events' = events /\ head' = head
  BY DEF Page
<1> HIDE DEF more
<1>2. more => /\ CursorOf(t, from) \in 1 .. head.sequence
              /\ \A s \in RowsAfter(t, from) : s <= CursorOf(t, from) => s \in PageRows(t, from)
  BY <1>0, PageFacts DEF more
<1>3. scan'.after \in Nat /\ scan'.upto \in Nat /\ scan'.upto <= head'.sequence
      /\ (scan'.after # 0 => scan'.after = scan'.upto)
  BY <1>0, <1>1, <1>2, SMTT(20)
<1>4. ASSUME NEW s \in DOMAIN events, events[s].content.tenant = t, s <= scan'.upto
      PROVE  s \in scan'.seen
  <2>0. s \in Nat /\ s # 0
    BY <1>0, SMTT(20)
  <2>1. CASE s <= from
    <3>1. from # 0
      BY <2>0, <2>1, SMTT(20)
    <3>2. scan.tenant = t /\ from = scan.upto
      BY <1>1, <3>1, SMTT(20) DEF NoScan, ScanInv
    <3> QED BY <1>1, <1>4, <2>1, <3>2 DEF ScanInv, ScanComplete
  <2>2. CASE ~(s <= from)
    <3>1. s \in RowsAfter(t, from)
      BY <1>0, <1>4, <2>0, <2>2, SMTT(20) DEF RowsAfter
    <3>2. s \in PageRows(t, from)
      BY <1>1, <1>2, <1>4, <3>1 DEF more
    <3> QED BY <1>1, <3>2
  <2> QED BY <2>1, <2>2
<1>5. ScanComplete'
  BY <1>1, <1>4 DEF ScanComplete
<1> QED BY <1>3, <1>5 DEF ScanInv

\* Between two pages: rows appended meanwhile are beyond the client's cursor.
LEMMA OthersKeepScan ==
  ASSUME IndInv, ScanInv, AppendOnly, UNCHANGED scan, TypeOK'
  PROVE  ScanInv'
<1>0. /\ head.sequence \in Nat /\ scan.upto \in Nat /\ head'.sequence \in Nat
      /\ DOMAIN events' \subseteq Nat
  BY SMTT(20) DEF IndInv, TypeOK, ScanInv
<1>1. scan.upto <= head'.sequence
  BY <1>0, SMTT(20) DEF ScanInv, AppendOnly
<1>2. ASSUME NEW s \in DOMAIN events', events'[s].content.tenant = scan.tenant, s <= scan.upto
      PROVE  s \in scan.seen
  <2>1. CASE s \in DOMAIN events
    <3>1. events'[s] = events[s]
      BY <2>1 DEF AppendOnly
    <3> QED BY <1>2, <2>1, <3>1 DEF ScanInv, ScanComplete
  <2>2. CASE s \notin DOMAIN events
    <3>1. s > head.sequence
      BY <2>2 DEF AppendOnly
    <3>2. scan.upto <= head.sequence
      BY DEF ScanInv
    <3>3. s \in Nat
      BY <1>0
    <3> QED BY <1>0, <1>2, <3>1, <3>2, <3>3, SMTT(20)
  <2> QED BY <2>1, <2>2
<1> QED BY <1>1, <1>2 DEF ScanInv, ScanComplete

LEMMA ScanStep ==
  ASSUME IndInv, IndInv', ScanInv, [Next]_vars
  PROVE  ScanInv'
<1>1. AppendOnly
  BY AppendOnlyStep
<1>2. TypeOK'
  BY DEF IndInv
<1>3. CASE \E t \in Tenants : Page(t, scan.after)
  BY <1>3, PageKeepsScan
<1>4. CASE UNCHANGED scan
  BY <1>1, <1>2, <1>4, OthersKeepScan
<1>5. ASSUME [Next]_vars, ~\E t \in Tenants : Page(t, scan.after)
      PROVE  UNCHANGED scan
  <2>1. CASE UNCHANGED vars
    BY <2>1 DEF vars
  <2>2. CASE Boot \/ Serve \/ Crash \/ \E s \in DOMAIN events : Expire(s)
    BY <2>2 DEF Boot, Serve, Crash, Expire
  <2>3. CASE \/ \E t \in Tenants : Mutate(t)
             \/ \E i \in Intents : Reserve(i)
             \/ \E i \in Intents : Finalize(i)
             \/ \E i \in Intents : Cancel(i)
             \/ \E i \in Intents : \E result \in {"recovered", "failure"} : Reconcile(i, result)
    BY <2>3 DEF Mutate, Reserve, Finalize, Cancel, Reconcile
  <2>4. CASE \/ PruneReadCheckpoints \/ PruneReadEvents \/ PruneReadHead \/ PruneReadReceipts
             \/ PruneRefuse \/ PruneNothing
    BY <2>4 DEF PruneReadCheckpoints, PruneReadEvents, PruneReadHead, PruneReadReceipts,
                       PruneRefuse, PruneNothing, tables
  <2>5. CASE \E last \in DOMAIN events : PruneDelete(last)
    BY <2>5 DEF PruneDelete
  <2> QED BY <1>5, <2>1, <2>2, <2>3, <2>4, <2>5 DEF Next
<1> QED BY <1>3, <1>4, <1>5

------------------------------------------------------------------------------
(* Tampering.                                                              *)

\* Every row has the three columns append_in_transaction writes.
RowShape ==
  \A s \in DOMAIN events :
    events[s] = [content |-> events[s].content, prev |-> events[s].prev, hash |-> events[s].hash]

\* What the digests have to be: no two contents of one row, and no two sets of
\* pending receipts, share one.
CollisionFree ==
  /\ \A s \in Nat, c, d \in Contents : \A p : Hash(s, p, c) = Hash(s, p, d) => c = d
  /\ \A P, Q \in SUBSET (Intents \X Nat) : RootHash(P) = RootHash(Q) => P = Q

LEMMA AppendedRows ==
  ASSUME NEW ev, NEW content, NEW rc, AppendInTransaction(ev, content, rc)
  PROVE  events' = [t \in DOMAIN ev \cup {head.sequence + 1} |->
                     IF t = head.sequence + 1
                     THEN [content |-> content, prev |-> head.head_hash,
                           hash |-> Hash(head.sequence + 1, head.head_hash, content)]
                     ELSE ev[t]]
BY AppendFacts

\* The rows a transaction leaves are old rows and the appended one.
LEMMA AppendedRowShape ==
  ASSUME RowShape,
         \A t \in DOMAIN events' :
           \/ t \in DOMAIN events /\ events'[t] = events[t]
           \/ \E c, p, h : events'[t] = [content |-> c, prev |-> p, hash |-> h]
  PROVE  RowShape'
<1>1. ASSUME NEW t \in DOMAIN events'
      PROVE  events'[t] = [content |-> events'[t].content, prev |-> events'[t].prev,
                           hash |-> events'[t].hash]
  <2>1. CASE \E c, p, h : events'[t] = [content |-> c, prev |-> p, hash |-> h]
    BY <2>1
  <2>2. CASE t \in DOMAIN events /\ events'[t] = events[t]
    BY <2>2 DEF RowShape
  <2> QED BY <1>1, <2>1, <2>2
<1> QED BY <1>1 DEF RowShape

LEMMA RowShapeStep ==
  ASSUME IndInv, RowShape, [Next]_vars
  PROVE  RowShape'
<1>0. ASSUME NEW ev, NEW content, NEW rc, AppendInTransaction(ev, content, rc)
      PROVE  \A t \in DOMAIN events' :
               \/ t \in DOMAIN ev /\ events'[t] = ev[t]
               \/ \E c, p, h : events'[t] = [content |-> c, prev |-> p, hash |-> h]
  <2>1. PICK n, hash :
          events' = [t \in DOMAIN ev \cup {n} |->
                      IF t = n THEN [content |-> content, prev |-> head.head_hash, hash |-> hash]
                      ELSE ev[t]]
    <3>1. events' = [t \in DOMAIN ev \cup {head.sequence + 1} |->
                      IF t = head.sequence + 1
                      THEN [content |-> content, prev |-> head.head_hash,
                            hash |-> Hash(head.sequence + 1, head.head_hash, content)]
                      ELSE ev[t]]
      BY <1>0, AppendedRows
    <3> QED BY <3>1
  <2>2. DOMAIN events' = DOMAIN ev \cup {n}
    BY <2>1
  <2>3. ASSUME NEW t \in DOMAIN events', t # n
        PROVE  t \in DOMAIN ev /\ events'[t] = ev[t]
    BY <2>1, <2>2, <2>3
  <2>4. events'[n] = [content |-> content, prev |-> head.head_hash, hash |-> hash]
    BY <2>1, <2>2
  <2> QED BY <2>3, <2>4
<1>1. ASSUME NEW content, NEW rc, AppendStep(content, rc)
      PROVE  RowShape'
  BY <1>0, <1>1, AppendedRowShape DEF AppendStep
<1>2. ASSUME NEW last \in DOMAIN events, PruneDelete(last)
      PROVE  RowShape'
  <2> DEFINE kept == [u \in {t \in DOMAIN events : t > last} |-> events[u]]
  <2>1. AppendInTransaction(kept, PruneContent, receipts)
    BY <1>2 DEF PruneDelete
  <2>2. \A u \in DOMAIN kept : u \in DOMAIN events /\ kept[u] = events[u]
    OBVIOUS
  <2> HIDE DEF kept
  <2>3. \A t \in DOMAIN events' :
          \/ t \in DOMAIN kept /\ events'[t] = kept[t]
          \/ \E c, p, h : events'[t] = [content |-> c, prev |-> p, hash |-> h]
    BY <1>0, <2>1
  <2>4. \A t \in DOMAIN events' :
          \/ t \in DOMAIN events /\ events'[t] = events[t]
          \/ \E c, p, h : events'[t] = [content |-> c, prev |-> p, hash |-> h]
    BY <2>2, <2>3
  <2> QED BY <2>4, AppendedRowShape
<1>3. ASSUME UNCHANGED events
      PROVE  RowShape'
  BY <1>3 DEF RowShape
<1>4. (\E i \in Intents : Reserve(i)) \/ Boot => UNCHANGED events
  BY DEF Reserve, Boot
<1> QED BY <1>1, <1>2, <1>3, <1>4, StepKinds DEF TerminalStep

\* The retained rows are an interval, so no row is missing and none is cut off.
LEMMA WrongRowsDetected ==
  ASSUME IndInv, NEW ev, DOMAIN ev # DOMAIN events
  PROVE  ~Verify(ev, checkpoints, head, receipts)
<1> DEFINE x == ExpectedSequence(checkpoints)
           b == Bridge(checkpoints)
           n == head.sequence + 1
<1>1. VerifyEvents(events, x, b, n)
  BY DEF IndInv, Chained
<1>2. Verify(ev, checkpoints, head, receipts) => VerifyEvents(ev, x, b, n)
  BY DEF Verify
<1> HIDE DEF x, b, n
<1> QED BY <1>1, <1>2 DEF VerifyEvents

\* A row stores the digest of its content.
LEMMA AlteredRowDetected ==
  ASSUME IndInv, RowShape, CollisionFree, NEW s \in DOMAIN events, NEW c \in Contents,
         c # events[s].content
  PROVE  ~Verify([events EXCEPT ![s].content = c], checkpoints, head, receipts)
<1> DEFINE ev == [events EXCEPT ![s].content = c]
<1>0. s \in Nat /\ events[s].content \in Contents
  BY SMTT(20) DEF IndInv, TypeOK
<1>1. events[s].hash = Hash(s, events[s].prev, events[s].content)
  BY DEF IndInv, Chained, VerifyEvents
<1>2. s \in DOMAIN ev /\ ev[s] = [events[s] EXCEPT !.content = c]
  OBVIOUS
<1>3. events[s] = [content |-> events[s].content, prev |-> events[s].prev, hash |-> events[s].hash]
  BY DEF RowShape
<1>4. ev[s].content = c /\ ev[s].prev = events[s].prev /\ ev[s].hash = events[s].hash
  <2>1. PICK x, y, z : events[s] = [content |-> x, prev |-> y, hash |-> z]
    BY <1>3
  <2>2. [events[s] EXCEPT !.content = c] = [content |-> c, prev |-> y, hash |-> z]
    BY <2>1, SMTT(20)
  <2> QED BY <1>2, <2>1, <2>2
<1> HIDE DEF ev
<1>5. ASSUME Verify(ev, checkpoints, head, receipts)
      PROVE  FALSE
  <2>1. ev[s].hash = Hash(s, ev[s].prev, ev[s].content)
    BY <1>2, <1>5 DEF Verify, VerifyEvents
  <2>2. Hash(s, events[s].prev, events[s].content) = Hash(s, events[s].prev, c)
    BY <1>1, <1>4, <2>1
  <2> QED BY <1>0, <2>2 DEF CollisionFree
<1> QED BY <1>5 DEF ev

\* Without the last checkpoint the rows would have to begin earlier.
LEMMA LostCheckpointDetected ==
  ASSUME IndInv, checkpoints # <<>>
  PROVE  ~Verify(events, SubSeq(checkpoints, 1, Len(checkpoints) - 1), head, receipts)
<1> DEFINE n == Len(checkpoints)
           cp == SubSeq(checkpoints, 1, n - 1)
           x == ExpectedSequence(checkpoints)
           y == ExpectedSequence(cp)
<1>1. /\ n \in Nat /\ n >= 1
      /\ Len(cp) = n - 1 /\ \A i \in 1 .. (n - 1) : cp[i] = checkpoints[i]
      /\ \A i \in 1 .. n : checkpoints[i].last \in Nat
      /\ cp = <<>> <=> n = 1
  <2>1. PICK S : checkpoints \in Seq(S)
    BY DEF IndInv, Shape
  <2>2. n \in Nat /\ n >= 1
    BY <2>1, SMTT(20)
  <2>3. PICK m \in Nat : m = n - 1
    BY <2>2, SMTT(20)
  <2>4. SubSeq(checkpoints, 1, m) \in Seq(S) /\ Len(SubSeq(checkpoints, 1, m)) = m
    BY <2>1, <2>2, <2>3, SMTT(20)
  <2>5. \A i \in 1 .. m : SubSeq(checkpoints, 1, m)[i] = checkpoints[i]
    BY <2>1, <2>2, <2>3, SMTT(20)
  <2>6. cp \in Seq(S) /\ Len(cp) = n - 1 /\ \A i \in 1 .. (n - 1) : cp[i] = checkpoints[i]
    BY <2>3, <2>4, <2>5
  <2> HIDE DEF cp
  <2>7. cp = <<>> <=> n = 1
    BY <2>2, <2>6, SMTT(20)
  <2> QED BY <2>2, <2>6, <2>7 DEF IndInv, Shape
<1>2. /\ checkpoints[n].first = IF n = 1 THEN 1 ELSE checkpoints[n - 1].last + 1
      /\ checkpoints[n].last >= checkpoints[n].first
  BY <1>1, SMTT(20) DEF IndInv, Chained, VerifyCheckpoints
<1> HIDE DEF cp
<1>3. y = checkpoints[n].first /\ y \in Nat
  BY <1>1, <1>2, SMTT(20) DEF ExpectedSequence
<1>4. x = checkpoints[n].last + 1 /\ checkpoints[n].last \in Nat
  BY <1>1, SMTT(20) DEF ExpectedSequence
<1>5. y < x /\ x \in Nat
  BY <1>2, <1>3, <1>4, SMTT(20)
<1> HIDE DEF x, y, n
<1>m. PICK m : m = head.sequence + 1
  OBVIOUS
<1>6. m \in Nat /\ m >= x /\ DOMAIN events = x .. (m - 1)
  <2>1. VerifyEvents(events, x, Bridge(checkpoints), m)
    BY <1>m DEF IndInv, Chained, x
  <2>2. m \in Nat
    BY <1>m, SMTT(20) DEF IndInv, TypeOK
  <2> QED BY <2>1, <2>2 DEF VerifyEvents
<1>7. ASSUME Verify(events, cp, head, receipts)
      PROVE  FALSE
  <2>0. VerifyEvents(events, y, Bridge(cp), m)
    BY <1>m, <1>7 DEF Verify, y
  <2>1. DOMAIN events = y .. (m - 1)
    BY <2>0 DEF VerifyEvents
  <2>2. y \in y .. (m - 1)
    BY <1>3, <1>5, <1>6, SMTT(20)
  <2>3. y \notin x .. (m - 1)
    BY <1>3, <1>5, <1>6, SMTT(20)
  <2> QED BY <1>6, <2>1, <2>2, <2>3
<1> QED BY <1>7 DEF cp, n

\* The head commits to the set of pending receipts.
LEMMA LostReceiptDetected ==
  ASSUME IndInv, CollisionFree, head # PristineHead, NEW i \in Intents,
         receipts[i].state = "pending"
  PROVE  ~Verify(events, checkpoints, head, [receipts EXCEPT ![i] = NoReceipt])
<1> DEFINE rc == [receipts EXCEPT ![i] = NoReceipt]
<1>0. receipts \in [Intents -> Receipts]
  BY DEF IndInv, TypeOK
<1>1. head.root = RootHash(Pending(receipts))
  BY DEF IndInv, Sealed, VerifyPendingReceipts, PendingReceiptsRoot
<1>2. /\ \A j \in Intents : j # i => rc[j] = receipts[j]
      /\ rc[i] = NoReceipt
  BY <1>0
<1>3. rc[i].state # "pending"
  BY <1>2, SMTT(20) DEF NoReceipt
<1> HIDE DEF rc
<1>4. <<i, receipts[i].correlation>> \in Pending(receipts)
  BY DEF Pending
<1>5. <<i, receipts[i].correlation>> \notin Pending(rc)
  <2>1. ASSUME NEW j \in Intents, rc[j].state = "pending",
               <<i, receipts[i].correlation>> = <<j, rc[j].correlation>>
        PROVE  FALSE
    <3>1. i = j
      BY <2>1
    <3> QED BY <1>3, <2>1, <3>1
  <2> QED BY <2>1 DEF Pending
<1>6. Pending(receipts) \in SUBSET (Intents \X Nat)
  BY <1>0, SMTT(20) DEF Pending, Receipts
<1>7. Pending(rc) \in SUBSET (Intents \X Nat)
  <2>1. \A j \in Intents : rc[j].state = "pending" => rc[j].correlation \in Nat
    BY <1>0, <1>2, <1>3 DEF Receipts
  <2>2. \A j \in Intents : rc[j].state = "pending" => <<j, rc[j].correlation>> \in Intents \X Nat
    BY <2>1
  <2> QED BY <2>2 DEF Pending
<1>8. RootHash(Pending(rc)) # RootHash(Pending(receipts))
  BY <1>4, <1>5, <1>6, <1>7 DEF CollisionFree
<1>9. ASSUME Verify(events, checkpoints, head, rc)
      PROVE  FALSE
  BY <1>1, <1>8, <1>9 DEF Verify, VerifyChainHead, PendingReceiptsRoot
<1> QED BY <1>9 DEF rc

------------------------------------------------------------------------------
(* The theorems.                                                           *)

\* The inductive invariant holds initially.
LEMMA InitInv == Init => IndInv
<1> SUFFICES ASSUME Init PROVE IndInv
  OBVIOUS
<1> USE DEF Init
<1>1. DOMAIN events = {}
  BY SMTT(20)
<1>2. TypeOK
  BY <1>1, LedgerAssumption, SMTT(20) DEF TypeOK, PristineHead, NoReceipt, Receipts, Results, IdlePrune,
                                RetentionRun
<1>3. Shape
  BY SMTT(20) DEF Shape, PristineHead
<1>4. Chained
  <2>1. ExpectedSequence(checkpoints) = 1 /\ Bridge(checkpoints) = NoHash
    BY DEF ExpectedSequence, Bridge
  <2>2. head.sequence = 0 /\ head.head_hash = NoHash
    BY DEF PristineHead
  <2>3. VerifyCheckpoints(checkpoints)
    BY SMTT(20) DEF VerifyCheckpoints
  <2>4. VerifyEvents(events, 1, NoHash, 0 + 1)
    BY <1>1, SMTT(20) DEF VerifyEvents
  <2>5. LinkBefore(events, 0 + 1, 1, NoHash) = NoHash
    BY SMTT(20) DEF LinkBefore
  <2> QED BY <2>1, <2>2, <2>3, <2>4, <2>5 DEF Chained
<1>5. Sealed
  BY DEF Sealed
<1>6. PruneAgrees
  BY DEF PruneAgrees, IdlePrune, RetentionRun
<1>7. Terminals
  BY <1>1 DEF Terminals, OneTerminalEvent, NoReceipt
<1> QED BY <1>2, <1>3, <1>4, <1>5, <1>6, <1>7 DEF IndInv

\* Every step keeps the inductive invariant.
THEOREM LedgerInductive == Spec => []IndInv
<1>1. IndInv /\ [Next]_vars => IndInv'
  BY TypeStep, ChainedStep, SealedStep, PruneAgreesStep, TerminalsStep DEF IndInv
<1> QED BY <1>1, InitInv, PTL DEF Spec

\* from_config: a ledger only this program wrote verifies, whatever the digests.
THEOREM AlwaysVerifies == Spec => []LedgerVerifies
<1>1. IndInv => LedgerVerifies
  <2> SUFFICES ASSUME IndInv, head # PristineHead
               PROVE  Verify(events, checkpoints, head, receipts)
    BY DEF LedgerVerifies
  <2>1. Chained /\ VerifyPendingReceipts(head, receipts) /\ head.sequence \in Int
    BY SMTT(20) DEF IndInv, Sealed, TypeOK
  <2> DEFINE n == head.sequence + 1
  <2>2. n - 1 = head.sequence
    BY <2>1, SMTT(20)
  <2> HIDE DEF n
  <2>3. VerifyChainHead(head, PendingReceiptsRoot(receipts), n, head.head_hash)
    BY <2>1, <2>2 DEF VerifyChainHead, VerifyPendingReceipts, VerifyHeadMac
  <2> QED BY <2>1, <2>3 DEF Verify, Chained, n
<1> QED BY <1>1, LedgerInductive, PTL

\* receipts.rs: a reservation ends in one terminal event.
THEOREM AlwaysOneTerminalEvent == Spec => []OneTerminalEvent
<1>1. IndInv => OneTerminalEvent
  BY DEF IndInv, Terminals
<1> QED BY <1>1, LedgerInductive, PTL

\* retention.rs: only a concurrent commit makes the verification of a sound ledger fail.
THEOREM AlwaysRefusedOnlyByRace == Spec => []RefusedOnlyByRace
<1>1. IndInv => RefusedOnlyByRace
  BY DEF IndInv, PruneAgrees, RefusedOnlyByRace
<1> QED BY <1>1, LedgerInductive, PTL

\* append.rs, retention.rs: rows are never rewritten, their numbers never reused, and
\* only expired rows below a checkpoint leave.
THEOREM AlwaysAppendOnly == Spec => LedgerAppendOnly
<1>1. IndInv /\ [Next]_vars => AppendOnly
  BY AppendOnlyStep
<1>2. LedgerAppendOnly <=> [][AppendOnly]_vars
  BY PTL DEF LedgerAppendOnly, AppendOnly
<1> QED BY <1>1, <1>2, LedgerInductive, PTL DEF Spec

\* query.rs: for any page size and any number of pages, a client that follows the
\* cursors has seen every retained event of its tenant up to where its answers claim
\* to reach, whatever was appended or pruned between its calls.
THEOREM AlwaysScanComplete == Spec => []ScanComplete
<1>1. Init => ScanInv
  <2> SUFFICES ASSUME Init PROVE ScanInv
    OBVIOUS
  <2>1. events = << >> /\ head = PristineHead /\ scan = NoScan
    BY DEF Init
  <2>2. DOMAIN events = {}
    BY <2>1, SMTT(20)
  <2>3. scan.after = 0 /\ scan.upto = 0 /\ head.sequence = 0
    BY <2>1 DEF NoScan, PristineHead
  <2> QED BY <2>2, <2>3, SMTT(20) DEF ScanInv, ScanComplete
<1>2. IndInv /\ IndInv' /\ ScanInv /\ [Next]_vars => ScanInv'
  BY ScanStep
<1>3. ScanInv => ScanComplete
  BY DEF ScanInv
<1> QED BY <1>1, <1>2, <1>3, LedgerInductive, PTL DEF Spec

\* verify.rs: as far as the digests are collision free, no retained row can be lost
\* or its result altered, the last checkpoint or a pending receipt lost, or a suffix
\* cut off, in any reachable ledger of any size, without verify failing.
THEOREM AlwaysTamperEvident == CollisionFree => (Spec => []TamperEvident)
<1>1. Init => RowShape
  <2> SUFFICES ASSUME Init PROVE RowShape
    OBVIOUS
  <2>1. events = << >>
    BY DEF Init
  <2> QED BY <2>1, SMTT(20) DEF RowShape
<1>2. IndInv /\ RowShape /\ [Next]_vars => RowShape'
  BY RowShapeStep
<1>3. ASSUME CollisionFree, IndInv, RowShape
      PROVE  TamperEvident
  <2> DEFINE without(s) == [t \in DOMAIN events \ {s} |-> events[t]]
             upTo(s) == [t \in {u \in DOMAIN events : u <= s} |-> events[t]]
  <2>0. head.sequence \in Nat /\ DOMAIN events = ExpectedSequence(checkpoints) .. (head.sequence + 1 - 1)
        /\ ExpectedSequence(checkpoints) \in Nat
    BY <1>3, ExpectedNat, SMTT(20) DEF IndInv, TypeOK, Chained, VerifyEvents
  <2>1. ASSUME NEW s \in DOMAIN events
        PROVE  ~Verify(without(s), checkpoints, head, receipts)
    <3>1. DOMAIN without(s) # DOMAIN events
      OBVIOUS
    <3> QED BY <1>3, <3>1, WrongRowsDetected
  <2>2. ASSUME NEW s \in DOMAIN events, s < head.sequence
        PROVE  ~Verify(upTo(s), checkpoints, head, receipts)
    <3>1. head.sequence \in DOMAIN events /\ ~(head.sequence <= s)
      BY <2>0, <2>2, SMTT(20)
    <3>2. DOMAIN upTo(s) # DOMAIN events
      BY <3>1
    <3> QED BY <1>3, <3>2, WrongRowsDetected
  <2>3. ASSUME NEW s \in DOMAIN events, NEW r \in Results,
               [events[s].content EXCEPT !.result = r] # events[s].content
        PROVE  ~Verify([events EXCEPT ![s].content = [events[s].content EXCEPT !.result = r]],
                       checkpoints, head, receipts)
    <3>1. events[s].content \in Contents
      BY <1>3 DEF IndInv, TypeOK
    <3>2. [events[s].content EXCEPT !.result = r] \in Contents
      BY <3>1 DEF Contents
    <3> QED BY <1>3, <2>3, <3>2, AlteredRowDetected
  <2>4. checkpoints # <<>> =>
          ~Verify(events, SubSeq(checkpoints, 1, Len(checkpoints) - 1), head, receipts)
    BY <1>3, LostCheckpointDetected
  <2>5. ASSUME head # PristineHead, NEW i \in Intents, receipts[i].state = "pending"
        PROVE  ~Verify(events, checkpoints, head, [receipts EXCEPT ![i] = NoReceipt])
    BY <1>3, <2>5, LostReceiptDetected
  <2> QED BY <2>1, <2>2, <2>3, <2>4, <2>5 DEF TamperEvident
<1>4. Spec => []RowShape
  BY <1>1, <1>2, LedgerInductive, PTL DEF Spec
<1> SUFFICES ASSUME CollisionFree PROVE Spec => []TamperEvident
  OBVIOUS
<1>5. IndInv /\ RowShape => TamperEvident
  BY <1>3
<1> QED BY <1>4, <1>5, LedgerInductive, PTL
=============================================================================
