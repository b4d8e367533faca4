---------------------------- MODULE RelayProofs ----------------------------
(***************************************************************************)
(* For every set of devices, every payload and every budget: the relay's   *)
(* base arithmetic, compaction and restore neither lose, repeat nor        *)
(* reorder a message, and the relay implements DeliveryLog.                *)
(*                                                                         *)
(* PendingIsTheRest is not inductive: it says nothing of the acknowledged  *)
(* messages an uncompacted queue still holds, nor of the two snapshots a   *)
(* restart may bring back.  StoreInv says that a queue, and each snapshot  *)
(* of it, is backed by the log accepted for it at that moment.             *)
(***************************************************************************)
EXTENDS Relay, TLAPS, SequenceTheorems

\* A base, a resident tail and a cursor into it, cut from the log `all`.
Backed(base, resident, inner_cursor, all) ==
    /\ base \in Nat
    /\ inner_cursor \in 0..Len(resident)
    /\ resident \in Seq(Messages)
    /\ all \in Seq(Messages)
    /\ IsRest(resident, all, base)

QueueBacked(q, all) == Backed(q.base, q.inner.log, q.inner.cursor, all)

PartsBacked(p, all) == Backed(p.base, p.resident, p.inner_cursor, all)

QueuesInv ==
    /\ DOMAIN queues = Devices
    /\ accepted \in [Devices -> Seq(Messages)]
    /\ \A d \in Devices : QueueBacked(queues[d], accepted[d])

DiskInv ==
    /\ acceptedAt \in [snapshot : [Devices -> Seq(Messages)],
                       file : [Devices -> Seq(Messages)]]
    /\ \A d \in Devices :
          /\ PartsBacked(snapshot[d], acceptedAt.snapshot[d])
          /\ PartsBacked(file[d], acceptedAt.file[d])

StoreInv == QueuesInv /\ DiskInv

-----------------------------------------------------------------------------
\* Sequences

\* Dropping n messages and then k more drops n + k (Queue::cursor's addition).
LEMMA RestOfRest ==
    ASSUME NEW S, NEW all \in Seq(S), NEW n \in 0..Len(all),
           NEW k \in 0..(Len(all) - n)
    PROVE  LET rest == SubSeq(all, n + 1, Len(all))
           IN  /\ rest \in Seq(S)
               /\ Len(rest) = Len(all) - n
               /\ SubSeq(rest, k + 1, Len(rest)) = SubSeq(all, n + k + 1, Len(all))
<1> DEFINE rest == SubSeq(all, n + 1, Len(all))
           more == SubSeq(rest, k + 1, Len(rest))
           direct == SubSeq(all, n + k + 1, Len(all))
<1>1. /\ Len(all) \in Nat /\ n \in Nat /\ k \in Nat
      /\ \A i \in 1..Len(all) : all[i] \in S
  BY LenProperties, ElementOfSeq
<1>2. /\ rest \in Seq(S)
      /\ Len(rest) = Len(all) - n
      /\ \A i \in 1..(Len(all) - n) : rest[i] = all[n + i]
  <2>1. \A i \in (n + 1)..Len(all) : all[i] \in S
    BY <1>1
  <2>2. /\ rest \in Seq(S)
        /\ Len(rest) = IF n + 1 <= Len(all) THEN Len(all) - (n + 1) + 1 ELSE 0
        /\ \A i \in 1..(Len(all) - (n + 1) + 1) : rest[i] = all[(n + 1) + i - 1]
    BY <1>1, <2>1, SubSeqProperties
  <2> QED BY <1>1, <2>2
<1>3. /\ direct \in Seq(S)
      /\ Len(direct) = Len(all) - n - k
      /\ \A i \in 1..(Len(all) - n - k) : direct[i] = all[n + k + i]
  <2>1. \A i \in (n + k + 1)..Len(all) : all[i] \in S
    BY <1>1
  <2>2. /\ direct \in Seq(S)
        /\ Len(direct) = IF n + k + 1 <= Len(all) THEN Len(all) - (n + k + 1) + 1 ELSE 0
        /\ \A i \in 1..(Len(all) - (n + k + 1) + 1) : direct[i] = all[(n + k + 1) + i - 1]
    BY <1>1, <2>1, SubSeqProperties
  <2> QED BY <1>1, <2>2
<1>4. /\ more \in Seq(S)
      /\ Len(more) = Len(all) - n - k
      /\ \A i \in 1..(Len(all) - n - k) : more[i] = rest[k + i]
  <2>1. \A i \in (k + 1)..Len(rest) : rest[i] \in S
    BY <1>1, <1>2, ElementOfSeq
  <2>2. /\ more \in Seq(S)
        /\ Len(more) = IF k + 1 <= Len(rest) THEN Len(rest) - (k + 1) + 1 ELSE 0
        /\ \A i \in 1..(Len(rest) - (k + 1) + 1) : more[i] = rest[(k + 1) + i - 1]
    BY <1>1, <1>2, <2>1, SubSeqProperties
  <2> HIDE DEF rest, more
  <2>3. Len(rest) - (k + 1) + 1 = Len(all) - n - k
    BY <1>1, <1>2
  <2>4. Len(more) = Len(all) - n - k
    <3>1. Len(rest) = Len(all) - n
      BY <1>2
    <3>2. Len(more) = IF k + 1 <= Len(rest) THEN Len(rest) - (k + 1) + 1 ELSE 0
      BY <2>2
    <3> QED BY <1>1, <3>1, <3>2
  <2>5. \A i \in 1..(Len(all) - n - k) : more[i] = rest[k + i]
    BY <1>1, <2>2, <2>3
  <2> QED BY <2>2, <2>4, <2>5
<1> HIDE DEF rest, more, direct
<1>5. more = direct
  <2>1. \A i \in 1..Len(more) : more[i] = direct[i]
    BY <1>1, <1>2, <1>3, <1>4
  <2> QED BY Zenon, <1>3, <1>4, <2>1, SeqEqual
<1> QED BY <1>2, <1>5 DEF rest, more, direct

\* Appending to the log appends to what is left of it (Queue::enqueue).
LEMMA RestOfAppend ==
    ASSUME NEW S, NEW all \in Seq(S), NEW n \in 0..Len(all), NEW e \in S
    PROVE  SubSeq(Append(all, e), n + 1, Len(Append(all, e)))
               = Append(SubSeq(all, n + 1, Len(all)), e)
<1> DEFINE longer == Append(all, e)
           rest == SubSeq(all, n + 1, Len(all))
           left == SubSeq(longer, n + 1, Len(longer))
           right == Append(rest, e)
<1>1. /\ Len(all) \in Nat /\ n \in Nat
      /\ longer \in Seq(S)
      /\ Len(longer) = Len(all) + 1
      /\ \A i \in 1..Len(all) : longer[i] = all[i]
      /\ longer[Len(all) + 1] = e
  BY LenProperties, AppendProperties
<1>2. /\ rest \in Seq(S)
      /\ Len(rest) = Len(all) - n
      /\ \A i \in 1..(Len(all) - n) : rest[i] = all[n + i]
  <2>1. \A i \in (n + 1)..Len(all) : all[i] \in S
    BY <1>1, ElementOfSeq
  <2>2. /\ rest \in Seq(S)
        /\ Len(rest) = IF n + 1 <= Len(all) THEN Len(all) - (n + 1) + 1 ELSE 0
        /\ \A i \in 1..(Len(all) - (n + 1) + 1) : rest[i] = all[(n + 1) + i - 1]
    BY <1>1, <2>1, SubSeqProperties
  <2> QED BY <1>1, <2>2
<1>3. /\ left \in Seq(S)
      /\ Len(left) = Len(all) + 1 - n
      /\ \A i \in 1..(Len(all) + 1 - n) : left[i] = longer[n + i]
  <2> HIDE DEF longer
  <2>1. \A i \in (n + 1)..Len(longer) : longer[i] \in S
    BY <1>1, ElementOfSeq
  <2>2. /\ left \in Seq(S)
        /\ Len(left) = IF n + 1 <= Len(longer) THEN Len(longer) - (n + 1) + 1 ELSE 0
        /\ \A i \in 1..(Len(longer) - (n + 1) + 1) : left[i] = longer[(n + 1) + i - 1]
    BY <1>1, <2>1, SubSeqProperties
  <2> QED BY <1>1, <2>2
<1>4. /\ right \in Seq(S)
      /\ Len(right) = Len(all) - n + 1
      /\ \A i \in 1..(Len(all) - n) : right[i] = rest[i]
      /\ right[Len(all) - n + 1] = e
  <2> HIDE DEF rest
  <2> QED BY <1>2, AppendProperties
<1> HIDE DEF longer, rest, left, right
<1>5. \A i \in 1..Len(left) : left[i] = right[i]
  <2> SUFFICES ASSUME NEW i \in 1..Len(left) PROVE left[i] = right[i]
    OBVIOUS
  <2>1. CASE i \in 1..(Len(all) - n)
    BY <1>1, <1>2, <1>3, <1>4, <2>1
  <2>2. CASE i = Len(all) - n + 1
    BY <1>1, <1>3, <1>4, <2>2
  <2> QED BY <1>1, <1>3, <2>1, <2>2
<1>6. left = right
  BY <1>1, <1>3, <1>4, <1>5, SeqEqual
<1> QED BY Zenon, <1>6 DEF longer, rest, left, right

-----------------------------------------------------------------------------
\* Queues

\* What Queue::pending returns is the log past Queue::cursor.
LEMMA PendingBacked ==
    ASSUME NEW q, NEW all, QueueBacked(q, all)
    PROVE  /\ IsRest(QueuePending(q), all, QueueCursor(q))
           /\ QueueCursor(q) \in 0..Len(all)
           /\ q.base + Len(q.inner.log) = Len(all)
<1> DEFINE n == q.base
           k == q.inner.cursor
           rest == SubSeq(all, n + 1, Len(all))
<1>1. /\ all \in Seq(Messages) /\ n \in 0..Len(all)
      /\ q.inner.log = rest
      /\ k \in 0..Len(q.inner.log)
  BY LenProperties DEF QueueBacked, Backed, IsRest
<1>2. Len(all) \in Nat
  BY <1>1, LenProperties
<1>3. Len(rest) = Len(all) - n
  <2>1. 0 \in 0..(Len(all) - n)
    BY <1>1, <1>2
  <2> QED BY <1>1, <2>1, RestOfRest
<1>4. k \in 0..(Len(all) - n)
  BY <1>1, <1>3
<1>5. SubSeq(rest, k + 1, Len(rest)) = SubSeq(all, n + k + 1, Len(all))
  BY Zenon, <1>1, <1>4, RestOfRest
<1>6. QueuePending(q) = SubSeq(all, QueueCursor(q) + 1, Len(all))
  BY Zenon, <1>1, <1>5 DEF QueuePending, SessionPending, QueueCursor
<1> HIDE DEF n, k, rest
<1>7. n + k \in 0..Len(all)
  BY <1>1, <1>2, <1>4
<1>8. n + Len(rest) = Len(all)
  BY <1>1, <1>2, <1>3
<1>9. QueueCursor(q) \in 0..Len(all)
  BY <1>7 DEF QueueCursor, n, k
<1>10. q.base + Len(q.inner.log) = Len(all)
  BY <1>1, <1>8 DEF n
<1> QED BY <1>6, <1>9, <1>10 DEF IsRest

\* Queue::enqueue keeps the queue a cut of the log it is appended to.
LEMMA EnqueueBacked ==
    ASSUME NEW q, NEW all, NEW m \in Messages, QueueBacked(q, all)
    PROVE  /\ QueueBacked(QueueEnqueue(q, m), Append(all, m))
           /\ QueueCursor(QueueEnqueue(q, m)) = QueueCursor(q)
<1> DEFINE r == QueueEnqueue(q, m)
<1>1. /\ r.base = q.base
      /\ r.inner.log = Append(q.inner.log, m)
      /\ r.inner.cursor = q.inner.cursor
  BY DEF QueueEnqueue, SessionAppend
<1>2. /\ all \in Seq(Messages) /\ q.inner.log \in Seq(Messages)
      /\ q.base \in Nat /\ q.base <= Len(all)
      /\ q.inner.log = SubSeq(all, q.base + 1, Len(all))
      /\ q.inner.cursor \in 0..Len(q.inner.log)
  BY DEF QueueBacked, Backed, IsRest
<1>3. /\ Append(all, m) \in Seq(Messages)
      /\ Len(Append(all, m)) = Len(all) + 1
      /\ Append(q.inner.log, m) \in Seq(Messages)
      /\ Len(Append(q.inner.log, m)) = Len(q.inner.log) + 1
      /\ Len(all) \in Nat /\ Len(q.inner.log) \in Nat
  BY <1>2, AppendProperties, LenProperties
<1>4. q.base \in 0..Len(all)
  BY <1>2, <1>3
<1>5. r.inner.log = SubSeq(Append(all, m), q.base + 1, Len(Append(all, m)))
  BY Zenon, <1>1, <1>2, <1>4, RestOfAppend
<1>6. Backed(r.base, r.inner.log, r.inner.cursor, Append(all, m))
  <2> HIDE DEF r
  <2>1. r.inner.cursor \in 0..Len(r.inner.log)
    <3>1. q.inner.cursor \in 0..(Len(q.inner.log) + 1)
      BY <1>2, <1>3
    <3> QED BY <1>1, <1>3, <3>1
  <2>2. r.base <= Len(Append(all, m))
    <3>1. q.base <= Len(all) + 1
      BY <1>2, <1>3
    <3> QED BY <1>1, <1>3, <3>1
  <2>3. IsRest(r.inner.log, Append(all, m), r.base)
    BY <1>1, <1>5, <2>2 DEF IsRest
  <2> QED BY <1>1, <1>2, <1>3, <2>1, <2>3 DEF Backed
<1> QED BY <1>1, <1>6 DEF QueueBacked, QueueCursor

\* Queue::ack, once it accepts an absolute position: compaction moves the
\* acknowledged count into the base, and the cursor becomes that position.
LEMMA AckBacked ==
    ASSUME NEW q, NEW all, NEW up_to \in Int,
           QueueBacked(q, all), QueueAckAccepts(q, up_to)
    PROVE  /\ QueueBacked(QueueAck(q, up_to), all)
           /\ QueueCursor(QueueAck(q, up_to)) = up_to
           /\ QueueCursor(q) < up_to
           /\ up_to <= Len(all)
<1> DEFINE n == up_to - q.base
           s == [base |-> q.base, inner |-> SessionAck(q.inner, n),
                 pending_bytes |-> q.pending_bytes]
           tail == SubSeq(q.inner.log, n + 1, Len(q.inner.log))
           c == Compact(s)
           r == QueueAck(q, up_to)
<1>1. /\ all \in Seq(Messages) /\ q.inner.log \in Seq(Messages)
      /\ q.base \in Nat /\ q.base <= Len(all)
      /\ q.inner.log = SubSeq(all, q.base + 1, Len(all))
      /\ q.inner.cursor \in 0..Len(q.inner.log)
  BY DEF QueueBacked, Backed, IsRest
<1>2. /\ q.inner.cursor < n /\ n <= Len(q.inner.log)
      /\ SessionAck(q.inner, n) = [log |-> q.inner.log, cursor |-> n]
  BY DEF QueueAckAccepts, SessionAckAccepts, SessionAck
<1>3. /\ Len(all) \in Nat /\ Len(q.inner.log) \in Nat
      /\ n \in Nat \ {0}
  BY <1>1, <1>2, LenProperties
<1>4. /\ s.base = q.base
      /\ s.inner.log = q.inner.log
      /\ s.inner.cursor = n
  BY <1>2
<1> HIDE DEF s, n
<1>5. /\ c.base = q.base + n
      /\ c.inner.log = tail
      /\ c.inner.cursor = 0
  BY <1>3, <1>4 DEF Compact, SessionOf, SessionPending
<1>6. /\ r.base = q.base + n
      /\ r.inner.log = tail
      /\ r.inner.cursor = 0
  <2>1. r = [base |-> c.base, inner |-> c.inner,
             pending_bytes |-> BytesOf(QueuePending(c))]
    BY DEF QueueAck, s, n
  <2> HIDE DEF c, r, tail
  <2> QED BY <1>5, <2>1
<1>7. q.base + Len(q.inner.log) = Len(all)
  BY PendingBacked
<1>8. q.base \in 0..Len(all) /\ n \in 0..(Len(all) - q.base)
  BY <1>1, <1>2, <1>3, <1>7
<1>9. tail = SubSeq(all, q.base + n + 1, Len(all))
  BY Zenon, <1>1, <1>8, RestOfRest
<1>10. q.base + n \in 0..Len(all)
  BY <1>1, <1>3, <1>8
<1>11. tail \in Seq(Messages) /\ Len(tail) \in Nat
  <2>1. 0 \in 0..(Len(all) - (q.base + n))
    BY <1>3, <1>10
  <2>2. tail \in Seq(Messages)
    BY Zenon, <1>1, <1>9, <1>10, <2>1, RestOfRest
  <2> QED BY <2>2, LenProperties
<1> HIDE DEF tail, r
<1>12. Backed(r.base, r.inner.log, r.inner.cursor, all)
  BY <1>1, <1>3, <1>6, <1>9, <1>10, <1>11 DEF Backed, IsRest
<1>13. q.base + n = up_to
  BY <1>1 DEF n
<1>14. q.base + q.inner.cursor < q.base + n /\ q.base + n <= Len(all)
  <2>1. q.base \in Nat /\ q.inner.cursor \in Nat
    BY <1>1
  <2>2. q.inner.cursor < n /\ n <= Len(q.inner.log)
    BY <1>2
  <2> QED BY <1>3, <1>7, <2>1, <2>2
<1>15. r.base + r.inner.cursor = up_to
  BY <1>1, <1>3, <1>6, <1>13
<1> QED BY <1>12, <1>13, <1>14, <1>15 DEF QueueBacked, QueueCursor, r

\* Queue::from_parts rebuilds a queue with the base, tail and cursor it is given.
LEMMA FromPartsBacked ==
    ASSUME NEW p, NEW all, PartsBacked(p, all)
    PROVE  LET q == QueueFromParts(p.base, p.resident, p.inner_cursor)
           IN  /\ QueueBacked(q, all)
               /\ QueueCursor(q) = p.base + p.inner_cursor
<1> DEFINE q == QueueFromParts(p.base, p.resident, p.inner_cursor)
<1>1. p.inner_cursor \in 0..Len(p.resident) /\ Len(p.resident) \in Nat
  BY LenProperties DEF PartsBacked, Backed
<1>2. q.inner = [log |-> p.resident, cursor |-> p.inner_cursor]
  BY <1>1 DEF QueueFromParts, SessionAck, SessionAckAccepts, SessionOf
<1>3. q.base = p.base
  BY DEF QueueFromParts
<1> HIDE DEF q
<1> QED BY <1>2, <1>3 DEF QueueBacked, PartsBacked, QueueCursor, q

-----------------------------------------------------------------------------
\* The invariant

\* A first start, with nothing on disk or with a snapshot of the old format.
LEMMA StoreInvInit == Init => StoreInv
<1> SUFFICES ASSUME Init PROVE StoreInv
  OBVIOUS
<1>1. file \in [Devices -> {p \in [base : {0}, inner_cursor : Nat, resident : Seq(Messages)] :
                               p.inner_cursor <= Len(p.resident)}]
  BY BootAssumption DEF Init
<1>2. ASSUME NEW d \in Devices PROVE PartsBacked(file[d], file[d].resident)
  <2>1. /\ file[d].base = 0
        /\ file[d].inner_cursor \in Nat
        /\ file[d].resident \in Seq(Messages)
        /\ file[d].inner_cursor <= Len(file[d].resident)
    BY <1>1
  <2>2. /\ Len(file[d].resident) \in Nat
        /\ file[d].resident = SubSeq(file[d].resident, 0 + 1, Len(file[d].resident))
    BY <2>1, LenProperties, SubSeqFull
  <2>3. IsRest(file[d].resident, file[d].resident, 0)
    BY <2>2 DEF IsRest
  <2>4. file[d].inner_cursor \in 0..Len(file[d].resident)
    BY <2>1, <2>2
  <2> QED BY <2>1, <2>3, <2>4 DEF PartsBacked, Backed
<1>3. accepted \in [Devices -> Seq(Messages)]
  BY <1>1 DEF Init
<1>4. ASSUME NEW d \in Devices PROVE QueueBacked(queues[d], accepted[d])
  BY <1>2, FromPartsBacked DEF Init, Restored
<1>5. QueuesInv
  BY <1>3, <1>4 DEF QueuesInv, Init, Restored
<1>6. DiskInv
  BY <1>2, <1>3 DEF DiskInv, Init
<1> QED BY <1>5, <1>6 DEF StoreInv

\* One step per operation of the relay; a refused request is no step.
LEMMA StoreInvNext == StoreInv /\ [Next]_vars => StoreInv'
<1> SUFFICES ASSUME StoreInv, [Next]_vars PROVE StoreInv'
  OBVIOUS
<1> USE DEF StoreInv
<1>1. ASSUME NEW from \in Senders, NEW to \in Devices, NEW body \in Bodies,
             Send(from, to, body)
      PROVE  StoreInv'
  <2> DEFINE m == [from |-> from, body |-> body]
  <2>1. m \in Messages
    BY DEF Messages
  <2>2. /\ queues' = [queues EXCEPT ![to] = QueueEnqueue(queues[to], m)]
        /\ accepted' = [accepted EXCEPT ![to] = Append(accepted[to], m)]
        /\ UNCHANGED <<snapshot, file, acceptedAt>>
    BY <1>1 DEF Send, diskVars
  <2> HIDE DEF m
  <2>3. DOMAIN queues' = Devices /\ accepted' \in [Devices -> Seq(Messages)]
    BY <2>1, <2>2, AppendProperties DEF QueuesInv
  <2>4. ASSUME NEW d \in Devices PROVE QueueBacked(queues[d], accepted[d])'
    <3>1. CASE d = to
      BY <2>1, <2>2, <3>1, EnqueueBacked DEF QueuesInv
    <3>2. CASE d # to
      BY <2>2, <3>2 DEF QueuesInv
    <3> QED BY <3>1, <3>2
  <2>5. QueuesInv'
    BY <2>3, <2>4 DEF QueuesInv
  <2>6. DiskInv'
    BY <2>2 DEF DiskInv
  <2> QED BY <2>5, <2>6
<1>2. ASSUME NEW d \in Devices, NEW up_to \in Positions(d), Ack(d, up_to)
      PROVE  StoreInv'
  <2>1. /\ QueueAckAccepts(queues[d], up_to)
        /\ queues' = [queues EXCEPT ![d] = QueueAck(queues[d], up_to)]
        /\ UNCHANGED <<snapshot, file, accepted, acceptedAt>>
    BY <1>2 DEF Ack, diskVars, historyVars
  <2>2. up_to \in Int
    BY DEF Positions
  <2>3. QueueBacked(QueueAck(queues[d], up_to), accepted[d])
    BY <2>1, <2>2, AckBacked DEF QueuesInv
  <2>4. QueuesInv'
    BY <2>1, <2>3 DEF QueuesInv
  <2>5. DiskInv'
    BY <2>1 DEF DiskInv
  <2> QED BY <2>4, <2>5
<1>3. CASE TakeSnapshot
  <2>1. ASSUME NEW d \in Devices PROVE PartsBacked(Snapshot[d], accepted[d])
    BY DEF Snapshot, QueuesInv, QueueBacked, PartsBacked
  <2>2. DiskInv'
    BY <1>3, <2>1 DEF TakeSnapshot, DiskInv, QueuesInv
  <2>3. QueuesInv'
    BY <1>3 DEF TakeSnapshot, QueuesInv, relayVars
  <2> QED BY <2>2, <2>3
<1>4. CASE WriteSnapshot
  <2>1. DiskInv'
    BY <1>4 DEF WriteSnapshot, DiskInv
  <2>2. QueuesInv'
    BY <1>4 DEF WriteSnapshot, QueuesInv, relayVars
  <2> QED BY <2>1, <2>2
<1>5. ASSUME NEW ceiling \in Ceilings, Restart(ceiling) PROVE StoreInv'
  <2>1. /\ queues' = Restored(file)
        /\ accepted' = acceptedAt.file
        /\ acceptedAt' = [snapshot |-> acceptedAt.file, file |-> acceptedAt.file]
        /\ snapshot' = file /\ file' = file
    BY <1>5 DEF Restart
  <2>2. ASSUME NEW d \in Devices PROVE QueueBacked(queues'[d], accepted'[d])
    BY <2>1, FromPartsBacked DEF Restored, DiskInv
  <2>3. QueuesInv'
    BY <2>1, <2>2 DEF QueuesInv, DiskInv, Restored
  <2>4. DiskInv'
    BY <2>1 DEF DiskInv
  <2> QED BY <2>3, <2>4
<1>6. CASE UNCHANGED vars
  BY <1>6 DEF vars, relayVars, diskVars, historyVars, QueuesInv, DiskInv
<1> QED BY <1>1, <1>2, <1>3, <1>4, <1>5, <1>6 DEF Next

\* The inductive invariant holds throughout: every queue, and every copy of it in
\* memory or on disk, is a tail of what the relay accepted, cut at its base.
THEOREM StoreAlways == Spec => []StoreInv
<1> QED BY StoreInvInit, StoreInvNext, PTL DEF Spec

\* Whatever was enqueued, acknowledged, compacted and restored before: a poll
\* shows a device the messages accepted for it past its cursor, in order.
THEOREM NoLossNoReplay == Spec => []PendingIsTheRest
<1>1. StoreInv => PendingIsTheRest
  BY PendingBacked DEF StoreInv, QueuesInv, PendingIsTheRest, Pending, Cursor
<1> QED BY <1>1, StoreAlways, PTL

-----------------------------------------------------------------------------
\* Refinement

\* A relay starts as the delivery log does: with what was on disk.
LEMMA PromiseInit == Init => Promise!Init
<1> SUFFICES ASSUME Init PROVE Promise!Init
  OBVIOUS
<1>1. StoreInv
  BY StoreInvInit
<1>2. ASSUME NEW d \in Devices
      PROVE  /\ Cursor(d) \in Nat /\ Cursor(d) <= Len(accepted[d])
             /\ Cursor(d) = file[d].base + file[d].inner_cursor
  <2>1. Cursor(d) = file[d].base + file[d].inner_cursor
    BY <1>1, FromPartsBacked DEF Init, Restored, Cursor, StoreInv, DiskInv
  <2>2. Cursor(d) \in 0..Len(accepted[d])
    BY <1>1, PendingBacked DEF Cursor, StoreInv, QueuesInv
  <2>3. Len(accepted[d]) \in Nat
    BY <1>1, LenProperties DEF StoreInv, QueuesInv
  <2> QED BY <2>1, <2>2, <2>3
<1>3. [d \in Devices |-> Cursor(d)] = CursorsOf(file)
  BY <1>2 DEF CursorsOf
<1>4. acceptedAt.snapshot = accepted /\ acceptedAt.file = accepted /\ snapshot = file
  BY DEF Init
<1>5. accepted \in [Devices -> Seq(Messages)]
  BY <1>1 DEF StoreInv, QueuesInv
<1> QED BY <1>2, <1>3, <1>4, <1>5 DEF Promise!Init, Promise!Copy

\* Every operation of the relay is the DeliveryLog step of the same name.
LEMMA PromiseNext == StoreInv /\ [Next]_vars => [Promise!Next]_(Promise!vars)
<1> SUFFICES ASSUME StoreInv, [Next]_vars PROVE [Promise!Next]_(Promise!vars)
  OBVIOUS
<1> DEFINE cursors == [d \in Devices |-> Cursor(d)]
<1>1. ASSUME NEW from \in Senders, NEW to \in Devices, NEW body \in Bodies,
             Send(from, to, body)
      PROVE  Promise!Next
  <2> DEFINE m == [from |-> from, body |-> body]
  <2>1. m \in Messages
    BY DEF Messages
  <2>2. /\ queues' = [queues EXCEPT ![to] = QueueEnqueue(queues[to], m)]
        /\ accepted' = [accepted EXCEPT ![to] = Append(accepted[to], m)]
        /\ UNCHANGED <<snapshot, file, acceptedAt>>
    BY <1>1 DEF Send, diskVars
  <2> HIDE DEF m
  <2>3. cursors' = cursors
    BY Zenon, <2>1, <2>2, EnqueueBacked DEF StoreInv, QueuesInv, Cursor
  <2>4. Promise!Accept(to, m)
    BY <2>2, <2>3 DEF Promise!Accept, CursorsOf
  <2> QED BY <2>1, <2>4 DEF Promise!Next
<1>2. ASSUME NEW d \in Devices, NEW up_to \in Positions(d), Ack(d, up_to)
      PROVE  Promise!Next
  <2>1. /\ QueueAckAccepts(queues[d], up_to)
        /\ queues' = [queues EXCEPT ![d] = QueueAck(queues[d], up_to)]
        /\ UNCHANGED <<snapshot, file, accepted, acceptedAt>>
    BY <1>2 DEF Ack, diskVars, historyVars
  <2>2. up_to \in Nat
    BY DEF Positions
  <2>3. /\ QueueCursor(QueueAck(queues[d], up_to)) = up_to
        /\ Cursor(d) < up_to /\ up_to <= Len(accepted[d])
    <3>1. QueueBacked(queues[d], accepted[d]) /\ up_to \in Int
      BY <2>2 DEF StoreInv, QueuesInv
    <3> QED BY <2>1, <3>1, AckBacked DEF Cursor
  <2>4. Cursor(d) \in 0..Len(accepted[d]) /\ Len(accepted[d]) \in Nat
    BY PendingBacked, LenProperties DEF StoreInv, QueuesInv, Cursor
  <2>5. up_to \in 1..Len(accepted[d])
    BY <2>2, <2>3, <2>4
  <2>6. cursors' = [cursors EXCEPT ![d] = up_to]
    BY Zenon, <2>1, <2>3 DEF StoreInv, QueuesInv, Cursor
  <2>7. Promise!Acknowledge(d, up_to)
    BY <2>1, <2>3, <2>6 DEF Promise!Acknowledge, CursorsOf
  <2> QED BY <2>5, <2>7 DEF Promise!Next
<1>3. CASE TakeSnapshot
  <2>1. /\ snapshot' = Snapshot
        /\ acceptedAt' = [snapshot |-> accepted, file |-> acceptedAt.file]
        /\ UNCHANGED <<queues, accepted, file>>
    BY <1>3 DEF TakeSnapshot, relayVars
  <2>2. CursorsOf(snapshot)' = cursors
    BY <2>1 DEF CursorsOf, Snapshot, Cursor, QueueCursor
  <2>3. CursorsOf(file)' = CursorsOf(file) /\ cursors' = cursors
    BY <2>1 DEF CursorsOf, Cursor
  <2> HIDE DEF cursors
  <2>4. Promise!Stage
    BY <2>1, <2>2, <2>3 DEF Promise!Stage, Promise!Copy, cursors
  <2> QED BY <2>4 DEF Promise!Next
<1>4. CASE WriteSnapshot
  <2>1. Promise!Publish
    BY <1>4 DEF WriteSnapshot, relayVars, Promise!Publish, CursorsOf, Cursor
  <2> QED BY <2>1 DEF Promise!Next
<1>5. ASSUME NEW ceiling \in Ceilings, Restart(ceiling) PROVE Promise!Next
  <2>1. /\ queues' = Restored(file)
        /\ accepted' = acceptedAt.file
        /\ acceptedAt' = [snapshot |-> acceptedAt.file, file |-> acceptedAt.file]
        /\ snapshot' = file /\ file' = file
    BY <1>5 DEF Restart
  <2>2. cursors' = CursorsOf(file)
    BY <2>1, FromPartsBacked DEF StoreInv, DiskInv, Restored, Cursor, CursorsOf
  <2>3. CursorsOf(snapshot)' = CursorsOf(file) /\ CursorsOf(file)' = CursorsOf(file)
    BY <2>1 DEF CursorsOf
  <2> HIDE DEF cursors
  <2>4. Promise!Restart
    BY <2>1, <2>2, <2>3 DEF Promise!Restart, cursors
  <2> QED BY <2>4 DEF Promise!Next
<1>6. CASE UNCHANGED vars
  BY <1>6 DEF vars, relayVars, diskVars, historyVars, Promise!vars, CursorsOf, Cursor
<1> QED BY <1>1, <1>2, <1>3, <1>4, <1>5, <1>6 DEF Next

\* The relay implements the delivery log it promises its devices.
THEOREM RelayImplementsDeliveryLog == Spec => ImplementsDeliveryLog
<1> QED BY PromiseInit, PromiseNext, StoreAlways, PTL DEF Spec, ImplementsDeliveryLog, Promise!Spec
=============================================================================
