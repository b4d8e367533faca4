------------------------------- MODULE Relay -------------------------------
(***************************************************************************)
(* The blind relay of crates/tacenta-relay: one queue per device, three    *)
(* byte budgets and a count budget, acknowledgement with compaction, and   *)
(* the snapshot a restarted server is rebuilt from.                        *)
(*                                                                         *)
(* `queues` is total: a device the HashMap has no entry for is a device    *)
(* with a default queue, which every operation of the relay treats alike.  *)
(* Envelope contents are opaque to the relay, so a message is its sender   *)
(* and a body; sizes are what the budgets see of it.                       *)
(***************************************************************************)
EXTENDS Integers, Sequences, FiniteSetsExt, Session

CONSTANTS
    Users,
    Devices,              \* routing addresses, [user, device]
    Senders,              \* the devices that send
    Bodies,               \* envelope payloads, opaque
    PayloadLen,           \* PayloadLen[b]: bytes of payload b
    HandleLen,            \* HandleLen[u]: bytes of the handle of u
    MAX_PENDING,          \* messages one queue holds unacknowledged
    MAX_ENVELOPE_BYTES,   \* bytes of one message
    MAX_QUEUE_BYTES,      \* unacknowledged bytes of one queue
    MAX_USER_BYTES,       \* unacknowledged bytes of one user's queues
    Ceilings,             \* the node ceilings a deployment may configure
    BootFiles             \* the snapshots a first start may find on disk

ASSUME DeviceAssumption ==
    /\ \A d \in Devices : d.user \in Users
    /\ Senders \subseteq Devices

ASSUME SizeAssumption ==
    /\ PayloadLen \in [Bodies -> Nat]
    /\ HandleLen \in [Users -> Nat]

ASSUME BudgetAssumption ==
    /\ MAX_PENDING \in Nat /\ MAX_ENVELOPE_BYTES \in Nat
    /\ MAX_QUEUE_BYTES \in Nat /\ MAX_USER_BYTES \in Nat
    \* Relay::with_max_total_bytes panics below MAX_USER_BYTES.
    /\ Ceilings # {} /\ Ceilings \subseteq Nat
    /\ \A c \in Ceilings : c >= MAX_USER_BYTES

\* A stored message: who sent it, and what.
Messages == [from : Senders, body : Bodies]

\* Nothing on disk (an empty log everywhere), or a snapshot of the format that
\* predates compaction: the whole log and an absolute cursor, so base is 0.
ASSUME BootAssumption ==
    BootFiles \subseteq
        [Devices -> {p \in [base : {0}, inner_cursor : Nat, resident : Seq(Messages)] :
                        p.inner_cursor <= Len(p.resident)}]

VARIABLES
    queues,            \* queues[d]: [base, inner, pending_bytes]
    user_bytes,        \* user_bytes[u]: derived index over `queues`
    total_bytes,       \* derived index over `queues`
    max_total_bytes,   \* node configuration, not persisted
    snapshot,          \* the snapshot taken and not yet written
    file,              \* relay.snapshot on disk
    accepted,          \* history: accepted[d], every message appended for d
    acceptedAt         \* history: `accepted` when [snapshot, file] were taken

relayVars == <<queues, user_bytes, total_bytes, max_total_bytes>>
diskVars == <<snapshot, file>>
historyVars == <<accepted, acceptedAt>>
vars == <<relayVars, diskVars, historyVars>>

\* StoredMessage::byte_len
ByteLen(m) == PayloadLen[m.body] + HandleLen[m.from.user]

\* The `.iter().map(byte_len).sum()` of Queue::ack and Queue::from_parts.
BytesOf(msgs) == MapThenSumSet(LAMBDA i : ByteLen(msgs[i]), DOMAIN msgs)

-----------------------------------------------------------------------------
\* Queue

QueuePending(q) == SessionPending(q.inner)

\* Queue::cursor: the absolute cursor, compacted messages included.
QueueCursor(q) == q.base + q.inner.cursor

\* Queue::enqueue's refusals, once the size is known to be within the cap.
QueueHasRoom(q, size) ==
    /\ Len(QueuePending(q)) < MAX_PENDING
    /\ q.pending_bytes + size <= MAX_QUEUE_BYTES

QueueEnqueue(q, m) ==
    [base |-> q.base,
     inner |-> SessionAppend(q.inner, m),
     pending_bytes |-> q.pending_bytes + ByteLen(m)]

\* Mutant of Compact: the dropped count never reaches the base.
CompactForgetsBase(q) ==
    [q EXCEPT !.inner = SessionOf(SessionPending(q.inner))]

\* Queue::compact: rebuild the session from its pending tail and move the
\* count of what was dropped into `base`.
Compact(q) ==
    IF q.inner.cursor = 0
    THEN q
    ELSE [base |-> q.base + q.inner.cursor,
          inner |-> SessionOf(SessionPending(q.inner)),
          pending_bytes |-> q.pending_bytes]

\* Queue::ack returns true: `checked_sub` refuses a position below the base.
QueueAckAccepts(q, up_to) ==
    /\ up_to >= q.base
    /\ SessionAckAccepts(q.inner, up_to - q.base)

\* Queue::ack once accepted: advance, compact, recount.
QueueAck(q, up_to) ==
    LET advanced == [base |-> q.base,
                     inner |-> SessionAck(q.inner, up_to - q.base),
                     pending_bytes |-> q.pending_bytes]
        compacted == Compact(advanced)
    IN  [base |-> compacted.base,
         inner |-> compacted.inner,
         pending_bytes |-> BytesOf(QueuePending(compacted))]

\* Queue::from_parts: append the resident tail to a new session, then
\* acknowledge the resident messages the snapshot says were acknowledged.
QueueFromParts(base, resident, inner_cursor) ==
    LET inner == SessionAck(SessionOf(resident), inner_cursor)
    IN  [base |-> base, inner |-> inner,
         pending_bytes |-> BytesOf(SessionPending(inner))]

-----------------------------------------------------------------------------
\* Relay

\* Relay::pending and Relay::cursor, what a Poll returns.
Pending(d) == QueuePending(queues[d])
Cursor(d) == QueueCursor(queues[d])

\* The user's and the node's true totals, which the indices stand for.
UserTotal(qs, u) ==
    MapThenSumSet(LAMBDA d : qs[d].pending_bytes, {d \in Devices : d.user = u})
GrandTotal(qs) == MapThenSumSet(LAMBDA d : qs[d].pending_bytes, Devices)

\* Relay::snapshot: base, inner cursor and resident log of every queue.
Snapshot ==
    [d \in Devices |-> [base |-> queues[d].base,
                        inner_cursor |-> queues[d].inner.cursor,
                        resident |-> queues[d].inner.log]]

\* Relay::restore_v2 and restore_legacy over a well-formed snapshot.
Restored(snap) ==
    [d \in Devices |->
        QueueFromParts(snap[d].base, snap[d].resident, snap[d].inner_cursor)]

\* Relay::rebuild_user_bytes
IndicesRebuilt(qs) ==
    /\ user_bytes' = [u \in Users |-> UserTotal(qs, u)]
    /\ total_bytes' = GrandTotal(qs)

SaturatingSub(a, b) == IF a >= b THEN a - b ELSE 0

Init ==
    /\ file \in BootFiles
    /\ snapshot = file
    /\ queues = Restored(file)
    /\ user_bytes = [u \in Users |-> UserTotal(queues, u)]
    /\ total_bytes = GrandTotal(queues)
    /\ max_total_bytes \in Ceilings
    /\ accepted = [d \in Devices |-> file[d].resident]
    /\ acceptedAt = [snapshot |-> accepted, file |-> accepted]

\* Mutant of Admits: no budget across a user's devices.
AdmitsPerQueue(to, m) ==
    LET size == ByteLen(m) IN
    /\ size <= MAX_ENVELOPE_BYTES
    /\ total_bytes + size <= max_total_bytes
    /\ QueueHasRoom(queues[to], size)

\* Relay::enqueue's conditions for Enqueued::Ok.  A refusal changes nothing.
Admits(to, m) ==
    LET size == ByteLen(m) IN
    /\ size <= MAX_ENVELOPE_BYTES
    /\ total_bytes + size <= max_total_bytes
    /\ user_bytes[to.user] + size <= MAX_USER_BYTES
    /\ QueueHasRoom(queues[to], size)

\* Request::Send: `from` is the authenticated device, `to` any device.
Send(from, to, body) ==
    LET m == [from |-> from, body |-> body] IN
    /\ Admits(to, m)
    /\ queues' = [queues EXCEPT ![to] = QueueEnqueue(queues[to], m)]
    /\ user_bytes' = [user_bytes EXCEPT ![to.user] = @ + ByteLen(m)]
    /\ total_bytes' = total_bytes + ByteLen(m)
    /\ accepted' = [accepted EXCEPT ![to] = Append(@, m)]
    /\ UNCHANGED <<max_total_bytes, diskVars, acceptedAt>>

\* Request::Ack by the authenticated device of its own queue.  Any position a
\* client may name is tried; one that is not accepted changes nothing.
Ack(d, up_to) ==
    LET acked == QueueAck(queues[d], up_to)
        freed == queues[d].pending_bytes - acked.pending_bytes
    IN
    /\ QueueAckAccepts(queues[d], up_to)
    /\ queues' = [queues EXCEPT ![d] = acked]
    /\ user_bytes' = [user_bytes EXCEPT ![d.user] = SaturatingSub(@, freed)]
    /\ total_bytes' = SaturatingSub(total_bytes, freed)
    /\ UNCHANGED <<max_total_bytes, diskVars, historyVars>>

\* The relay half of persist_state: the snapshot is taken under the relay's
\* lock, the file is replaced later, with requests served in between.
TakeSnapshot ==
    /\ snapshot' = Snapshot
    /\ acceptedAt' = [snapshot |-> accepted, file |-> acceptedAt.file]
    /\ UNCHANGED <<relayVars, file, accepted>>

WriteSnapshot ==
    /\ file' = snapshot
    /\ acceptedAt' = [snapshot |-> acceptedAt.snapshot, file |-> acceptedAt.snapshot]
    /\ UNCHANGED <<relayVars, snapshot, accepted>>

\* The process ends, at any moment, and Server::bind loads the file under the
\* ceiling the deployment configures this time.
Restart(ceiling) ==
    /\ queues' = Restored(file)
    /\ IndicesRebuilt(queues')
    /\ max_total_bytes' = ceiling
    /\ snapshot' = file
    /\ accepted' = acceptedAt.file
    /\ acceptedAt' = [snapshot |-> acceptedAt.file, file |-> acceptedAt.file]
    /\ UNCHANGED file

\* Positions an acknowledgement may name: everything resident, and one past.
Positions(d) == 0..(queues[d].base + Len(queues[d].inner.log) + 1)

Next ==
    \/ \E from \in Senders, to \in Devices, body \in Bodies : Send(from, to, body)
    \/ \E d \in Devices : \E up_to \in Positions(d) : Ack(d, up_to)
    \/ TakeSnapshot
    \/ WriteSnapshot
    \/ \E ceiling \in Ceilings : Restart(ceiling)

Spec == Init /\ [][Next]_vars
-----------------------------------------------------------------------------
\* Properties

Queues ==
    [base : Nat, inner : [log : Seq(Messages), cursor : Nat], pending_bytes : Nat]
Parts == [base : Nat, inner_cursor : Nat, resident : Seq(Messages)]

\* Type invariant of the relay's state, its snapshots and the histories.
TypeOK ==
    /\ queues \in [Devices -> Queues]
    /\ user_bytes \in [Users -> Nat]
    /\ total_bytes \in Nat
    /\ max_total_bytes \in Ceilings
    /\ snapshot \in [Devices -> Parts]
    /\ file \in [Devices -> Parts]
    /\ accepted \in [Devices -> Seq(Messages)]
    /\ acceptedAt \in [snapshot : [Devices -> Seq(Messages)],
                       file : [Devices -> Seq(Messages)]]

\* `tail` is what is left of `all` after the first `n`.
IsRest(tail, all, n) == n <= Len(all) /\ tail = SubSeq(all, n + 1, Len(all))

\* A poll shows a device exactly the messages accepted for it past its absolute
\* cursor, in order: compaction, the base arithmetic of Queue::ack and a restore
\* lose none, repeat none and reorder none (relay lib.rs, Queue).
PendingIsTheRest ==
    \A d \in Devices : IsRest(Pending(d), accepted[d], Cursor(d))

BytesIn(ds) == MapThenSumSet(LAMBDA d : BytesOf(Pending(d)), ds)

WithinBudgets(d) ==
    /\ Len(Pending(d)) <= MAX_PENDING
    /\ BytesIn({d}) <= MAX_QUEUE_BYTES
    /\ BytesIn({e \in Devices : e.user = d.user}) <= MAX_USER_BYTES
    /\ BytesIn(Devices) <= max_total_bytes

\* A message is only ever accepted into a relay that, counted afresh, stays
\* within all four budgets with it, even if a restart found more on disk than
\* the budgets now allow (Relay::enqueue).
AcceptsWithinBudgets ==
    [][\A d \in Devices :
          Len(accepted'[d]) > Len(accepted[d]) => WithinBudgets(d)']_vars

CursorsOf(parts) == [d \in Devices |-> parts[d].base + parts[d].inner_cursor]

Promise == INSTANCE DeliveryLog WITH
    log <- accepted,
    cursor <- [d \in Devices |-> Cursor(d)],
    staged <- [log |-> acceptedAt.snapshot, cursor |-> CursorsOf(snapshot)],
    saved <- [log |-> acceptedAt.file, cursor |-> CursorsOf(file)]

\* The relay, which keeps only a base, a resident tail and a cursor into it,
\* implements the append-only log and monotone cursor of DeliveryLog, through
\* compaction and through restarts from the last file written.
ImplementsDeliveryLog == Promise!Spec
=============================================================================
