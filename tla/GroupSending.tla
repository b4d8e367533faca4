---------------------------- MODULE GroupSending ----------------------------
(***************************************************************************)
(* A group coordinator that sends: GroupClient's send_group and            *)
(* dispatch_pending_group_sends (crates/tacenta-client, group_client.rs)   *)
(* over the commits of group_operations.rs, with the roster changes that   *)
(* cancel what has not been sent, the relay, and crashes.                  *)
(*                                                                         *)
(* Every commit replaces the whole durable snapshot; the coordinator       *)
(* adopts the new outbox only when the store says `Committed`, and is      *)
(* frozen until it recovers otherwise.  One coordinator owns the store     *)
(* (Coordinator.tla is about several).                                     *)
(***************************************************************************)
EXTENDS GroupOutbox

CONSTANTS
    Me,             \* the coordinator's own member
    Rosters,        \* Rosters[r]: the authority's roster of revision r - 1
    Payloads,       \* what a caller may send
    Audiences,      \* the sets of recipients a caller may name
    MaxSequence,    \* bound: MaxSequence[r], logical sends written at revision r - 1
    MaxPosition     \* bound: MaxPosition[m], ratchet positions used towards m

VARIABLES
    durable,    \* the snapshot the store holds
    snapshot,   \* GroupClient.snapshot
    outbox,     \* GroupState.outbox
    ratchet,    \* the client's pairwise state: positions used per recipient
    frozen,     \* the store's latch
    phase,      \* where the coordinator is in the call it is serving
    handoff,    \* the handoff under way: [id, to, bytes, payload]
    wire,       \* history: the handoffs the transport was given
    dispatches  \* history: handoffs begun, [id, to] |-> how many

memory == <<snapshot, outbox, ratchet, frozen, phase, handoff>>
vars == <<durable, memory, wire, dispatches>>

Members == UNION {Rosters[r].members : r \in DOMAIN Rosters}
Revisions == {r - 1 : r \in DOMAIN Rosters}
RosterAt(revision) == Rosters[revision + 1]
NoHandoff == [bytes |-> NoBytes]

\* OperationSnapshot: outbox, the latest TCGX, the revision of TCGV, and
\* provider_state.
EmptySnapshot ==
    [transcript |-> <<>>, cancelled |-> 0, revision |-> 0, ratchet |-> [m \in Members |-> 0]]

\* recover_group_outbox
RecoverOutbox(s) == RecoverFromTranscript(s.transcript, s.cancelled)

Init ==
    /\ durable = EmptySnapshot /\ snapshot = EmptySnapshot
    /\ outbox = NewOutbox /\ ratchet = EmptySnapshot.ratchet
    /\ frozen = FALSE /\ phase = "idle" /\ handoff = NoHandoff
    /\ wire = {} /\ dispatches = [id \in {} |-> 0]

Idle == phase = "idle" /\ ~frozen

-----------------------------------------------------------------------------
\* Commits

\* What a commit may come to: `lost` and `landed` are a write reported failed or
\* unknown, absent from the store or present in it.
Outcomes == {"committed", "landed", "lost"}

\* begin_candidate and DurableStore::commit, for a candidate snapshot whose
\* outbox is `next`.
Commit(candidate, next, outcome) ==
    /\ durable' = IF outcome = "lost" THEN durable ELSE candidate
    /\ IF outcome = "committed"
       THEN snapshot' = candidate /\ outbox' = next /\ UNCHANGED frozen
       ELSE frozen' = TRUE /\ UNCHANGED <<snapshot, outbox>>

\* A candidate with one more record, compacted; and the outbox that goes with
\* it: rebuilt when anything was dropped, `next` otherwise.
Compacted(record) ==
    [snapshot EXCEPT !.transcript = Compact(Append(@, record), snapshot.cancelled)]

AfterCompaction(candidate, whole, next) ==
    IF candidate.transcript = whole THEN next ELSE RecoverOutbox(candidate)

-----------------------------------------------------------------------------
\* Sending

\* GroupClient::send_group up to commit_logical_intent: the sequence comes from
\* the outbox, LogicalSend::new and GroupOutbox::record may refuse, and the
\* intent is committed before anything is encrypted.
SendGroup(recipients, payload, outcome) ==
    LET revision == snapshot.revision
        send == LogicalSend(revision, NextSequence(outbox, revision), recipients, payload)
    IN  /\ Idle
        /\ send.id.sequence < MaxSequence[revision + 1]
        /\ MayWrite(RosterAt(revision), Me, recipients)
        /\ MayInsert(outbox, send, 0)
        /\ Commit([snapshot EXCEPT !.transcript = Append(@, IntentRecord(send))],
                  Insert(outbox, send), outcome)
        /\ UNCHANGED <<ratchet, phase, handoff, wire, dispatches>>

\* A recipient of a send the outbox holds, as drive_send walks them.
Recipient(id, to) ==
    Holds(outbox, id) /\ to \in DOMAIN SendOf(outbox, id).progress

\* Mutant of PrepareRecipient: the ciphertext is committed without the provider
\* state that made it.
KeepsProviderState(id, to, outcome) ==
    LET bytes == ratchet[to] + 1
        p == Prepared(ProgressOf(outbox, id, to), bytes)
    IN  /\ Idle /\ Recipient(id, to)
        /\ ProgressOf(outbox, id, to).disposition = "pending"
        /\ bytes <= MaxPosition[to]
        /\ ratchet' = [ratchet EXCEPT ![to] = bytes]
        /\ Commit([snapshot EXCEPT !.transcript = Append(@, PreparedRecord(id, to, p))],
                  SetProgress(outbox, id, to, p), outcome)
        /\ UNCHANGED <<phase, handoff, wire, dispatches>>

\* prepare_outbox_group_recipient for a recipient with nothing prepared: a dry
\* run, one encryption, and a commit of the ciphertext with the provider state.
PrepareRecipient(id, to, outcome) ==
    LET bytes == ratchet[to] + 1
        p == Prepared(ProgressOf(outbox, id, to), bytes)
    IN  /\ Idle /\ Recipient(id, to)
        /\ ProgressOf(outbox, id, to).disposition = "pending"
        /\ bytes <= MaxPosition[to]
        /\ ratchet' = [ratchet EXCEPT ![to] = bytes]
        /\ Commit([snapshot EXCEPT !.transcript = Append(@, PreparedRecord(id, to, p)),
                                   !.ratchet = ratchet'],
                  SetProgress(outbox, id, to, p), outcome)
        /\ UNCHANGED <<phase, handoff, wire, dispatches>>

\* prepare_group_ciphertext fails, or its future is dropped, after the ratchet
\* advanced: nothing is recorded, and nothing latches the coordinator.
PrepareFails(id, to) ==
    /\ Idle /\ Recipient(id, to)
    /\ ProgressOf(outbox, id, to).disposition = "pending"
    /\ ratchet[to] < MaxPosition[to]
    /\ ratchet' = [ratchet EXCEPT ![to] = @ + 1]
    /\ UNCHANGED <<durable, snapshot, outbox, frozen, phase, handoff, wire, dispatches>>

\* The exact bytes a reservation releases, with the message they carry.
HandoffOf(id, to) ==
    [id |-> id, to |-> to, bytes |-> ProgressOf(outbox, id, to).bytes,
     payload |-> SendOf(outbox, id).payload]

Counted(id, to) ==
    (<<id, to>> :> 1 + IF <<id, to>> \in DOMAIN dispatches THEN dispatches[<<id, to>>] ELSE 0)
    @@ dispatches

\* commit_outbox_handoff_reservation, the first step of
\* dispatch_outbox_group_handoff.  Once it has committed the bytes are with the
\* transport, which may give them to the relay, once or twice.
ReserveHandoff(id, to, outcome) ==
    LET p == Reserved(ProgressOf(outbox, id, to))
        record == HandoffRecord(id, to, p)
        candidate == Compacted(record)
        next == SetProgress(outbox, id, to, p)
    IN  /\ Idle /\ Recipient(id, to)
        /\ MayReserve(ProgressOf(outbox, id, to))
        /\ Commit(candidate,
                  AfterCompaction(candidate, Append(snapshot.transcript, record), next), outcome)
        /\ IF outcome = "committed"
           THEN /\ phase' = "sending"
                /\ handoff' = HandoffOf(id, to)
                /\ wire' = wire \union {HandoffOf(id, to)}
                /\ dispatches' = Counted(id, to)
           ELSE UNCHANGED <<phase, handoff, wire, dispatches>>
        /\ UNCHANGED ratchet

\* dispatch_group_ciphertext fails: the relay refused, or its answer is lost.
\* The recipient stays handed off.
DispatchFails ==
    /\ phase = "sending"
    /\ phase' = "idle" /\ handoff' = NoHandoff
    /\ UNCHANGED <<durable, snapshot, outbox, ratchet, frozen, wire, dispatches>>

\* The relay's `Ok` reaches the client.
RelayAnswers ==
    /\ phase = "sending"
    /\ phase' = "accepted"
    /\ UNCHANGED <<durable, snapshot, outbox, ratchet, frozen, handoff, wire, dispatches>>

\* commit_outbox_relay_acceptance, the last step of dispatch_outbox_group_handoff.
\* A send its own reservation compacted away is refused as unknown.
RecordAcceptance(outcome) ==
    /\ phase = "accepted"
    /\ phase' = "idle" /\ handoff' = NoHandoff
    /\ IF Holds(outbox, handoff.id) /\ MayAccept(ProgressOf(outbox, handoff.id, handoff.to))
       THEN LET p == RelayAccepted(ProgressOf(outbox, handoff.id, handoff.to))
                record == AcceptanceRecord(handoff.id, handoff.to, p)
                candidate == Compacted(record)
                next == SetProgress(outbox, handoff.id, handoff.to, p)
            IN  Commit(candidate,
                       AfterCompaction(candidate, Append(snapshot.transcript, record), next),
                       outcome)
       ELSE outcome = "committed" /\ UNCHANGED <<durable, snapshot, outbox, frozen>>
    /\ UNCHANGED <<ratchet, wire, dispatches>>

-----------------------------------------------------------------------------
\* Roster changes, and losing the process

\* commit_roster_transition, as far as the outbox goes: the view, the
\* cancellation checkpoint and the cancelled, compacted outbox in one commit.
AcceptRoster(outcome) ==
    LET revision == snapshot.revision + 1
        transcript == Compact(snapshot.transcript, revision)
        candidate == [snapshot EXCEPT !.revision = revision, !.cancelled = revision,
                                      !.transcript = transcript]
    IN  /\ Idle /\ revision \in Revisions
        /\ Commit(candidate,
                  AfterCompaction(candidate, snapshot.transcript,
                                  CancelForNewerRoster(outbox, revision)), outcome)
        /\ UNCHANGED <<ratchet, phase, handoff, wire, dispatches>>

\* The process ends, wherever it is.
Crash ==
    /\ phase # "closed"
    /\ phase' = "closed" /\ handoff' = NoHandoff
    /\ snapshot' = EmptySnapshot /\ outbox' = NewOutbox /\ ratchet' = EmptySnapshot.ratchet
    /\ frozen' = FALSE
    /\ UNCHANGED <<durable, wire, dispatches>>

\* GroupClient::open and join_group after a restart, or recover after a freeze:
\* every in-memory value comes from the durable snapshot.
Reopen ==
    /\ phase = "closed" \/ (phase = "idle" /\ frozen)
    /\ RecoverOutbox(durable) # Malformed
    /\ snapshot' = durable /\ outbox' = RecoverOutbox(durable)
    /\ ratchet' = durable.ratchet
    /\ frozen' = FALSE /\ phase' = "idle"
    /\ UNCHANGED <<durable, handoff, wire, dispatches>>

Ids == {outbox.sends[i].id : i \in DOMAIN outbox.sends}

Next ==
    \/ \E recipients \in Audiences, payload \in Payloads, outcome \in Outcomes :
           SendGroup(recipients, payload, outcome)
    \/ \E id \in Ids, to \in Members :
           \/ PrepareFails(id, to)
           \/ \E outcome \in Outcomes :
                  PrepareRecipient(id, to, outcome) \/ ReserveHandoff(id, to, outcome)
    \/ DispatchFails \/ RelayAnswers
    \/ \E outcome \in Outcomes : RecordAcceptance(outcome) \/ AcceptRoster(outcome)
    \/ Crash \/ Reopen

Spec == Init /\ [][Next]_vars

-----------------------------------------------------------------------------
\* Properties

\* Every value has the shape of the source's types, and a recipient's ciphertext
\* and attempts are the ones its disposition implies.
TypeOK ==
    /\ phase \in {"idle", "sending", "accepted", "closed"}
    /\ durable.revision \in Revisions
    /\ \A s \in ToSet(outbox.sends) : \A m \in DOMAIN s.progress :
           LET p == s.progress[m]
           IN  /\ p.disposition \in Dispositions
               /\ p.bytes \in 0 .. MaxPosition[m] /\ p.attempts \in 0 .. MAX_ATTEMPTS
               /\ p.disposition = "pending" => p.bytes = NoBytes
               /\ p.disposition \notin {"pending", "cancelled"} => p.bytes # NoBytes
               /\ p.disposition \in {"pending", "prepared", "cancelled"} <=> p.attempts = 0
               /\ p.disposition = "exhausted_unknown" => p.attempts = MAX_ATTEMPTS

\* recover_from_transcript_at_revision promises "the recovered outbox equals the
\* one that was running, including its applied revision": whatever sends were
\* inserted, prepared, handed off, accepted, cancelled by a roster or compacted
\* away, a coordinator that is not frozen runs the outbox a restart would build,
\* and what a write in doubt left in the store can be replayed as well.
RecoveredEqualsRunning ==
    LET recovered == RecoverOutbox(durable)
    IN  IF phase # "closed" /\ ~frozen
        THEN durable = snapshot /\ outbox = recovered
        ELSE recovered # Malformed

\* A logical id names one message (0138), and a retry sends the committed bytes:
\* handoffs under the same revision and sequence carry the same payload, and the
\* same ciphertext to the same recipient, although compaction forgets sends,
\* sequences restart at each revision, and a crash or a write in doubt may lose
\* the newest intent.
OneMessagePerId ==
    \A a, b \in wire :
        a.id = b.id => a.payload = b.payload /\ (a.to = b.to => a.bytes = b.bytes)

\* No ratchet position towards a recipient carries two messages, across failed
\* preparations, freezes and restarts (0134).
OneMessagePerPosition ==
    \A a, b \in wire : a.to = b.to /\ a.bytes = b.bytes => a = b

\* Once the store holds a newer roster, no handoff of an older revision begins,
\* in this process or in one that recovered, and none after MAX_ATTEMPTS of them:
\* each reservation is durable before it is used (0100, 0106).
HandoffsAreDue ==
    [][\A d \in DOMAIN dispatches' :
           (d \notin DOMAIN dispatches \/ dispatches'[d] # dispatches[d])
               => d[1].revision >= durable.revision /\ dispatches'[d] <= MAX_ATTEMPTS]_vars

\* An acceptance by the relay ends as relay_accepted in the outbox: "the acceptance
\* is recorded whichever attempt it was (0135)" (dispatch_outbox_group_handoff).  The
\* reservation of a last attempt may compact its own send away, and then this fails.
AcceptanceIsRecorded ==
    [][phase = "accepted" /\ phase' = "idle" /\ ~frozen'
           => /\ Holds(outbox', handoff.id)
              /\ ProgressOf(outbox', handoff.id, handoff.to).disposition = "relay_accepted"]_vars

=============================================================================
