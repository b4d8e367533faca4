---------------------------- MODULE GroupOutbox ----------------------------
(***************************************************************************)
(* The outbox of a group's logical sends (crates/tacenta-group, send.rs)   *)
(* and the transcript it is rebuilt from (crates/tacenta-client,           *)
(* group_operations.rs), as operators.                                     *)
(*                                                                         *)
(* A logical send is one payload for a fixed set of recipients under the   *)
(* roster revision it was written at; its sender is the coordinator's own  *)
(* member and its group the coordinator's one group.  A ciphertext is the  *)
(* position of the pairwise sending ratchet that produced it, so equal     *)
(* positions towards one recipient are equal bytes.  The commitment of the *)
(* context a ciphertext was made for is a function of the send and the     *)
(* recipient, and is not kept apart from them.                             *)
(***************************************************************************)
EXTENDS Integers, Sequences, FiniteSets, SequencesExt

CONSTANTS
    MAX_LIVE_LOGICAL_SENDS,       \* sends that are not terminal
    MAX_TERMINAL_LOGICAL_SENDS,   \* terminal sends the transcript keeps
    MAX_ATTEMPTS                  \* handoffs one recipient may be reserved

ASSUME OutboxAssumption ==
    /\ MAX_LIVE_LOGICAL_SENDS \in Nat \ {0}
    /\ MAX_TERMINAL_LOGICAL_SENDS \in Nat \ {0}
    /\ MAX_ATTEMPTS \in Nat \ {0}

\* No ciphertext, and an outbox that a transcript does not yield.
NoBytes == 0
Malformed == [malformed |-> TRUE]

\* RecipientDisposition
Terminal == {"relay_accepted", "cancelled", "cancelled_after_handoff", "exhausted_unknown"}
Dispositions == {"pending", "prepared", "handed_off"} \union Terminal

-----------------------------------------------------------------------------
\* One recipient of a logical send

Pending == [disposition |-> "pending", bytes |-> NoBytes, attempts |-> 0]

\* LogicalSend::record_prepared: a ciphertext is stored once; the same bytes
\* again change nothing, and other bytes are a conflict.
MayPrepare(p, bytes) ==
    \/ p.disposition = "pending"
    \/ p.disposition \in {"prepared", "handed_off"} /\ p.bytes = bytes

Prepared(p, bytes) ==
    IF p.disposition = "pending"
    THEN [p EXCEPT !.disposition = "prepared", !.bytes = bytes]
    ELSE p

\* LogicalSend::reserve_handoff: the last attempt there is counts as exhausted
\* before its bytes are sent.
MayReserve(p) ==
    p.disposition \in {"prepared", "handed_off"} /\ p.attempts < MAX_ATTEMPTS

Reserved(p) ==
    [p EXCEPT !.attempts = @ + 1,
              !.disposition = IF p.attempts + 1 = MAX_ATTEMPTS
                              THEN "exhausted_unknown" ELSE "handed_off"]

\* LogicalSend::record_relay_accepted
MayAccept(p) == p.disposition \in {"handed_off", "exhausted_unknown"}
RelayAccepted(p) == [p EXCEPT !.disposition = "relay_accepted"]

\* Mutant of Cancelled: a handoff in flight may still be retried.
KeepsHandedOff(p) ==
    [p EXCEPT !.disposition = IF @ \in {"pending", "prepared"} THEN "cancelled" ELSE @]

\* cancel_for_roster_change, for one recipient
Cancelled(p) ==
    [p EXCEPT !.disposition =
        CASE @ \in {"pending", "prepared"} -> "cancelled"
          [] @ = "handed_off" -> "cancelled_after_handoff"
          [] OTHER -> @]

-----------------------------------------------------------------------------
\* Logical sends

\* LogicalSend::new refuses a closed roster, a sender the roster does not list,
\* an empty set of recipients and a recipient the roster does not list.
MayWrite(roster, sender, recipients) ==
    /\ ~roster.closed
    /\ sender \in roster.members
    /\ recipients # {} /\ recipients \subseteq roster.members

LogicalSend(revision, sequence, recipients, payload) ==
    [id |-> [revision |-> revision, sequence |-> sequence],
     payload |-> payload,
     progress |-> [m \in recipients |-> Pending]]

\* LogicalSend::is_terminal
IsTerminal(send) == \A m \in DOMAIN send.progress : send.progress[m].disposition \in Terminal

\* LogicalSend::cancel_for_newer_roster
CancelSend(send, revision) ==
    IF send.id.revision >= revision THEN send
    ELSE [send EXCEPT !.progress = [m \in DOMAIN @ |-> Cancelled(@[m])]]

-----------------------------------------------------------------------------
\* GroupOutbox

NewOutbox == [sends |-> <<>>, applied |-> 0]

\* GroupOutbox::send
Holds(outbox, id) == \E i \in DOMAIN outbox.sends : outbox.sends[i].id = id
SendOf(outbox, id) == outbox.sends[CHOOSE i \in DOMAIN outbox.sends : outbox.sends[i].id = id]
ProgressOf(outbox, id, to) == SendOf(outbox, id).progress[to]

\* GroupOutbox::send_mut: recipient `to` of send `id` has progress p.
SetProgress(outbox, id, to, p) ==
    [outbox EXCEPT !.sends =
        [i \in DOMAIN @ |-> IF @[i].id = id THEN [@[i] EXCEPT !.progress[to] = p] ELSE @[i]]]

\* GroupOutbox::highest_sequence, -1 where the outbox retains no send.
HighestSequence(outbox, revision) ==
    LET at == {s \in ToSet(outbox.sends) : s.id.revision = revision}
    IN  Max({-1} \union {s.id.sequence : s \in at})

\* GroupOutbox::next_sequence
NextSequence(outbox, revision) == HighestSequence(outbox, revision) + 1

LiveSends(outbox) == {s \in ToSet(outbox.sends) : ~IsTerminal(s)}

\* Mutant of MayInsert: a recovery counts the sends its cancellation will end.
CountsCancelled(outbox, send, cancelledBelow) ==
    /\ ~Holds(outbox, send.id)
    /\ send.id.revision >= outbox.applied
    /\ send.id.sequence > HighestSequence(outbox, send.id.revision)
    /\ Cardinality(LiveSends(outbox)) < MAX_LIVE_LOGICAL_SENDS

\* GroupOutbox::insert: what refuses a new send, or an id the outbox already
\* holds.  During a recovery, sends below the revision whose cancellation is
\* still to be applied neither count towards the live cap nor are held to it;
\* 0 where there is no such revision.
MayInsert(outbox, send, cancelledBelow) ==
    LET staysLive(s) == s.id.revision >= cancelledBelow
    IN  /\ ~Holds(outbox, send.id)
        /\ send.id.revision >= outbox.applied
        /\ send.id.sequence > HighestSequence(outbox, send.id.revision)
        /\ staysLive(send) =>
               Cardinality({s \in LiveSends(outbox) : staysLive(s)}) < MAX_LIVE_LOGICAL_SENDS

Insert(outbox, send) == [outbox EXCEPT !.sends = Append(@, send)]

\* GroupOutbox::cancel_for_newer_roster
CancelForNewerRoster(outbox, revision) ==
    [applied |-> Max({outbox.applied, revision}),
     sends |-> [i \in DOMAIN outbox.sends |-> CancelSend(outbox.sends[i], revision)]]

-----------------------------------------------------------------------------
\* The transcript: one record per committed step of a send

\* encode_intent and encode_intent_record
IntentRecord(send) ==
    [tag |-> "TCGI", id |-> send.id, payload |-> send.payload, recipients |-> DOMAIN send.progress]

\* encode_prepared_record
PreparedRecord(id, to, p) == [tag |-> "TCGP", id |-> id, to |-> to, bytes |-> p.bytes]

\* encode_handoff_record
HandoffRecord(id, to, p) ==
    [tag |-> "TCGH", id |-> id, to |-> to, bytes |-> p.bytes,
     attempts |-> p.attempts, disposition |-> p.disposition]

\* encode_relay_acceptance_record
AcceptanceRecord(id, to, p) == [tag |-> "TCGA", id |-> id, to |-> to, bytes |-> p.bytes]

\* decode_intent_record, decode_intent: the send as it was when it was written.
ReplayIntent(outbox, r, cancelledBelow) ==
    LET send == LogicalSend(r.id.revision, r.id.sequence, r.recipients, r.payload)
    IN  IF MayInsert(outbox, send, cancelledBelow) THEN Insert(outbox, send) ELSE Malformed

\* apply_recovered_preparation
ReplayPrepared(outbox, r) ==
    IF Holds(outbox, r.id) /\ r.to \in DOMAIN SendOf(outbox, r.id).progress
       /\ MayPrepare(ProgressOf(outbox, r.id, r.to), r.bytes)
    THEN SetProgress(outbox, r.id, r.to, Prepared(ProgressOf(outbox, r.id, r.to), r.bytes))
    ELSE Malformed

\* The TCGH record: its preparation, then the reservation it says was made.
ReplayHandoff(outbox, r) ==
    LET prepared == ReplayPrepared(outbox, r)
    IN  IF prepared = Malformed THEN Malformed
        ELSE LET p == ProgressOf(prepared, r.id, r.to)
             IN  IF /\ MayReserve(p)
                    /\ r.attempts = p.attempts + 1
                    /\ r.disposition = Reserved(p).disposition
                 THEN SetProgress(prepared, r.id, r.to, Reserved(p))
                 ELSE Malformed

\* The TCGA record: after a final attempt the bytes must be the stored ones,
\* otherwise the preparation is replayed; then the acceptance.
ReplayAcceptance(outbox, r) ==
    LET exhausted == /\ Holds(outbox, r.id)
                     /\ ProgressOf(outbox, r.id, r.to).disposition = "exhausted_unknown"
        prepared == IF ~exhausted THEN ReplayPrepared(outbox, r)
                    ELSE IF ProgressOf(outbox, r.id, r.to).bytes = r.bytes THEN outbox
                    ELSE Malformed
    IN  IF prepared = Malformed THEN Malformed
        ELSE LET p == ProgressOf(prepared, r.id, r.to)
             IN  IF MayAccept(p) THEN SetProgress(prepared, r.id, r.to, RelayAccepted(p))
                 ELSE Malformed

Replay(outbox, r, cancelledBelow) ==
    CASE outbox = Malformed -> Malformed
      [] r.tag = "TCGI" -> ReplayIntent(outbox, r, cancelledBelow)
      [] r.tag = "TCGP" -> ReplayPrepared(outbox, r)
      [] r.tag = "TCGH" -> ReplayHandoff(outbox, r)
      [] r.tag = "TCGA" -> ReplayAcceptance(outbox, r)

\* GroupOutbox::recover_from_transcript_at_revision: the records in order, and
\* the newest cancellation once at the end.
RecoverFromTranscript(transcript, cancelled) ==
    LET step(outbox, r) == Replay(outbox, r, cancelled)
        replayed == FoldLeft(step, NewOutbox, transcript)
    IN  IF replayed = Malformed \/ cancelled = 0 THEN replayed
        ELSE CancelForNewerRoster(replayed, cancelled)

-----------------------------------------------------------------------------
\* Compaction

\* The ids of the terminal sends, in the order each first appears.
TerminalIds(outbox) ==
    LET ended == SelectSeq(outbox.sends, IsTerminal)
    IN  [i \in DOMAIN ended |-> ended[i].id]

\* Mutant of DroppedIds: the newest terminal sends go.
DropsNewest(ids) == {ids[i] : i \in MAX_TERMINAL_LOGICAL_SENDS + 1 .. Len(ids)}

\* The oldest terminal sends beyond the bound.
DroppedIds(ids) == {ids[i] : i \in 1 .. Len(ids) - MAX_TERMINAL_LOGICAL_SENDS}

\* compact_group_outbox: every live send and the most recent terminal ones; a
\* send is kept or dropped whole.
Compact(transcript, cancelled) ==
    LET dropped == DroppedIds(TerminalIds(RecoverFromTranscript(transcript, cancelled)))
        keep(r) == r.id \notin dropped
    IN  SelectSeq(transcript, keep)

=============================================================================
