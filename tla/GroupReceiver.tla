---------------------------- MODULE GroupReceiver ----------------------------
(***************************************************************************)
(* The receiver of a group's application messages (crates/tacenta-group,   *)
(* receive.rs), and the records a coordinator keeps of what it decided     *)
(* (crates/tacenta-client, group_operations.rs), as operators.             *)
(*                                                                         *)
(* A context is what a sender encrypted for this recipient: its revision   *)
(* and roster digest, sender, sequence and payload; `peer` is whom the     *)
(* pairwise session authenticated.  The commitment of a context stands for *)
(* the context.  A member is a pair of an identity and a device.  The many *)
(* reasons for a refusal are one disposition, "rejected".                  *)
(***************************************************************************)
EXTENDS Integers, Sequences, FiniteSets, SequencesExt

CONSTANTS
    DEDUP_WINDOW,            \* sequences of one sender that are remembered
    MAX_SEQUENCE,            \* u64::MAX, the highest sequence
    FUTURE_REVISIONS,        \* how far ahead of the roster a context may be
    MAX_DEFERRED,            \* contexts that wait for a roster
    MAX_DEFERRED_UNLISTED,   \* of them, from senders the roster does not list
    MAX_INBOX_RECORDS        \* dispositions the snapshot keeps

ASSUME ReceiverAssumption ==
    /\ DEDUP_WINDOW \in Nat \ {0} /\ MAX_SEQUENCE \in Nat /\ FUTURE_REVISIONS \in Nat
    /\ MAX_DEFERRED \in Nat /\ MAX_DEFERRED_UNLISTED \in Nat
    /\ MAX_INBOX_RECORDS \in Nat \ {0} /\ MAX_DEFERRED <= MAX_INBOX_RECORDS

Identity(member) == member[1]

\* GroupReceiver::new
NewReceiver(roster, local) ==
    [roster |-> roster, local |-> local, accepted |-> {}, deferred |-> <<>>, next_event_id |-> 0]

\* GroupReceiver::is_active
IsActive(r, member) == ~r.roster.closed /\ member \in r.roster.members

SameKey(c, d) ==
    c.revision = d.revision /\ c.sender = d.sender /\ c.sequence = d.sequence

Rejected(r) == [receiver |-> r, disposition |-> "rejected", event |-> -1]

-----------------------------------------------------------------------------
\* Contexts of the accepted roster's revision

\* Sequences accepted from the sender of c, whose entries the receiver keeps.
Newest(r, c) ==
    Max({-1} \union {a.context.sequence : a \in {b \in r.accepted : b.context.sender = c.sender}})

\* Where the window of a sequence ends: a saturating sum, which at the top of the
\* range does not pass the sequence itself.
WindowEnd(sequence) == Min({sequence + DEDUP_WINDOW, MAX_SEQUENCE})

\* Mutant of Expired: a sequence is refused one later than its entry is dropped.
ExpiredLate(r, c) == WindowEnd(c.sequence) < Newest(r, c)

\* Too far behind the sender's newest sequence to be known as new or repeated.
Expired(r, c) == WindowEnd(c.sequence) <= Newest(r, c)

\* GroupReceiver::accept_current: a known key is a duplicate or a conflict; a new
\* one takes the next event id, and entries that leave the window are dropped.
AcceptCurrent(r, c) ==
    LET known == {a \in r.accepted : SameKey(a.context, c)}
        entry == [context |-> c, event |-> r.next_event_id]
        newest == Max({Newest(r, c), c.sequence})
        inWindow(a) == a.context.sender # c.sender \/ WindowEnd(a.context.sequence) > newest
    IN  IF known # {}
        THEN IF \E a \in known : a.context = c
             THEN [receiver |-> r, disposition |-> "duplicate",
                   event |-> (CHOOSE a \in known : TRUE).event]
             ELSE Rejected(r)
        ELSE IF Expired(r, c) THEN Rejected(r)
        ELSE [receiver |-> [r EXCEPT !.accepted = {a \in @ \union {entry} : inWindow(a)},
                                     !.next_event_id = @ + 1],
              disposition |-> "accepted", event |-> r.next_event_id]

-----------------------------------------------------------------------------
\* Contexts ahead of the accepted roster

Unlisted(r) == {i \in DOMAIN r.deferred : ~IsActive(r, r.deferred[i].sender)}

\* GroupReceiver::unlisted_slot_is_open_to
UnlistedSlotIsOpenTo(r, sender) ==
    /\ \A i \in Unlisted(r) : Identity(r.deferred[i].sender) # Identity(sender)
    /\ Cardinality(Unlisted(r)) < MAX_DEFERRED_UNLISTED

\* GroupReceiver::defer
Defer(r, c) ==
    LET known == {d \in ToSet(r.deferred) : SameKey(d, c)}
        held == [receiver |-> r, disposition |-> "deferred", event |-> -1]
    IN  IF known # {}
        THEN IF c \in known THEN held ELSE Rejected(r)
        ELSE IF \/ Len(r.deferred) = MAX_DEFERRED
                \/ (~IsActive(r, c.sender) /\ ~UnlistedSlotIsOpenTo(r, c.sender))
        THEN Rejected(r)
        ELSE [held EXCEPT !.receiver.deferred = Append(@, c)]

-----------------------------------------------------------------------------
\* Receiving, and a new roster

\* GroupReceiver::receive
Receive(r, c, peer) ==
    IF peer # c.sender \/ c.recipient # r.local \/ ~IsActive(r, r.local) THEN Rejected(r)
    ELSE IF c.revision > r.roster.revision + FUTURE_REVISIONS THEN Rejected(r)
    ELSE IF c.revision > r.roster.revision THEN Defer(r, c)
    ELSE IF \/ ~IsActive(r, c.sender)
            \/ c.revision < r.roster.revision
            \/ c.digest # r.roster.digest
    THEN Rejected(r)
    ELSE AcceptCurrent(r, c)

\* GroupReceiver::install_accepted_roster: only the new revision's messages are
\* remembered from here, and everything that waited is received again in order.
InstallAcceptedRoster(r, roster) ==
    LET base == [r EXCEPT !.roster = roster, !.accepted = {}, !.deferred = <<>>]
        step(acc, c) == LET result == Receive(acc.receiver, c, c.sender)
                        IN  [receiver |-> result.receiver,
                             results |-> Append(acc.results, [context |-> c,
                                 disposition |-> result.disposition, event |-> result.event])]
    IN  FoldLeft(step, [receiver |-> base, results |-> <<>>], r.deferred)

\* GroupReceiver::decode_state: what a stored receiver must satisfy to be
\* restored.  The receiver of a removed member or a closed group is terminal and
\* holds nothing.
Decodes(r) ==
    LET terminal == ~IsActive(r, r.local)
        waiting == ToSet(r.deferred)
        unlisted == Unlisted(r)
    IN  /\ terminal => r.accepted = {} /\ r.deferred = <<>>
        /\ \A a \in r.accepted :
               /\ a.context.revision = r.roster.revision
               /\ a.context.sender \in r.roster.members
               /\ a.event < r.next_event_id
               /\ \A b \in r.accepted :
                      (SameKey(a.context, b.context) \/ a.event = b.event) => a = b
        /\ Len(r.deferred) <= MAX_DEFERRED
        /\ \A c \in waiting :
               /\ c.recipient = r.local
               /\ c.revision > r.roster.revision
               /\ c.revision <= r.roster.revision + FUTURE_REVISIONS
        /\ \A i, j \in DOMAIN r.deferred : SameKey(r.deferred[i], r.deferred[j]) => i = j
        /\ Cardinality(unlisted) <= MAX_DEFERRED_UNLISTED
        /\ \A i, j \in unlisted :
               Identity(r.deferred[i].sender) = Identity(r.deferred[j].sender) => i = j

-----------------------------------------------------------------------------
\* The inbox: one record per disposition

Scrubbed == [scrubbed |-> TRUE]
NoContext == [event |-> -1, context |-> Scrubbed]

\* push_bounded
PushBounded(inbox, record) ==
    LET all == Append(inbox, record)
    IN  IF Len(all) > MAX_INBOX_RECORDS
        THEN SubSeq(all, Len(all) - MAX_INBOX_RECORDS + 1, Len(all))
        ELSE all

\* record_receive and encode_receive_record: the context of an accepted message is
\* kept with its event, every other disposition keeps no context.
RecordReceive(inbox, c, disposition, event) ==
    PushBounded(inbox, IF disposition = "accepted" THEN [event |-> event, context |-> c]
                       ELSE NoContext)

\* undelivered_events: the retained events at or above the cursor.
UndeliveredEvents(inbox, cursor) ==
    {r \in ToSet(inbox) : r.event >= cursor /\ r.context # Scrubbed}

\* commit_delivery_cursor, the rewrite of the inbox: delivered events lose their
\* context.
Scrub(inbox, cursor) ==
    [i \in DOMAIN inbox |->
        IF inbox[i].event < cursor /\ inbox[i].event >= 0
        THEN [event |-> inbox[i].event, context |-> Scrubbed] ELSE inbox[i]]
=============================================================================
