---------------------------- MODULE GroupRecords ----------------------------
(***************************************************************************)
(* What a group coordinator keeps: the states of its parts and the tagged  *)
(* records of its snapshot, as bytes (tacenta-group, invitation.rs,        *)
(* receive.rs, roster_view.rs and send.rs; tacenta-client,                 *)
(* group_control_outbox.rs, group_deferred_rosters.rs, group_operations.rs *)
(* and operation_store.rs).                                                *)
(*                                                                         *)
(* A domain string or a four-letter tag is abstracted to a pair of bytes   *)
(* of its own.                                                             *)
(***************************************************************************)
EXTENDS GroupFormats, FiniteSets

CONSTANTS
    MAX_INVITATION_RECORDS,                        \* records of a book
    MAX_ACCEPTED,                                  \* MAX_MEMBERS * DEDUP_WINDOW
    FUTURE_REVISIONS, MAX_DEFERRED, MAX_DEFERRED_UNLISTED,
    MAX_RECEIVER_STATE_LEN,
    MAX_LIVE_HANDOFFS, MAX_TERMINAL_HANDOFFS, MAX_ATTEMPTS,
    MAX_DEFERRED_ROSTERS

INVITATION_BOOK_STATE_DOMAIN == <<3, 8>>
RECEIVER_STATE_DOMAIN        == <<3, 9>>
ROSTER_VIEW_STATE_DOMAIN     == <<3, 10>>
CONTROL_OUTBOX_DOMAIN        == <<3, 11>>

(* The core commitments. *)
Commitment(bytes) == Hash(DIGEST_LEN, 0, bytes)

-----------------------------------------------------------------------------
(* The invitation book.                                                    *)

status_code == Sum(<<
    Arm("Pending", 0, <<>>), Arm("AcceptedPendingAdmission", 1, <<>>),
    Arm("Admitted", 2, <<UInt(U64)>>), Arm("Revoked", 3, <<>>), Arm("Expired", 4, <<>>)>>)

PutBook == After(INVITATION_BOOK_STATE_DOMAIN, Struct(<<
    <<"group_id", Fixed(GROUP_ID_LEN)>>,
    <<"invitations", Many(1, Struct(<<
        <<"id", Fixed(INVITATION_ID_LEN)>>,
        <<"target", Struct(<< <<"identity", Bytes(U16)>>, <<"device", Bytes(U16)>> >>)>>,
        <<"source_revision", UInt(U64)>>, <<"source_roster_digest", Fixed(DIGEST_LEN)>>,
        <<"policy_version", UInt(U32)>>, <<"expires_at", UInt(U64)>>,
        <<"status", status_code>> >>))>> >>))

(* The statuses as the reader lists them. *)
TakeStatus == Sum(<<
    Arm("Pending", 0, <<>>), Arm("AcceptedPendingAdmission", 1, <<>>),
    Arm("Admitted", 2, <<UInt(U64)>>), Arm("Revoked", 3, <<>>), Arm("Expired", 4, <<>>)>>)

TakeBook == After(INVITATION_BOOK_STATE_DOMAIN, Struct(<<
    <<"group_id", Fixed(GROUP_ID_LEN)>>,
    <<"invitations", Many(1, Struct(<<
        <<"id", Fixed(INVITATION_ID_LEN)>>,
        <<"target", Struct(<< <<"identity", Bytes(U16)>>, <<"device", Bytes(U16)>> >>)>>,
        <<"source_revision", UInt(U64)>>, <<"source_roster_digest", Fixed(DIGEST_LEN)>>,
        <<"policy_version", UInt(U32)>>, <<"expires_at", UInt(U64)>>,
        <<"status", TakeStatus>> >>))>> >>))

AdmittedReserved(i) == i.status.op = "Admitted" /\ i.status.args[1] = RESERVED_REVISION

SortedById(invitations) == SortSeq(invitations, LAMBDA a, b : BytesLess(a.id, b.id))

encode_book(b) ==
    IF /\ Len(b.invitations) <= MAX_INVITATION_RECORDS
       /\ \A n \in DOMAIN b.invitations :
            ~AdmittedReserved(b.invitations[n]) /\ validate_invitation(b.invitations[n])
    THEN {Put(PutBook, [b EXCEPT !.invitations = SortedById(b.invitations)])}
    ELSE {}

decode_book(bytes, expected_group_id) ==
    {b \in Whole(TakeBook, bytes) :
        /\ b.group_id = expected_group_id
        /\ Len(b.invitations) <= MAX_INVITATION_RECORDS
        /\ \A n \in 1..(Len(b.invitations) - 1) :
                BytesLess(b.invitations[n].id, b.invitations[n + 1].id)
        /\ \A n \in DOMAIN b.invitations :
                ~AdmittedReserved(b.invitations[n]) /\ validate_invitation(b.invitations[n])}

-----------------------------------------------------------------------------
(* The accepted roster.                                                    *)

PutView == After(ROSTER_VIEW_STATE_DOMAIN,
                 Struct(<< <<"roster", Bytes(U32)>>, <<"digest", Fixed(DIGEST_LEN)>> >>))

TakeView == After(ROSTER_VIEW_STATE_DOMAIN,
                  Struct(<< <<"roster", Bytes(U32)>>, <<"digest", Fixed(DIGEST_LEN)>> >>))

encode_view(v) == {Put(PutView, [v EXCEPT !.roster = bytes]) : bytes \in encode_roster(v.roster)}

(* A genesis roster lists its authority alone, so the membership test      *)
(* covers both branches.                                                   *)
decode_view(bytes, pinned_authority) ==
    UNION {{[v EXCEPT !.roster = roster] :
                roster \in {r \in decode_roster(v.roster) :
                                /\ r.authority = pinned_authority
                                /\ v.digest = Commitment(v.roster)
                                /\ \E n \in DOMAIN r.members : r.members[n] = pinned_authority}} :
           v \in Whole(TakeView, bytes)}

-----------------------------------------------------------------------------
(* The receiver.                                                           *)

PutReceiver == After(RECEIVER_STATE_DOMAIN, Struct(<<
    <<"roster", Bytes(U32)>>, <<"roster_digest", Fixed(DIGEST_LEN)>>, <<"local", put_member>>,
    <<"next_event_id", UInt(U64)>>,
    <<"accepted", Many(U32, Struct(<<
        <<"revision", UInt(U64)>>, <<"sender", put_member>>, <<"sequence", UInt(U64)>>,
        <<"commitment", Fixed(DIGEST_LEN)>>, <<"event_id", UInt(U64)>> >>))>>,
    <<"deferred", Many(U32, Struct(<<
        <<"context", Bytes(U32)>>, <<"commitment", Fixed(DIGEST_LEN)>> >>))>> >>))

TakeReceiver == After(RECEIVER_STATE_DOMAIN, Struct(<<
    <<"roster", Bytes(U32)>>, <<"roster_digest", Fixed(DIGEST_LEN)>>, <<"local", take_member>>,
    <<"next_event_id", UInt(U64)>>,
    <<"accepted", Many(U32, Struct(<<
        <<"revision", UInt(U64)>>, <<"sender", take_member>>, <<"sequence", UInt(U64)>>,
        <<"commitment", Fixed(DIGEST_LEN)>>, <<"event_id", UInt(U64)>> >>))>>,
    <<"deferred", Many(U32, Struct(<<
        <<"context", Bytes(U32)>>, <<"commitment", Fixed(DIGEST_LEN)>> >>))>> >>))

encode_receiver(s) ==
    LET Written(d) == {[d EXCEPT !.context = bytes] : bytes \in encode_context(d.context)}
        State(roster, deferred) ==
            Put(PutReceiver, [s EXCEPT !.roster = roster, !.deferred = deferred])
    IN  IF validate_member(s.local)
        THEN {out \in {State(roster, deferred) :
                        roster \in encode_roster(s.roster), deferred \in Each(Written, s.deferred)} :
                Len(out) <= MAX_RECEIVER_STATE_LEN}
        ELSE {}

Lists(roster, member) == \E n \in DOMAIN roster.members : roster.members[n] = member

(* The accepted entries are the current roster's, with their own keys and  *)
(* their own events, all of them given out.                                *)
AcceptedAgree(s) ==
    /\ \A n \in DOMAIN s.accepted :
            /\ s.accepted[n].revision = s.roster.revision
            /\ Lists(s.roster, s.accepted[n].sender)
            /\ s.accepted[n].event_id < s.next_event_id
    /\ \A n, m \in DOMAIN s.accepted : n # m =>
            /\ s.accepted[n].event_id # s.accepted[m].event_id
            /\ \/ s.accepted[n].sender # s.accepted[m].sender
               \/ s.accepted[n].sequence # s.accepted[m].sequence

(* The deferred contexts are for this member in a revision about to come,  *)
(* one per key, few of them from senders the roster does not list.         *)
DeferredAgree(s, raw) ==
    LET Unlisted == {n \in DOMAIN s.deferred :
                        s.roster.closed = 1 \/ ~Lists(s.roster, s.deferred[n].context.sender)}
    IN  /\ \A n \in DOMAIN s.deferred :
            LET c == s.deferred[n].context
            IN  /\ c.group_id = s.roster.group_id
                /\ c.recipient = s.local
                /\ c.revision > s.roster.revision
                /\ c.revision <= s.roster.revision + FUTURE_REVISIONS
                /\ s.deferred[n].commitment = Commitment(raw.deferred[n].context)
        /\ \A n, m \in DOMAIN s.deferred :
            LET c == s.deferred[n].context
                d == s.deferred[m].context
            IN  n # m => \/ c.revision # d.revision
                         \/ c.sender # d.sender
                         \/ c.logical_sequence # d.logical_sequence
        /\ Cardinality(Unlisted) <= MAX_DEFERRED_UNLISTED
        /\ \A n, m \in Unlisted : n # m =>
            s.deferred[n].context.sender.identity # s.deferred[m].context.sender.identity

decode_receiver(bytes) ==
    LET Read(d) == {[d EXCEPT !.context = c] : c \in decode_context(d.context)}
        Parsed(raw) == {[raw EXCEPT !.roster = roster, !.deferred = deferred] :
                            roster \in decode_roster(raw.roster), deferred \in Each(Read, raw.deferred)}
        Terminal(s) == s.roster.closed = 1 \/ ~Lists(s.roster, s.local)
        Agrees(s, raw) ==
            /\ s.roster_digest = Commitment(raw.roster)
            /\ validate_member(s.local)
            /\ \A n \in DOMAIN s.accepted : validate_member(s.accepted[n].sender)
            /\ Len(s.accepted) <= MAX_ACCEPTED /\ Len(s.deferred) <= MAX_DEFERRED
            /\ Terminal(s) => s.accepted = <<>> /\ s.deferred = <<>>
            /\ AcceptedAgree(s) /\ DeferredAgree(s, raw)
    IN  IF Len(bytes) > MAX_RECEIVER_STATE_LEN THEN {}
        ELSE UNION {{s \in Parsed(raw) : Agrees(s, raw)} : raw \in Whole(TakeReceiver, bytes)}

-----------------------------------------------------------------------------
(* The control outbox.  A disposition is its code: 0 prepared, 1 handed    *)
(* off, 2 relay accepted, 3 exhausted, 4 cancelled, 5 cancelled after a    *)
(* handoff.                                                                *)

PutHandoffs == After(CONTROL_OUTBOX_DOMAIN, Many(1, Struct(<<
    <<"recipient", Struct(<< <<"identity", Bytes(U32)>>, <<"device", Bytes(U32)>> >>)>>,
    <<"payload", Bytes(U32)>>, <<"ciphertext", Bytes(U32)>>, <<"attempts_reserved", UInt(1)>>,
    <<"disposition", Code(0..5)>>, <<"sequence", UInt(U64)>> >>)))

TakeHandoffs == After(CONTROL_OUTBOX_DOMAIN, Many(1, Struct(<<
    <<"recipient", Struct(<< <<"identity", Bytes(U32)>>, <<"device", Bytes(U32)>> >>)>>,
    <<"payload", Bytes(U32)>>, <<"ciphertext", Bytes(U32)>>, <<"attempts_reserved", UInt(1)>>,
    <<"disposition", Code(0..5)>>, <<"sequence", UInt(U64)>> >>)))

canonical_order(a, b) ==
    LET x == Commitment(a.payload)
        y == Commitment(b.payload)
    IN  BytesLess(x, y) \/ (x = y /\ canonical_less(a.recipient, b.recipient))

is_terminal(h) == h.disposition \notin {0, 1}

encode_outbox(handoffs) ==
    LET live == SelectSeq(handoffs, LAMBDA h : ~is_terminal(h))
        terminal == SelectSeq(handoffs, is_terminal)
    IN  IF Len(live) > MAX_LIVE_HANDOFFS \/ Len(terminal) > MAX_TERMINAL_HANDOFFS THEN {}
        ELSE {Put(PutHandoffs, SortSeq(handoffs, canonical_order))}

(* How many attempts each disposition can have behind it. *)
AttemptsFit(h) ==
    /\ h.attempts_reserved <= MAX_ATTEMPTS
    /\ h.disposition \in {0, 4} => h.attempts_reserved = 0
    /\ h.disposition = 1 => h.attempts_reserved \notin {0, MAX_ATTEMPTS}
    /\ h.disposition = 3 => h.attempts_reserved = MAX_ATTEMPTS
    /\ h.disposition = 5 => h.attempts_reserved # 0

IsControl(payload) == \E p \in decode_payload(payload) : p.op # "Application"

decode_outbox(bytes) ==
    {hs \in Whole(TakeHandoffs, bytes) :
        /\ Len(hs) <= MAX_LIVE_HANDOFFS + MAX_TERMINAL_HANDOFFS
        /\ \A n \in DOMAIN hs : /\ validate_member(hs[n].recipient)
                                /\ AttemptsFit(hs[n]) /\ IsControl(hs[n].payload)
        /\ \A n, m \in DOMAIN hs : n # m =>
                /\ hs[n].sequence # hs[m].sequence
                /\ \/ hs[n].recipient # hs[m].recipient
                   \/ Commitment(hs[n].payload) # Commitment(hs[m].payload)
        /\ encode_outbox(hs) = {bytes}}
-----------------------------------------------------------------------------
(* The operation snapshot and the tagged records in its collections.       *)

TCOP == <<5, 0>>      \* a snapshot
TCGI == <<4, 1>>      \* the intent of a logical send
TCGP == <<4, 2>>      \* a prepared ciphertext
TCGH == <<4, 3>>      \* a reserved handoff
TCGA == <<4, 4>>      \* a relay's acceptance
TCGR == <<4, 5>>      \* what became of a received context
TCGM == <<4, 6>>      \* a plaintext that was refused
TCGC == <<4, 7>>      \* what became of a roster control
TCGE == <<4, 8>>      \* the effect of a control on the provider
TCGV == <<4, 9>>      \* the roster view
TCGB == <<4, 10>>     \* the invitation book
TCGO == <<4, 11>>     \* the control outbox
TCGX == <<4, 12>>     \* the revision that cancels older sends
TCGQ == <<4, 13>>     \* the rosters held until their predecessor comes
TCGS == <<4, 14>>     \* the roster that the accepted one replaced

-----------------------------------------------------------------------------
(* Checkpoints: a tag, and a length that must cover exactly the rest.      *)

encode_roster_view_record(state) == Put(After(TCGV, Bytes(U32)), state)
decode_roster_view_record(record) == Whole(After(TCGV, Bytes(U32)), record)

encode_invitation_book_record(state) == Put(After(TCGB, Bytes(U32)), state)

decode_invitation_book_record(record) == Whole(After(TCGB, Bytes(U32)), record)

encode_control_outbox_record(state) == Put(After(TCGO, Bytes(U32)), state)
decode_control_outbox_record(record) == Whole(After(TCGO, Bytes(U32)), record)

(* The group, and the revision with nothing behind it. *)
Cancellation == Struct(<< <<"group_id", Fixed(GROUP_ID_LEN)>>, <<"revision", UInt(U64)>> >>)

encode_group_outbox_cancellation_record(c) == Put(After(TCGX, Cancellation), c)

(* The newest cancellation of a group; one malformed record refuses all.   *)
latest_group_outbox_cancellation(records, group_id) ==
    LET Ours   == SelectSeq(records, LAMBDA r : Split(2, r) # {} /\ SubSeq(r, 1, 2) = TCGX)
        Read(r) == Whole(After(TCGX, Cancellation), r)
        Later(latest, c) == IF c.group_id # group_id THEN latest
                            ELSE IF latest = <<>> \/ c.revision > latest[1] THEN <<c.revision>>
                            ELSE latest
    IN  {FoldLeft(Later, <<>>, read) : read \in Each(Read, Ours)}

ReplacedRoster == Struct(<< <<"group_id", Fixed(GROUP_ID_LEN)>>, <<"preimage", Bytes(U32)>> >>)

encode_replaced_roster_record(r) == Put(After(TCGS, ReplacedRoster), r)

(* The members the accepted roster replaced, from the record of its group  *)
(* whose commitment is its predecessor digest.                             *)
replaced_roster_members(record, group_id, predecessor_digest) ==
    UNION {{roster.members : roster \in {x \in decode_roster(r.preimage) : x.group_id = group_id}} :
           r \in {r \in Whole(After(TCGS, ReplacedRoster), record) :
                    r.group_id = group_id /\ Commitment(r.preimage) = predecessor_digest}}

-----------------------------------------------------------------------------
(* Held rosters.                                                           *)

PutHeld == After(TCGQ, Struct(<<
    <<"group_id", Fixed(GROUP_ID_LEN)>>, <<"rosters", Many(1, Bytes(U32))>> >>))

TakeHeld == After(TCGQ, Struct(<<
    <<"group_id", Fixed(GROUP_ID_LEN)>>, <<"rosters", Many(1, Bytes(U32))>> >>))

encode_held(h) == {Put(PutHeld, [h EXCEPT !.rosters = rs]) : rs \in Each(encode_roster, h.rosters)}

decode_held(record, group_id, pinned_authority) ==
    UNION {{[raw EXCEPT !.rosters = rs] :
                rs \in {rs \in Each(decode_roster, raw.rosters) :
                            /\ \A n \in DOMAIN rs :
                                /\ rs[n].group_id = group_id
                                /\ rs[n].authority = pinned_authority
                                /\ encode_roster(rs[n]) = {raw.rosters[n]}
                            /\ \A n \in 1..(Len(rs) - 1) : rs[n].revision < rs[n + 1].revision}} :
           raw \in {raw \in Whole(TakeHeld, record) :
                        raw.group_id = group_id /\ Len(raw.rosters) <= MAX_DEFERRED_ROSTERS}}

-----------------------------------------------------------------------------
(* The transcript of the logical sends.                                    *)

encode_intent_record(i) == {Put(After(TCGI, Bytes(U32)), bytes) : bytes \in encode_intent(i)}

decode_intent_record(record) ==
    UNION {decode_intent(bytes) : bytes \in Whole(After(TCGI, Bytes(U32)), record)}

Progress == Fields(<<Bytes(U32), Fixed(DIGEST_LEN), Bytes(U32)>>)

(* A progress record: context, commitment and ciphertext behind a tag. *)
PutProgress(tag, p) ==
    {Put(After(tag, Progress), <<context, p.commitment, p.ciphertext>>) :
        context \in encode_context(p.context)}

encode_prepared_record(p) == PutProgress(TCGP, p)
encode_relay_acceptance_record(p) == PutProgress(TCGA, p)

encode_handoff_record(p) ==
    {bytes \o <<p.attempts_reserved, p.disposition>> : bytes \in PutProgress(TCGH, p)}

decode_progress_record(tag, record) ==
    UNION {{[context |-> c, commitment |-> r.v[2], ciphertext |-> r.v[3], rest |-> r.rest] :
                c \in decode_context(r.v[1])} :
           r \in Take(After(tag, Progress), record)}

(* Attempts, then 0 for handed off or 1 for exhausted. *)
decode_handoff_suffix(bytes) ==
    IF Len(bytes) = 2 /\ bytes[2] \in {0, 1}
    THEN {[attempts_reserved |-> bytes[1], disposition |-> bytes[2]]} ELSE {}

Prepared(p) == [context |-> p.context, commitment |-> p.commitment, ciphertext |-> p.ciphertext]

(* What recovery reads from an entry of each kind. *)
RecoverPrepared(tag, record) ==
    {Prepared(p) : p \in {p \in decode_progress_record(tag, record) : p.rest = <<>>}}

RecoverHandoff(record) ==
    UNION {{[context |-> p.context, commitment |-> p.commitment, ciphertext |-> p.ciphertext,
             attempts_reserved |-> s.attempts_reserved, disposition |-> s.disposition] :
                s \in decode_handoff_suffix(p.rest)} :
           p \in decode_progress_record(TCGH, record)}

(* Which logical send an entry belongs to: <<>> for an entry of another    *)
(* kind.  The trailing bytes of a progress record are not looked at.       *)
outbox_record_id(entry) ==
    LET IdOf(group_id, revision, sender, sequence) ==
            <<[group_id |-> group_id, revision |-> revision, sender |-> sender,
               sequence |-> sequence]>>
        Behind(tag) == {r.v : r \in Take(After(tag, Bytes(U32)), entry)}
        Intents  == UNION {decode_intent(bytes) : bytes \in Behind(TCGI)}
        Contexts == UNION {UNION {decode_context(bytes) : bytes \in Behind(tag)} :
                           tag \in {TCGP, TCGH, TCGA}}
    IN  IF entry = <<>> \/ (entry # <<>> /\ entry[1] # 4) THEN {<<>>}
        ELSE {IdOf(i.group_id, i.revision, i.sender, i.sequence) : i \in Intents}
             \union {IdOf(c.group_id, c.revision, c.sender, c.logical_sequence) : c \in Contexts}

-----------------------------------------------------------------------------
(* What became of what was received.                                       *)

effect_code == Code(0..2)     \* unchanged, advanced, terminal
refusal_code == Code(0..10)   \* the reasons of a refusal, in order

PutReceive == After(TCGR, Struct(<<
    <<"effect", effect_code>>, <<"context", Bytes(U32)>>, <<"commitment", Fixed(DIGEST_LEN)>>,
    <<"disposition", Sum(<<Arm("Accepted", 0, <<UInt(U64)>>), Arm("Duplicate", 1, <<UInt(U64)>>),
                           Arm("Deferred", 2, <<>>), Arm("Rejected", 3, <<refusal_code>>)>>)>> >>))

encode_receive_record(r) == Put(PutReceive, r)

(* Only an accepted context is kept with its disposition. *)
record_receive(r) ==
    encode_receive_record(IF r.disposition.op = "Accepted" THEN r ELSE [r EXCEPT !.context = <<>>])

(* Where the context lies and, of an accepted record, which event it was.  *)
(* What follows is not looked at.                                          *)
receive_record_layout(record) ==
    UNION {LET event == TakeInt(U64, r.rest)
               Layout(accepted) == [start |-> Len(TCGR) + 1 + U32, context |-> r.v[2],
                                    accepted_event |-> accepted]
           IN  IF r.v[4] # 0 THEN {Layout(<<>>)} ELSE {Layout(<<e.v>>) : e \in event} :
           r \in Take(After(TCGR, Fields(<<UInt(1), Bytes(U32), Fixed(DIGEST_LEN), UInt(1)>>)),
                      record)}

(* The events from the delivery cursor on, each with its context.          *)
undelivered(record, delivery_cursor) ==
    UNION {{[event_id |-> l.accepted_event[1], context |-> c] : c \in decode_context(l.context)} :
           l \in {l \in receive_record_layout(record) :
                    /\ l.accepted_event # <<>>
                    /\ l.accepted_event[1] >= delivery_cursor
                    /\ l.context # <<>>}}

(* A delivered record loses its context: the head, a length of zero, and   *)
(* what came after the context.                                            *)
scrub(record, cursor) ==
    LET layouts == {l \in receive_record_layout(record) :
                        l.accepted_event # <<>> /\ l.accepted_event[1] < cursor /\ l.context # <<>>}
    IN  IF layouts = {} THEN record
        ELSE LET l == CHOOSE l \in layouts : TRUE
             IN  SubSeq(record, 1, Len(TCGR) + 1) \o BigEndian(U32, 0)
                 \o SubSeq(record, l.start + Len(l.context) + 1, Len(record))

(* Evidence that no code reads back: a refused plaintext, a roster control *)
(* and a control's effect.                                                 *)
encode_malformed_record(r) ==
    Put(After(TCGM, Fields(<<effect_code, UInt(U32), Fixed(DIGEST_LEN)>>)),
        <<r.effect, Len(r.plaintext), Commitment(r.plaintext)>>)

encode_roster_record(r) ==
    Put(After(TCGC, Struct(<<
            <<"preimage", Bytes(U32)>>, <<"commitment", Fixed(DIGEST_LEN)>>,
            <<"disposition", Sum(<<Arm("Accepted", 0, <<>>), Arm("Duplicate", 1, <<>>),
                                   Arm("Rejected", 2, <<refusal_code>>)>>)>> >>)), r)

encode_control_effect_record(effect) == Put(After(TCGE, effect_code), effect)

-----------------------------------------------------------------------------
(* The snapshot.                                                           *)

OPERATION_SNAPSHOT_VERSION == 2

put_many == Many(U32, Bytes(U32))
take_many == Many(U32, Bytes(U32))

PutSnapshot == After(TCOP, Struct(<<
    <<"version", UInt(1)>>, <<"generation", UInt(U64)>>,
    <<"provider_state", Bytes(U32)>>, <<"application_state", Bytes(U32)>>,
    <<"outbox", put_many>>, <<"inbox", put_many>>, <<"dedup", put_many>>,
    <<"group_controls", put_many>>, <<"delivery_cursor", UInt(U64)>> >>))

encode_snapshot(s) == Put(PutSnapshot, s)

(* What the first version wrote: no group controls. *)
PutSnapshotV1 == After(TCOP, Struct(<<
    <<"version", Code({1})>>, <<"generation", UInt(U64)>>,
    <<"provider_state", Bytes(U32)>>, <<"application_state", Bytes(U32)>>,
    <<"outbox", put_many>>, <<"inbox", put_many>>, <<"dedup", put_many>>,
    <<"delivery_cursor", UInt(U64)>> >>))

TakeSnapshot == After(TCOP, Struct(<<
    <<"version", Code({OPERATION_SNAPSHOT_VERSION})>>, <<"generation", UInt(U64)>>,
    <<"provider_state", Bytes(U32)>>, <<"application_state", Bytes(U32)>>,
    <<"outbox", take_many>>, <<"inbox", take_many>>, <<"dedup", take_many>>,
    <<"group_controls", take_many>>, <<"delivery_cursor", UInt(U64)>> >>))

(* A value of the first version becomes one of the second as it is read,   *)
(* so that it is never written with the first one's number.                *)
Upgraded(s) ==
    [version |-> OPERATION_SNAPSHOT_VERSION, generation |-> s.generation,
     provider_state |-> s.provider_state, application_state |-> s.application_state,
     outbox |-> s.outbox, inbox |-> s.inbox, dedup |-> s.dedup,
     group_controls |-> <<>>, delivery_cursor |-> s.delivery_cursor]

decode_snapshot(bytes) ==
    Whole(TakeSnapshot, bytes) \union {Upgraded(s) : s \in Whole(PutSnapshotV1, bytes)}
=============================================================================
