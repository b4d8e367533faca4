---------------------------- MODULE WireFormats ----------------------------
(***************************************************************************)
(* Every byte form of the repository, written, carried and read.           *)
(*                                                                         *)
(* A value is encoded by its own encoder, the bytes lie in a file or       *)
(* travel, where they may be cut short, run into something else or change  *)
(* in one place, and a decoder reads them: their own, or for a form that   *)
(* starts with a domain or a tag any other of these.                       *)
(***************************************************************************)
EXTENDS Codec, FiniteSets

CONSTANTS
    \* the parameters of the formats
    GROUP_ID_LEN, INVITATION_ID_LEN, DIGEST_LEN, MAX_MEMBERS, MAX_IDENTITY_LEN, MAX_DEVICE_LEN,
    MAX_PAYLOAD_LEN, MAX_ROSTER_LEN, MAX_APPLICATION_CONTEXT_LEN, MAX_GROUP_PAYLOAD_LEN,
    MAX_INVITATION_RECORDS, MAX_ACCEPTED, FUTURE_REVISIONS, MAX_DEFERRED, MAX_DEFERRED_UNLISTED,
    MAX_RECEIVER_STATE_LEN, MAX_LIVE_HANDOFFS, MAX_TERMINAL_HANDOFFS, MAX_ATTEMPTS,
    MAX_DEFERRED_ROSTERS, TAG_LEN, WrapKey,
    \* what a reader knows before it reads
    LocalGroup, PinnedAuthority, Predecessor, Me, Highest,
    \* what is written: for every format a sequence of values
    Samples,
    \* how far a delivery cursor may be moved over a record
    Cursors

RP == INSTANCE RelayProtocol
SP == INSTANCE ServiceProtocol
GR == INSTANCE GroupRecords
CS == INSTANCE ClientState

VARIABLES
    phase,      \* "idle", "carried" or "read"
    format,     \* whose bytes these are
    sample,     \* which of the format's samples was written
    bytes,      \* the bytes
    touched,    \* what happened to them on the way
    at,         \* where, or up to which cursor
    reader,     \* whose decoder read them
    read        \* what it made of them: one value, or none

vars == <<phase, format, sample, bytes, touched, at, reader, read>>

-----------------------------------------------------------------------------
(* The formats. *)

(* Start with a domain string or a tag of their own. *)
Tagged == {"roster", "context", "bootstrap", "acceptance", "revocation", "payload", "receiver",
           "view", "book", "controls", "held", "replaced", "cancellation", "intent_record",
           "prepared", "handoff", "relay_acceptance", "receive", "snapshot"}

(* Written as evidence and read by nothing. *)
Evidence == {"malformed", "roster_record", "effect"}

Services == {"envelope", "stream", "request", "response", "auth", "dir_request", "dir_response",
             "account_request", "account_response", "provision_request", "provision_outcome"}

Kept == {"contacts", "sessions", "durable", "state", "sealed"}

(* Written by earlier versions and still read. *)
Earlier == {"snapshot_v1", "state_v3", "state_v2", "untagged", "sealed_v5"}

Format == Tagged \union Evidence \union Services \union Kept \union Earlier

EncodeService(f, v) ==
    CASE f = "envelope"          -> RP!encode(v)
      [] f = "stream"            -> RP!encode_stream(v)
      [] f = "request"           -> RP!encode_request(v)
      [] f = "response"          -> RP!encode_response(v)
      [] f = "auth"              -> RP!encode_auth(v)
      [] f = "dir_request"       -> SP!encode_dir_request(v)
      [] f = "dir_response"      -> SP!encode_dir_response(v)
      [] f = "account_request"   -> SP!encode_account_request(v)
      [] f = "account_response"  -> SP!encode_account_response(v)
      [] f = "provision_request" -> SP!encode_provision_request(v)
      [] f = "provision_outcome" -> SP!encode_provision_outcome(v)

DecodeService(f, b) ==
    CASE f = "envelope"          -> RP!decode(b)
      [] f = "stream"            -> RP!decode_stream(b)
      [] f = "request"           -> RP!decode_request(b)
      [] f = "response"          -> RP!decode_response(b)
      [] f = "auth"              -> RP!decode_auth(b)
      [] f = "dir_request"       -> SP!decode_dir_request(b)
      [] f = "dir_response"      -> SP!decode_dir_response(b)
      [] f = "account_request"   -> SP!decode_account_request(b)
      [] f = "account_response"  -> SP!decode_account_response(b)
      [] f = "provision_request" -> SP!decode_provision_request(b)
      [] f = "provision_outcome" -> SP!decode_provision_outcome(b)

EncodeTagged(f, v) ==
    CASE f = "roster"           -> GR!encode_roster(v)
      [] f = "context"          -> GR!encode_context(v)
      [] f = "bootstrap"        -> GR!encode_bootstrap(v)
      [] f = "acceptance"       -> GR!encode_acceptance(v)
      [] f = "revocation"       -> GR!encode_revocation(v)
      [] f = "payload"          -> GR!encode_payload(v)
      [] f = "receiver"         -> GR!encode_receiver(v)
      [] f = "view"             -> {GR!encode_roster_view_record(s) : s \in GR!encode_view(v)}
      [] f = "book"             -> {GR!encode_invitation_book_record(s) : s \in GR!encode_book(v)}
      [] f = "controls"         -> {GR!encode_control_outbox_record(s) : s \in GR!encode_outbox(v)}
      [] f = "held"             -> GR!encode_held(v)
      [] f = "replaced"         -> {GR!encode_replaced_roster_record(
                                        [group_id |-> v.group_id, preimage |-> p]) :
                                    p \in GR!encode_roster(v)}
      [] f = "cancellation"     -> {GR!encode_group_outbox_cancellation_record(v)}
      [] f = "intent_record"    -> GR!encode_intent_record(v)
      [] f = "prepared"         -> GR!encode_prepared_record(v)
      [] f = "handoff"          -> GR!encode_handoff_record(v)
      [] f = "relay_acceptance" -> GR!encode_relay_acceptance_record(v)
      [] f = "receive"          -> {GR!record_receive(v)}
      [] f = "snapshot"         -> {GR!encode_snapshot(v)}

DecodeTagged(f, b) ==
    CASE f = "roster"           -> GR!decode_roster(b)
      [] f = "context"          -> GR!decode_context(b)
      [] f = "bootstrap"        -> GR!decode_bootstrap(b)
      [] f = "acceptance"       -> GR!decode_acceptance(b)
      [] f = "revocation"       -> GR!decode_revocation(b)
      [] f = "payload"          -> GR!decode_payload(b)
      [] f = "receiver"         -> GR!decode_receiver(b)
      [] f = "view"             -> UNION {GR!decode_view(s, PinnedAuthority) :
                                          s \in GR!decode_roster_view_record(b)}
      [] f = "book"             -> UNION {GR!decode_book(s, LocalGroup) :
                                          s \in GR!decode_invitation_book_record(b)}
      [] f = "controls"         -> UNION {GR!decode_outbox(s) :
                                          s \in GR!decode_control_outbox_record(b)}
      [] f = "held"             -> GR!decode_held(b, LocalGroup, PinnedAuthority)
      [] f = "replaced"         -> GR!replaced_roster_members(b, LocalGroup, Predecessor)
      [] f = "cancellation"     -> GR!latest_group_outbox_cancellation(<<b>>, LocalGroup) \ {<<>>}
      [] f = "intent_record"    -> GR!decode_intent_record(b)
      [] f = "prepared"         -> GR!RecoverPrepared(GR!TCGP, b)
      [] f = "handoff"          -> GR!RecoverHandoff(b)
      [] f = "relay_acceptance" -> GR!RecoverPrepared(GR!TCGA, b)
      [] f = "receive"          -> GR!receive_record_layout(b)
      [] f = "snapshot"         -> GR!decode_snapshot(b)

EncodeKept(f, v) ==
    CASE f = "contacts"      -> CS!to_bytes(v)
      [] f = "sessions"      -> CS!export_sessions(v)
      [] f = "durable"       -> CS!write_state(v)
      [] f = "state"         -> CS!export_state(v)
      [] f = "sealed"        -> CS!export_state_sealed(v)
      [] f = "snapshot_v1"   -> Put(GR!PutSnapshotV1, v)
      [] f = "state_v3"      -> CS!export_body_v3(v)
      [] f = "state_v2"      -> CS!StateV2(v)
      [] f = "untagged"      -> CS!UntaggedState(v)
      [] f = "sealed_v5"     -> CS!SealedV5(v)
      [] f = "malformed"     -> GR!encode_malformed_record(v)
      [] f = "roster_record" -> GR!encode_roster_record(v)
      [] f = "effect"        -> GR!encode_control_effect_record(v)

(* A sealed state that opens here, for this address, as far as its parts. *)
RestoreSealed(b) ==
    UNION {{[parts |-> parts, generation |-> o.generation, stale |-> o.stale] :
                parts \in CS!split_state(o.body)} :
           o \in {o \in CS!open_sealed(Highest, b) : CS!expect_address(o, Me)}}

DecodeKept(f, b) ==
    CASE f = "contacts"    -> CS!from_bytes(b)
      [] f = "sessions"    -> CS!import_sessions(b)
      [] f = "durable"     -> CS!open(b)
      [] f = "snapshot_v1" -> GR!decode_snapshot(b)
      [] f \in {"state", "state_v3", "state_v2", "untagged"} -> CS!split_state(b)
      [] f \in {"sealed", "sealed_v5"} -> RestoreSealed(b)
      [] f \in Evidence    -> {}

Encode(f, v) ==
    IF f \in Services THEN {EncodeService(f, v)}
    ELSE IF f \in Tagged THEN EncodeTagged(f, v)
    ELSE {EncodeKept(f, v)}

Decode(f, b) ==
    IF f \in Services THEN DecodeService(f, b)
    ELSE IF f \in Tagged THEN DecodeTagged(f, b)
    ELSE DecodeKept(f, b)

(* The encoders that judge a value first, and the bytes it would have had. *)
Judged == {"roster", "context", "bootstrap", "acceptance", "revocation", "intent_record", "book"}

Unjudged(f, v) ==
    CASE f = "roster"        -> Put(GR!PutRoster, v)
      [] f = "context"       -> Put(GR!PutContext, v)
      [] f = "bootstrap"     ->
            Put(GR!PutBootstrap, [v EXCEPT !.roster = Put(GR!PutRoster, v.roster)])
      [] f = "acceptance"    -> Put(After(GR!INVITATION_ACCEPTANCE_DOMAIN, GR!Answer), v)
      [] f = "revocation"    -> Put(After(GR!INVITATION_REVOCATION_DOMAIN, GR!Answer), v)
      [] f = "intent_record" -> Put(After(GR!TCGI, Bytes(U32)), Put(GR!PutIntent, v))
      [] f = "book"          -> GR!encode_invitation_book_record(Put(GR!PutBook,
                                    [v EXCEPT !.invitations = GR!SortedById(v.invitations)]))

-----------------------------------------------------------------------------
Init ==
    /\ phase = "idle" /\ format = "envelope" /\ sample = 1 /\ bytes = <<>>
    /\ touched = "intact" /\ at = 0 /\ reader = "envelope" /\ read = {}

Carry(f, n, how, b) ==
    /\ phase = "idle"
    /\ phase' = "carried" /\ format' = f /\ sample' = n /\ touched' = how /\ bytes' = b
    /\ reader' = f
    /\ UNCHANGED <<at, read>>

(* An encoder writes a value. *)
Write(f, n) == \E b \in Encode(f, Samples[f][n]) : Carry(f, n, "intact", b)

(* The same layout written by something that does not judge the value. *)
WriteUnjudged(f, n) == Carry(f, n, "unjudged", Unjudged(f, Samples[f][n]))

Touch(how, n, b) ==
    /\ phase = "carried" /\ touched = "intact"
    /\ touched' = how /\ at' = n /\ bytes' = b
    /\ UNCHANGED <<phase, format, sample, reader, read>>

(* A file not written to its end, a frame that ends early. *)
Cut(n) == n < Len(bytes) /\ Touch("cut", n, SubSeq(bytes, 1, n))

(* Bytes of something else behind. *)
Extend(b) == Touch("extended", Len(bytes), Append(bytes, b))

(* One byte that changed. *)
Alter(n, b) == bytes[n] # b /\ Touch("altered", n, [bytes EXCEPT ![n] = b])

(* The delivery cursor moves over a receive record. *)
Scrub(cursor) ==
    /\ format = "receive" /\ GR!scrub(bytes, cursor) # bytes
    /\ Touch("scrubbed", cursor, GR!scrub(bytes, cursor))

(* Whose decoders may get to see the bytes: all the tagged ones, as long   *)
(* as the bytes are what an encoder wrote.                                 *)
Readers ==
    IF format \in Tagged \union Evidence /\ touched = "intact" THEN Tagged \union {format}
    ELSE {format}

Read(f) ==
    /\ phase = "carried" /\ f \in Readers
    /\ phase' = "read" /\ reader' = f /\ read' = Decode(f, bytes)
    /\ UNCHANGED <<format, sample, bytes, touched, at>>

(* The reader is done with the bytes. *)
Finish ==
    /\ phase = "read"
    /\ phase' = "idle" /\ format' = "envelope" /\ sample' = 1 /\ bytes' = <<>>
    /\ touched' = "intact" /\ at' = 0 /\ reader' = "envelope" /\ read' = {}

Next ==
    \/ \E f \in Format : \E n \in DOMAIN Samples[f] : Write(f, n)
    \/ \E f \in Judged : \E n \in DOMAIN Samples[f] : WriteUnjudged(f, n)
    \/ \E n \in 0..Len(bytes) : Cut(n)
    \/ \E b \in {0, 1, BYTE - 1} : Extend(b)
    \/ \E n \in DOMAIN bytes : \E b \in 0..(BYTE - 1) : Alter(n, b)
    \/ \E cursor \in Cursors : Scrub(cursor)
    \/ \E f \in Format : Read(f)
    \/ Finish

Spec == Init /\ [][Next]_vars

-----------------------------------------------------------------------------
(* Properties *)

Value == Samples[format][sample]

(* What the decoder of a format should make of the intact bytes of v: v    *)
(* itself for most; what the reader looks at, or a sorted or an upgraded   *)
(* value, for the others; and nothing for a record that is not the         *)
(* reader's own.                                                           *)
Expected(f, v) ==
    CASE f = "view" -> IF v.roster.authority = PinnedAuthority THEN {v} ELSE {}
      [] f = "book" ->
            IF v.group_id = LocalGroup
            THEN {[v EXCEPT !.invitations = GR!SortedById(v.invitations)]} ELSE {}
      [] f = "controls" -> {SortSeq(v, GR!canonical_order)}
      [] f = "held" -> IF v.group_id = LocalGroup THEN {v} ELSE {}
      [] f = "replaced" ->
            IF v.group_id = LocalGroup /\ GR!Commitment(Put(GR!PutRoster, v)) = Predecessor
            THEN {v.members} ELSE {}
      [] f = "cancellation" -> IF v.group_id = LocalGroup THEN {<<v.revision>>} ELSE {}
      [] f = "receive" ->
            LET accepted == v.disposition.op = "Accepted"
            IN  {[start |-> 3 + U32, context |-> IF accepted THEN v.context ELSE <<>>,
                  accepted_event |-> IF accepted THEN v.disposition.args ELSE <<>>]}
      [] f = "snapshot_v1" -> {GR!Upgraded(v)}
      [] f = "state_v3" ->
            {CS!Parts(v.provider, v.identity, v.sessions, v.prekeys, 0)}
      [] f = "state_v2" -> {CS!Parts(v.provider, v.identity, v.sessions, <<>>, 0)}
      [] f = "untagged" -> {CS!Parts(1, v.identity, v.sessions, <<>>, 0)}
      [] f \in {"sealed", "sealed_v5"} ->
            IF f = "sealed_v5" \/ v.me = Me
            THEN {[parts |-> CS!Parts(v.provider, v.identity, v.sessions, v.prekeys, 0),
                   generation |-> v.generation, stale |-> v.counter < Highest]}
            ELSE {}
      [] f \in Evidence -> {}
      [] OTHER -> {v}

(* A prefix of these may be whole: a stream is envelopes up to its end,    *)
(* the two oldest states end with the sessions, and the layout of a        *)
(* receive record is read without its end.                                 *)
OpenEnded == {"stream", "receive", "state_v2", "untagged"}

(* What a reader makes of these is not what was written. *)
ReadInPart == {"replaced", "cancellation", "receive", "sealed", "sealed_v5"}

(* The format a reading is written in from now on. *)
Current(f) == CASE f = "snapshot_v1" -> "snapshot"
                [] f \in {"state_v3", "state_v2", "untagged"} -> "state"
                [] OTHER -> f

(* Bytes with another form of the same value beside them: a list of        *)
(* sessions in any order, and what an earlier version wrote.               *)
ManyForms ==
    \/ format \in Earlier \union {"sessions"}
    \/ format = "snapshot" /\ bytes[3] # GR!OPERATION_SNAPSHOT_VERSION
    \/ format = "state" /\ bytes[2] # 4

Transcript == {"intent_record", "prepared", "handoff", "relay_acceptance"}

SendOf(v) ==
    IF format = "intent_record"
    THEN [group_id |-> v.group_id, revision |-> v.revision, sender |-> v.sender,
          sequence |-> v.sequence]
    ELSE [group_id |-> v.context.group_id, revision |-> v.context.revision,
          sender |-> v.context.sender, sequence |-> v.context.logical_sequence]

(* Intact bytes: their own decoder reads what was written, and no other    *)
(* decoder of a tagged form takes them for one of its own.                 *)
IntactIsRead ==
    touched = "intact" => read = IF reader = format THEN Expected(format, Value) ELSE {}

(* Bytes that end early, or run on, are not read as something shorter or   *)
(* as the same thing.                                                      *)
EndsMatter == touched \in {"cut", "extended"} /\ format \notin OpenEnded => read = {}

(* A decoder accepts exactly the values its encoder would have written.    *)
JudgedAlike ==
    touched = "unjudged" =>
        read = IF Encode(format, Value) = {} THEN {} ELSE Expected(format, Value)

(* Whatever is read is written again as bytes that read the same, and in   *)
(* the forms that are compared or committed to as bytes, as these bytes.   *)
WrittenAsRead ==
    reader = format /\ format \notin ReadInPart =>
        \A v \in read : \E b \in Encode(Current(format), v) :
            /\ Decode(Current(format), b) = {v}
            /\ b = bytes \/ ManyForms

(* A record of the send transcript is filed under the send that recovery   *)
(* reads it into.                                                          *)
FiledWhereRead ==
    reader = format /\ format \in Transcript =>
        \A v \in read : GR!outbox_record_id(bytes) = {<<SendOf(v)>>}

(* A record scrubbed behind the cursor keeps its event and gives up its    *)
(* context, and is scrubbed.                                               *)
ScrubbedKeepsEvent ==
    touched = "scrubbed" =>
        /\ read = {[start |-> 3 + U32, context |-> <<>>, accepted_event |-> Value.disposition.args]}
        /\ GR!undelivered(bytes, 0) = {}
        /\ GR!scrub(bytes, at) = bytes

(* A sealed state that changed anywhere behind its version is not opened.  *)
SealCoversAll == touched = "altered" /\ format \in {"sealed", "sealed_v5"} /\ at > 2 => read = {}

(* Every message between clients and services, every group object, every   *)
(* stored record and the exported client state is read back exactly:       *)
(* intact bytes as what was written and by no decoder of another form,     *)
(* damaged bytes not at all or as a value with these very bytes, and never *)
(* a value that the form's encoder would refuse (the encode and decode     *)
(* functions of tacenta-wire, of the protocols of tacenta-relay,           *)
(* tacenta-directory, tacenta-accounts and tacenta-transport, and of       *)
(* tacenta-group, tacenta-client and tacenta-core).  The server's snapshot *)
(* files and the inventory statement are not among them.                   *)
ReadsExactly ==
    phase = "read" =>
        /\ IntactIsRead /\ EndsMatter /\ JudgedAlike /\ WrittenAsRead
        /\ FiledWhereRead /\ ScrubbedKeepsEvent /\ SealCoversAll
=============================================================================
