---------------------------- MODULE GroupFormats ----------------------------
(***************************************************************************)
(* The byte forms of the group protocol (tacenta-group): the roster whose  *)
(* digest later revisions carry, the application context a recipient       *)
(* decrypts, the three invitation messages, the payload that wraps any of  *)
(* them, and the intent a logical send is recovered from.                  *)
(*                                                                         *)
(* An encoder judges its value before it writes, so it yields a set: the   *)
(* bytes, or nothing when it refuses.  A domain string is abstracted to a  *)
(* pair of bytes of its own.                                               *)
(***************************************************************************)
EXTENDS Codec

CONSTANTS
    GROUP_ID_LEN, INVITATION_ID_LEN, DIGEST_LEN,   \* the fixed lengths
    MAX_MEMBERS,                                   \* members of a roster
    MAX_IDENTITY_LEN, MAX_DEVICE_LEN,              \* the two parts of a member
    MAX_PAYLOAD_LEN,                               \* an application payload
    MAX_ROSTER_LEN, MAX_APPLICATION_CONTEXT_LEN,   \* whole encodings
    MAX_GROUP_PAYLOAD_LEN

POLICY_VERSION_V1 == 1
RESERVED_REVISION == MaxInt(U64)

ROSTER_DOMAIN                == <<3, 1>>
APPLICATION_DOMAIN           == <<3, 2>>
INVITATION_BOOTSTRAP_DOMAIN  == <<3, 3>>
INVITATION_ACCEPTANCE_DOMAIN == <<3, 4>>
INVITATION_REVOCATION_DOMAIN == <<3, 5>>
GROUP_PAYLOAD_DOMAIN         == <<3, 6>>
LOGICAL_SEND_DOMAIN          == <<3, 7>>

-----------------------------------------------------------------------------
(* Members. *)

put_member == Struct(<< <<"identity", Bytes(U32)>>, <<"device", Bytes(U32)>> >>)
take_member == Struct(<< <<"identity", Bytes(U32)>>, <<"device", Bytes(U32)>> >>)

validate_member(m) == Len(m.identity) <= MAX_IDENTITY_LEN /\ Len(m.device) <= MAX_DEVICE_LEN

canonical_less(a, b) ==
    \/ BytesLess(a.identity, b.identity)
    \/ a.identity = b.identity /\ BytesLess(a.device, b.device)

(* Strictly ascending, and no identity twice. *)
validate_recovery_recipients(members) ==
    /\ \A i \in 1..(Len(members) - 1) : canonical_less(members[i], members[i + 1])
    /\ \A i, j \in DOMAIN members : members[i].identity = members[j].identity => i = j

-----------------------------------------------------------------------------
(* Rosters. *)

PutRoster == After(ROSTER_DOMAIN, Struct(<<
    <<"group_id", Block(U32, Fixed(GROUP_ID_LEN))>>, <<"revision", UInt(U64)>>,
    <<"predecessor_digest", Block(U32, Fixed(DIGEST_LEN))>>, <<"authority", put_member>>,
    <<"policy_version", UInt(U32)>>, <<"closed", Code({0, 1})>>,
    <<"members", Many(U32, put_member)>> >>))

TakeRoster == After(ROSTER_DOMAIN, Struct(<<
    <<"group_id", Block(U32, Fixed(GROUP_ID_LEN))>>, <<"revision", UInt(U64)>>,
    <<"predecessor_digest", Block(U32, Fixed(DIGEST_LEN))>>, <<"authority", take_member>>,
    <<"policy_version", UInt(U32)>>, <<"closed", Code({0, 1})>>,
    <<"members", Many(U32, take_member)>> >>))

lp_len(n) == U32 + n
member_len(m) == lp_len(Len(m.identity)) + lp_len(Len(m.device))
MembersLen(members) == FoldLeft(LAMBDA n, m : n + member_len(m), 0, members)

roster_encoded_len(r) ==
    Len(ROSTER_DOMAIN) + lp_len(GROUP_ID_LEN) + U64 + lp_len(DIGEST_LEN)
    + member_len(r.authority) + U32 + 1 + U32 + MembersLen(r.members)

validate_roster(r) ==
    /\ r.revision # RESERVED_REVISION
    /\ r.policy_version = POLICY_VERSION_V1
    /\ r.revision = 0 => /\ \A i \in DOMAIN r.predecessor_digest : r.predecessor_digest[i] = 0
                         /\ r.closed = 0
                         /\ r.members = <<r.authority>>
    /\ Len(r.members) <= MAX_MEMBERS
    /\ validate_member(r.authority)
    /\ \A i \in DOMAIN r.members : validate_member(r.members[i])
    /\ validate_recovery_recipients(r.members)
    /\ roster_encoded_len(r) <= MAX_ROSTER_LEN

encode_roster(r) == IF validate_roster(r) THEN {Put(PutRoster, r)} ELSE {}

(* Mutant of decode_roster: the members are taken in the order they come. *)
TakesAnyOrder(bytes) ==
    {r \in Whole(TakeRoster, bytes) : Len(bytes) <= MAX_ROSTER_LEN /\ Len(r.members) <= MAX_MEMBERS}

decode_roster(bytes) ==
    IF Len(bytes) > MAX_ROSTER_LEN THEN {}
    ELSE {r \in Whole(TakeRoster, bytes) : validate_roster(r)}

-----------------------------------------------------------------------------
(* Application contexts. *)

PutContext == After(APPLICATION_DOMAIN, Struct(<<
    <<"group_id", Block(U32, Fixed(GROUP_ID_LEN))>>, <<"revision", UInt(U64)>>,
    <<"roster_digest", Block(U32, Fixed(DIGEST_LEN))>>, <<"sender", put_member>>,
    <<"recipient", put_member>>, <<"logical_sequence", UInt(U64)>>, <<"payload", Bytes(U32)>> >>))

TakeContext == After(APPLICATION_DOMAIN, Struct(<<
    <<"group_id", Block(U32, Fixed(GROUP_ID_LEN))>>, <<"revision", UInt(U64)>>,
    <<"roster_digest", Block(U32, Fixed(DIGEST_LEN))>>, <<"sender", take_member>>,
    <<"recipient", take_member>>, <<"logical_sequence", UInt(U64)>>, <<"payload", Bytes(U32)>> >>))

context_encoded_len(c) ==
    Len(APPLICATION_DOMAIN) + lp_len(GROUP_ID_LEN) + U64 + lp_len(DIGEST_LEN)
    + member_len(c.sender) + member_len(c.recipient) + U64 + lp_len(Len(c.payload))

validate_context(c) ==
    /\ c.revision # RESERVED_REVISION
    /\ Len(c.payload) <= MAX_PAYLOAD_LEN
    /\ validate_member(c.sender) /\ validate_member(c.recipient)
    /\ context_encoded_len(c) <= MAX_APPLICATION_CONTEXT_LEN

encode_context(c) == IF validate_context(c) THEN {Put(PutContext, c)} ELSE {}

decode_context(bytes) ==
    IF Len(bytes) > MAX_APPLICATION_CONTEXT_LEN THEN {}
    ELSE {c \in Whole(TakeContext, bytes) : validate_context(c)}

-----------------------------------------------------------------------------
(* Invitation messages.  These write a member's parts behind u16 lengths,  *)
(* and identifiers and digests with no length at all.                      *)

put_lp == Bytes(U16)
take_lp == Bytes(U16)

PutInvitation == <<
    <<"id", Fixed(INVITATION_ID_LEN)>>, <<"group_id", Fixed(GROUP_ID_LEN)>>,
    <<"target", Struct(<< <<"identity", put_lp>>, <<"device", put_lp>> >>)>>,
    <<"source_revision", UInt(U64)>>, <<"source_roster_digest", Fixed(DIGEST_LEN)>>,
    <<"policy_version", UInt(U32)>>, <<"expires_at", UInt(U64)>> >>

TakeInvitation == <<
    <<"id", Fixed(INVITATION_ID_LEN)>>, <<"group_id", Fixed(GROUP_ID_LEN)>>,
    <<"target", Struct(<< <<"identity", take_lp>>, <<"device", take_lp>> >>)>>,
    <<"source_revision", UInt(U64)>>, <<"source_roster_digest", Fixed(DIGEST_LEN)>>,
    <<"policy_version", UInt(U32)>>, <<"expires_at", UInt(U64)>> >>

validate_invitation(i) ==
    /\ i.source_revision # RESERVED_REVISION
    /\ i.policy_version = POLICY_VERSION_V1
    /\ validate_member(i.target)

(* The invitation of a bootstrap is pending by its form: no status is      *)
(* written, and a reader builds it with Invitation::new.                   *)
check_binding(i, roster) ==
    /\ i.group_id = roster.group_id
    /\ i.source_revision = roster.revision
    /\ i.policy_version = roster.policy_version

PutBootstrap ==
    After(INVITATION_BOOTSTRAP_DOMAIN, Struct(Append(PutInvitation, <<"roster", Bytes(U32)>>)))

TakeBootstrap ==
    After(INVITATION_BOOTSTRAP_DOMAIN, Struct(Append(TakeInvitation, <<"roster", Bytes(U32)>>)))

encode_bootstrap(b) ==
    {Put(PutBootstrap, [b EXCEPT !.roster = roster]) :
        roster \in {bytes \in encode_roster(b.roster) :
                        validate_invitation(b) /\ check_binding(b, b.roster)}}

decode_bootstrap(bytes) ==
    UNION {{[b EXCEPT !.roster = roster] :
                roster \in {r \in decode_roster(b.roster) :
                                validate_invitation(b) /\ check_binding(b, r)}} :
           b \in Whole(TakeBootstrap, bytes)}

(* Acceptance and revocation differ in their domain alone. *)
Answer == Struct(<<
    <<"group_id", Fixed(GROUP_ID_LEN)>>, <<"invitation_id", Fixed(INVITATION_ID_LEN)>>,
    <<"source_revision", UInt(U64)>>, <<"source_roster_digest", Fixed(DIGEST_LEN)>> >>)

encode_acceptance(a) ==
    IF a.source_revision = RESERVED_REVISION THEN {}
    ELSE {Put(After(INVITATION_ACCEPTANCE_DOMAIN, Answer), a)}

decode_acceptance(bytes) ==
    {a \in Whole(After(INVITATION_ACCEPTANCE_DOMAIN, Answer), bytes) :
        a.source_revision # RESERVED_REVISION}

encode_revocation(a) ==
    IF a.source_revision = RESERVED_REVISION THEN {}
    ELSE {Put(After(INVITATION_REVOCATION_DOMAIN, Answer), a)}

decode_revocation(bytes) ==
    {a \in Whole(After(INVITATION_REVOCATION_DOMAIN, Answer), bytes) :
        a.source_revision # RESERVED_REVISION}

-----------------------------------------------------------------------------
(* The payload of a group envelope: a tag, a length and one of the above.  *)

EncodeInner(p) ==
    CASE p.op = "Application"          -> encode_context(p.args)
      [] p.op = "Roster"               -> encode_roster(p.args)
      [] p.op = "InvitationBootstrap"  -> encode_bootstrap(p.args)
      [] p.op = "InvitationAcceptance" -> encode_acceptance(p.args)
      [] p.op = "InvitationRevocation" -> encode_revocation(p.args)

PayloadTags == <<"Application", "Roster", "InvitationBootstrap", "InvitationAcceptance",
                 "InvitationRevocation">>

encode_payload(p) ==
    LET tag == CHOOSE t \in DOMAIN PayloadTags : PayloadTags[t] = p.op
        Wrapped(inner) == Put(After(GROUP_PAYLOAD_DOMAIN, Fields(<<UInt(1), Bytes(U32)>>)),
                              <<tag, inner>>)
    IN  {out \in {Wrapped(inner) : inner \in EncodeInner(p)} : Len(out) <= MAX_GROUP_PAYLOAD_LEN}

DecodeInner(tag, bytes) ==
    CASE tag = 1 -> {[op |-> "Application", args |-> c] : c \in decode_context(bytes)}
      [] tag = 2 -> {[op |-> "Roster", args |-> r] : r \in decode_roster(bytes)}
      [] tag = 3 -> {[op |-> "InvitationBootstrap", args |-> b] : b \in decode_bootstrap(bytes)}
      [] tag = 4 -> {[op |-> "InvitationAcceptance", args |-> a] : a \in decode_acceptance(bytes)}
      [] tag = 5 -> {[op |-> "InvitationRevocation", args |-> a] : a \in decode_revocation(bytes)}
      [] tag \notin 1..5 -> {}

(* The length must cover exactly the rest. *)
decode_payload(bytes) ==
    IF Len(bytes) > MAX_GROUP_PAYLOAD_LEN THEN {}
    ELSE UNION {DecodeInner(r[1], r[2]) :
                r \in Whole(After(GROUP_PAYLOAD_DOMAIN, Fields(<<UInt(1), Bytes(U32)>>)), bytes)}

-----------------------------------------------------------------------------
(* The intent of a logical send.  What each recipient has got to is not    *)
(* part of it.                                                             *)

PutIntent == After(LOGICAL_SEND_DOMAIN, Struct(<<
    <<"group_id", Block(U32, Fixed(GROUP_ID_LEN))>>, <<"revision", UInt(U64)>>,
    <<"sender", put_member>>, <<"sequence", UInt(U64)>>,
    <<"roster_digest", Block(U32, Fixed(DIGEST_LEN))>>, <<"payload", Bytes(U32)>>,
    <<"recipients", Many(U32, put_member)>> >>))

TakeIntent == After(LOGICAL_SEND_DOMAIN, Struct(<<
    <<"group_id", Block(U32, Fixed(GROUP_ID_LEN))>>, <<"revision", UInt(U64)>>,
    <<"sender", take_member>>, <<"sequence", UInt(U64)>>,
    <<"roster_digest", Block(U32, Fixed(DIGEST_LEN))>>, <<"payload", Bytes(U32)>>,
    <<"recipients", Many(U32, take_member)>> >>))

validate_intent(i) ==
    /\ validate_member(i.sender)
    /\ Len(i.payload) <= MAX_PAYLOAD_LEN
    /\ Len(i.recipients) \in 1..MAX_MEMBERS
    /\ \A n \in DOMAIN i.recipients : validate_member(i.recipients[n])
    /\ validate_recovery_recipients(i.recipients)
    /\ i.revision # RESERVED_REVISION

encode_intent(i) == IF validate_intent(i) THEN {Put(PutIntent, i)} ELSE {}

(* The reader's own checks, in its own words. *)
decode_intent(bytes) ==
    {i \in Whole(TakeIntent, bytes) :
        /\ validate_member(i.sender)
        /\ Len(i.payload) <= MAX_PAYLOAD_LEN
        /\ Len(i.recipients) # 0 /\ Len(i.recipients) <= MAX_MEMBERS
        /\ \A n \in DOMAIN i.recipients : validate_member(i.recipients[n])
        /\ validate_recovery_recipients(i.recipients)
        /\ i.revision # RESERVED_REVISION}

(* The plaintext one recipient of a logical send is to decrypt; refused    *)
(* for anyone else.                                                        *)
application_context(i, recipient) ==
    {c \in {[group_id |-> i.group_id, revision |-> i.revision,
             roster_digest |-> i.roster_digest, sender |-> i.sender, recipient |-> recipient,
             logical_sequence |-> i.sequence, payload |-> i.payload]} :
        validate_context(c) /\ \E n \in DOMAIN i.recipients : i.recipients[n] = recipient}
=============================================================================
