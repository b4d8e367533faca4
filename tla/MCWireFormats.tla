--------------------------- MODULE MCWireFormats ---------------------------
(***************************************************************************)
(* The byte forms for model checking: a byte of 32 values, integers of two *)
(* to four bytes, short identifiers, and for every format the values at    *)
(* the edges of its fields, its counts and its limits.                     *)
(***************************************************************************)
EXTENDS WireFormats

-----------------------------------------------------------------------------
(* Values from a layout: every field at its smallest, at its largest and   *)
(* in between, the fields of one value out of step with each other.        *)

Across(columns) ==
    LET longest == CHOOSE n \in {1} \union {Len(columns[i]) : i \in DOMAIN columns} :
                        \A i \in DOMAIN columns : Len(columns[i]) <= n
    IN  [n \in 1..longest |-> [i \in DOMAIN columns |-> columns[i][((n + i) % Len(columns[i])) + 1]]]

RECURSIVE Examples(_)
Examples(k) ==
    CASE k.is = "int"   -> <<0, 1, MaxInt(k.w)>>
      [] k.is = "code"  -> SetToSeq(k.of)
      [] k.is = "bytes" -> << <<>>, <<NotText>>, <<1, 2>> >>
      [] k.is = "text"  -> << <<>>, <<1>>, <<1, 2>> >>
      [] k.is = "fields" -> Across([i \in DOMAIN k.of |-> Examples(k.of[i])])
      [] k.is = "many"  -> LET each == Examples(k.of) IN << <<>>, <<each[1]>>, <<each[2], each[1]>> >>
      [] k.is \in {"block", "after"} -> Examples(k.of)
      [] k.is = "sum"   -> FlattenSeq([i \in DOMAIN k.of |->
                            LET args == Examples(k.of[i].of)
                            IN  [n \in DOMAIN args |-> [op |-> k.of[i].op, args |-> args[n]]]])

-----------------------------------------------------------------------------
(* The group forms. *)

Alice   == [identity |-> <<1>>, device |-> <<1>>]
Bob     == [identity |-> <<2>>, device |-> <<1>>]
Bobbie  == [identity |-> <<2, 1>>, device |-> <<>>]
Barbara == [identity |-> <<2, 2>>, device |-> <<2>>]
Long    == [identity |-> <<1, 2, 3>>, device |-> <<1>>]
Unnamed == [identity |-> <<>>, device |-> <<1, 1>>]

MCGroup == <<1>>
Other   == <<2>>

Genesis == [group_id |-> MCGroup, revision |-> 0, predecessor_digest |-> <<0, 0>>,
            authority |-> Alice, policy_version |-> 1, closed |-> 0, members |-> <<Alice>>]

Second == [Genesis EXCEPT !.revision = 1, !.predecessor_digest = <<3, 4>>, !.members = <<Alice, Bob>>]

Rosters == <<
    Genesis, Second,
    [Second EXCEPT !.closed = 1, !.members = <<>>],
    [Second EXCEPT !.group_id = Other, !.revision = MaxInt(U64) - 1],
    [Second EXCEPT !.members = <<Bob, Bobbie>>],
    \* refused: the order, an identity twice, too many, a long or an unlisted member
    [Second EXCEPT !.members = <<Bob, Alice>>],
    [Second EXCEPT !.members = <<Bob, [Bob EXCEPT !.device = <<2>>]>>],
    [Second EXCEPT !.members = <<Alice, Bob, Barbara>>],
    [Second EXCEPT !.members = <<Alice, Long>>],
    [Second EXCEPT !.authority = Unnamed],
    [Second EXCEPT !.authority = Barbara, !.members = <<Bobbie, Barbara>>],
    \* refused: a genesis that is not one, the reserved revision, a policy
    [Genesis EXCEPT !.predecessor_digest = <<0, 1>>],
    [Genesis EXCEPT !.members = <<Alice, Bob>>],
    [Genesis EXCEPT !.closed = 1],
    [Second EXCEPT !.revision = MaxInt(U64)],
    [Second EXCEPT !.policy_version = 2] >>

Digest(roster) == GR!Commitment(Put(GR!PutRoster, roster))

MCPredecessor == Digest(Second)

Context == [group_id |-> MCGroup, revision |-> 2, roster_digest |-> Digest(Second), sender |-> Alice,
            recipient |-> Bob, logical_sequence |-> 1, payload |-> <<1>>]

Contexts == <<
    Context,
    [Context EXCEPT !.payload = <<>>, !.logical_sequence = MaxInt(U64)],
    [Context EXCEPT !.payload = <<1, 2, 3>>],
    [Context EXCEPT !.revision = MaxInt(U64)],
    [Context EXCEPT !.sender = Long],
    [Context EXCEPT !.recipient = Unnamed],
    [Context EXCEPT !.sender = Barbara, !.recipient = Barbara, !.payload = <<1, 2>>] >>

Invite == [id |-> <<7, 7>>, group_id |-> MCGroup, target |-> Bob, source_revision |-> 1,
           source_roster_digest |-> Digest(Second), policy_version |-> 1, expires_at |-> 9]

Bootstrap(roster) ==
    [id |-> Invite.id, group_id |-> roster.group_id, target |-> Bob,
     source_revision |-> roster.revision, source_roster_digest |-> Digest(roster),
     policy_version |-> 1, expires_at |-> 9, roster |-> roster]

Bootstraps == <<
    Bootstrap(Genesis), Bootstrap(Second),
    [Bootstrap(Second) EXCEPT !.source_revision = 2],
    [Bootstrap(Second) EXCEPT !.group_id = Other],
    [Bootstrap(Second) EXCEPT !.target = Long],
    Bootstrap([Second EXCEPT !.members = <<Bob, Alice>>]) >>

Reply == [group_id |-> MCGroup, invitation_id |-> Invite.id, source_revision |-> 1,
          source_roster_digest |-> Digest(Second)]

Replies == << Reply, [Reply EXCEPT !.source_revision = MaxInt(U64) - 1],
              [Reply EXCEPT !.source_revision = MaxInt(U64)] >>

Payload(op, args) == [op |-> op, args |-> args]

Payloads == << Payload("Application", Context), Payload("Roster", Second),
               Payload("InvitationBootstrap", Bootstrap(Genesis)),
               Payload("InvitationBootstrap", Bootstrap(Second)),
               Payload("InvitationAcceptance", Reply), Payload("InvitationRevocation", Reply) >>

-----------------------------------------------------------------------------
(* The records. *)

The(set) == CHOOSE x \in set : TRUE

Intent == [group_id |-> MCGroup, revision |-> 2, sender |-> Alice, sequence |-> 1,
           roster_digest |-> Digest(Second), payload |-> <<1>>, recipients |-> <<Bob>>]

Intents == <<
    Intent, [Intent EXCEPT !.recipients = <<Bob, Bobbie>>, !.payload = <<>>],
    [Intent EXCEPT !.recipients = <<>>],
    [Intent EXCEPT !.recipients = <<Bobbie, Bob>>],
    [Intent EXCEPT !.recipients = <<Alice, Bob, Bobbie>>],
    [Intent EXCEPT !.recipients = <<Long>>],
    [Intent EXCEPT !.payload = <<1, 2, 3>>],
    [Intent EXCEPT !.revision = MaxInt(U64)] >>

Viewed(roster) == [roster |-> roster, digest |-> Digest(roster)]

Views == << Viewed(Genesis), Viewed(Second),
            Viewed([Second EXCEPT !.closed = 1, !.members = <<Alice>>]),
            Viewed([Second EXCEPT !.authority = Bob]) >>

Wrapped(context, ciphertext) ==
    [context |-> context, commitment |-> GR!Commitment(Put(GR!PutContext, context)),
     ciphertext |-> ciphertext]

Progresses == << Wrapped(The(GR!application_context(Intent, Bob)), <<8, 8>>),
                 Wrapped(The(GR!application_context(Intents[2], Bobbie)), <<>>) >>

Handed(p, attempts, disposition) ==
    [context |-> p.context, commitment |-> p.commitment, ciphertext |-> p.ciphertext,
     attempts_reserved |-> attempts, disposition |-> disposition]

Deferral(context) ==
    [context |-> context, commitment |-> GR!Commitment(Put(GR!PutContext, context))]

Receiver == [roster |-> Second, roster_digest |-> Digest(Second), local |-> Bob,
             next_event_id |-> 3,
             accepted |-> << [revision |-> 1, sender |-> Alice, sequence |-> 4,
                              commitment |-> <<5, 6>>, event_id |-> 2],
                             [revision |-> 1, sender |-> Alice, sequence |-> 5,
                              commitment |-> <<6, 6>>, event_id |-> 0] >>,
             deferred |-> << Deferral(Context) >>]

Receivers == <<
    [Receiver EXCEPT !.accepted = <<>>, !.deferred = <<>>, !.next_event_id = 0],
    Receiver,
    [Receiver EXCEPT !.deferred = << Deferral([Context EXCEPT !.sender = Barbara]),
                                     Deferral(Context) >>],
    [Receiver EXCEPT !.roster.closed = 1, !.roster_digest = Digest([Second EXCEPT !.closed = 1]),
                     !.accepted = <<>>, !.deferred = <<>>] >>

Recorded(id, status) ==
    [id |-> id, target |-> Bob, source_revision |-> 1, source_roster_digest |-> Digest(Second),
     policy_version |-> 1, expires_at |-> 9, status |-> status]

Pending == [op |-> "Pending", args |-> <<>>]
Book(group, invitations) == [group_id |-> group, invitations |-> invitations]

Books == <<
    Book(MCGroup, <<>>), Book(Other, <<Recorded(<<7, 7>>, Pending)>>),
    Book(MCGroup, <<Recorded(<<7, 8>>, Pending), Recorded(<<7, 7>>, [op |-> "Admitted", args |-> <<2>>])>>),
    Book(MCGroup, <<Recorded(<<0, 1>>, [op |-> "AcceptedPendingAdmission", args |-> <<>>]),
                    Recorded(<<1, 0>>, [op |-> "Revoked", args |-> <<>>])>>),
    Book(MCGroup, <<Recorded(<<0, 1>>, [op |-> "Expired", args |-> <<>>])>>),
    Book(MCGroup, <<Recorded(<<0, 1>>, [op |-> "Admitted", args |-> <<MaxInt(U64)>>])>>),
    Book(MCGroup, <<Recorded(<<0, 1>>, Pending), Recorded(<<0, 2>>, Pending), Recorded(<<0, 3>>, Pending)>>) >>

Handoff(recipient, payload, attempts, disposition, sequence) ==
    [recipient |-> recipient, payload |-> The(GR!encode_payload(payload)), ciphertext |-> <<9>>,
     attempts_reserved |-> attempts, disposition |-> disposition, sequence |-> sequence]

Handoffs == <<
    <<>>,
    << Handoff(Bobbie, Payloads[5], 1, 1, 0), Handoff(Bob, Payloads[5], 0, 0, 1) >>,
    << Handoff(Bob, Payloads[6], 2, 3, 0), Handoff(Bob, Payloads[5], 0, 0, 4) >>,
    << Handoff(Bob, Payloads[2], 1, 2, 0) >>, << Handoff(Bob, Payloads[5], 0, 4, 0) >>,
    << Handoff(Bob, Payloads[5], 2, 5, 0) >>,
    \* refused: more waiting than fit
    << Handoff(Bob, Payloads[2], 0, 0, 0), Handoff(Bob, Payloads[5], 0, 0, 1),
       Handoff(Bob, Payloads[6], 0, 0, 2) >> >>

Held == << Book(MCGroup, <<>>), Book(MCGroup, <<Genesis, Second>>), Book(Other, <<Rosters[4]>>) >>
HeldRosters == [n \in DOMAIN Held |-> [group_id |-> Held[n].group_id, rosters |-> Held[n].invitations]]

Received(context, op, args) ==
    [effect |-> 1, context |-> Put(GR!PutContext, context),
     commitment |-> GR!Commitment(Put(GR!PutContext, context)), disposition |-> [op |-> op, args |-> args]]

Receives == << Received(Context, "Accepted", <<0>>), Received(Context, "Accepted", <<3>>),
               Received(Context, "Duplicate", <<1>>), Received(Context, "Deferred", <<>>),
               Received(Context, "Rejected", <<10>>) >>

Snapshot == [version |-> 2, generation |-> MaxInt(U64), provider_state |-> <<1>>,
             application_state |-> <<>>, outbox |-> << <<4, 1>>, <<>> >>, inbox |-> << <<2>> >>,
             dedup |-> <<>>, group_controls |-> << <<4, 9, 1>> >>, delivery_cursor |-> 1]

Snapshots == << Snapshot, [Snapshot EXCEPT !.outbox = <<>>, !.inbox = <<>>, !.group_controls = <<>>,
                                           !.generation = 0] >>

-----------------------------------------------------------------------------
(* What a client keeps. *)

MCMe == [user |-> <<1>>, device |-> 1]

ContactLists ==
    LET one == CS!add(<<>>, MCMe)
        two == CS!add(CS!add(one, MCMe), [user |-> <<2>>, device |-> MaxInt(U32)])
    IN  <<<<>>, one, two, CS!remove(two, <<1>>)>>

Sessions == << {}, {[user |-> <<1>>, device |-> 1, session |-> <<3>>]},
               {[user |-> <<1>>, device |-> 2, session |-> <<>>],
                [user |-> <<1>>, device |-> 1, session |-> <<3>>],
                [user |-> <<>>, device |-> 1, session |-> <<4, 5>>]} >>

Exported == CS!export_sessions(Sessions[2])

States == << CS!Parts(1, <<6>>, Exported, <<>>, 0), CS!Parts(2, <<6, 6>>, <<>>, <<7>>, MaxInt(U64)) >>

Sealed(s, me, counter) ==
    [provider |-> s.provider, identity |-> s.identity, sessions |-> s.sessions,
     prekeys |-> s.prekeys, generation |-> s.generation, me |-> me, counter |-> counter]

SealedStates == << Sealed(States[1], MCMe, 2), Sealed(States[2], MCMe, 1),
                   Sealed(States[2], [user |-> <<2>>, device |-> 1], 2) >>

MCSamples == [f \in Format |->
    CASE f = "envelope" -> Examples(RP!TakeEnvelope)
      [] f = "stream"   -> Examples(Many(1, RP!TakeEnvelope))
      [] f = "request"  -> Examples(RP!TakeRequest)
      [] f = "response" -> Examples(RP!TakeResponse)
      [] f = "auth"     -> Examples(RP!TakeAuth)
      [] f = "dir_request"  -> Examples(SP!TakeDirRequest)
      [] f = "dir_response" -> Examples(SP!TakeDirResponse)
      [] f = "account_request"   -> Examples(SP!TakeAccountRequest)
      [] f = "account_response"  -> Examples(SP!TakeAccountResponse)
      [] f = "provision_request" -> Examples(SP!TakeProvisionRequest)
      [] f = "provision_outcome" -> Examples(SP!TakeProvisionOutcome)
      [] f \in {"roster", "replaced"} -> Rosters
      [] f = "context"   -> Contexts
      [] f = "bootstrap" -> Bootstraps
      [] f \in {"acceptance", "revocation"} -> Replies
      [] f = "payload"   -> Payloads
      [] f = "receiver"  -> Receivers
      [] f = "view"      -> Views
      [] f = "book"      -> Books
      [] f = "controls"  -> Handoffs
      [] f = "held"      -> HeldRosters
      [] f = "cancellation"  -> << [group_id |-> MCGroup, revision |-> 0], [group_id |-> Other, revision |-> 1] >>
      [] f = "intent_record" -> Intents
      [] f \in {"prepared", "relay_acceptance"} -> Progresses
      [] f = "handoff"   -> << Handed(Progresses[1], 1, 0), Handed(Progresses[2], 2, 1) >>
      [] f = "receive"   -> Receives
      [] f = "snapshot"  -> Snapshots
      [] f = "snapshot_v1" -> [n \in 1..2 |-> [Snapshots[n] EXCEPT !.version = 1]]
      [] f = "malformed" -> << [effect |-> 2, plaintext |-> <<1, 1>>] >>
      [] f = "roster_record" ->
            << [preimage |-> Put(GR!PutRoster, Second), commitment |-> Digest(Second),
                disposition |-> [op |-> "Rejected", args |-> <<3>>]] >>
      [] f = "effect"    -> <<0, 2>>
      [] f = "contacts"  -> ContactLists
      [] f = "sessions"  -> Sessions
      [] f = "durable"   -> << [prekeys |-> <<>>, sessions |-> Exported], [prekeys |-> <<7>>, sessions |-> <<>>] >>
      [] f \in {"state", "state_v3", "state_v2", "untagged"} -> States
      [] f \in {"sealed", "sealed_v5"} -> SealedStates]
=============================================================================
