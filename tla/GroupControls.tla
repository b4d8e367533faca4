---------------------------- MODULE GroupControls ----------------------------
(***************************************************************************)
(* The control plane of a group: its authority installs rosters, invites,  *)
(* revokes and admits; the members' and invitees' coordinators receive the *)
(* controls and answer (crates/tacenta-client, group_client.rs and         *)
(* group_operations.rs).                                                   *)
(*                                                                         *)
(* A coordinator's durable state is the list of control records in its     *)
(* snapshot; what it works on is read from the latest record of each kind. *)
(* Every operation is a sequence of commits: the decision, the prepared    *)
(* ciphertext, the reserved attempt, the relay's acceptance.  An operation *)
(* may stop before or after any of them: the process ends, a commit fails, *)
(* or its result is not known.  After the last two the coordinator refuses *)
(* everything until `recover` has read the store, so all three are the     *)
(* action Interrupted, and the next operation starts from the store.       *)
(*                                                                         *)
(* The relay keeps each recipient's mail in order; it may take a control   *)
(* without its answer reaching the sender, or not take it.                 *)
(***************************************************************************)
EXTENDS ControlOutbox, InvitationBook

CONSTANTS
    Authority, Sites,            \* the authority and all coordinators
    Group,
    MAX_GROUP_CONTROL_RECORDS,   \* control records a snapshot keeps
    InvitationIds, Targets,      \* what the authority may invite with
    MemberSets,                  \* the memberships it may install
    EXPIRES_AT, MaxNow,          \* when invitations expire; bound on the time
    MaxRevision,                 \* bound: rosters the authority installs
    MaxEncryptions,              \* bound: control ciphertexts of each coordinator
    MaxMail                      \* bound: what the relay holds for one of them

ASSUME ControlsAssumption ==
    /\ Authority \in Sites /\ Targets \subseteq Sites
    /\ MAX_GROUP_CONTROL_RECORDS \in Nat /\ MAX_GROUP_CONTROL_RECORDS >= 6
    /\ MaxRevision \in Nat /\ MaxEncryptions \in [Sites -> Nat] /\ MaxMail \in Nat
    /\ MaxNow \in Nat

VARIABLES
    controls,   \* per coordinator: the control records of its snapshot
    joined,     \* per coordinator: the source roster the caller attached with
    offers,     \* per coordinator: the source rosters bootstraps gave the caller
    step,       \* per coordinator: the operation that is running
    mail,       \* per coordinator: what the relay holds for it
    encrypted,  \* per coordinator: how many control ciphertexts it made
    now,        \* the logical time the callers pass
    accepted,   \* history: invitations their target accepted, durably
    stale,      \* history: ciphertexts a durable revocation cancelled
    installed   \* history: the rosters the authority's store held, in order

history == <<accepted, stale, installed>>
vars == <<controls, joined, offers, step, mail, encrypted, now, accepted, stale, installed>>

NoView == [revision |-> -1]

\* The commitment of a roster, here the roster's content and its predecessor.
Seal(revision, predecessor, members) ==
    [group |-> Group, revision |-> revision, predecessor |-> predecessor,
     digest |-> <<revision, members, predecessor>>, authority |-> Authority,
     policy_version |-> POLICY_VERSION_V1, closed |-> FALSE, members |-> members]

Genesis == Seal(0, ZeroDigest, {Authority})

\* GroupClient::next_roster
NextRoster(view, members) == Seal(view.revision + 1, view.digest, members)

-----------------------------------------------------------------------------
\* The control records of a snapshot

CHECKPOINT_TAGS == {"TCGV", "TCGB", "TCGO", "TCGX", "TCGQ", "TCGS"}

Record(tag, value) == [tag |-> tag, value |-> value]

\* append_group_control_records, one round of its eviction: the oldest record that
\* is not the latest checkpoint of its kind.
EvictOldest(log) ==
    LET kept(i) == log[i].tag \in CHECKPOINT_TAGS
                   /\ \A j \in i + 1 .. Len(log) : log[j].tag # log[i].tag
    IN  IF Len(log) > MAX_GROUP_CONTROL_RECORDS
        THEN RemoveAt(log, Min({i \in DOMAIN log : ~kept(i)}))
        ELSE log

\* append_group_control_records: a checkpoint replaces the one before it.
AppendControlRecords(log, records) ==
    LET push(acc, record) ==
          LET other(known) == record.tag \notin CHECKPOINT_TAGS \/ known.tag # record.tag
          IN  Append(SelectSeq(acc, other), record)
        evict(acc, record) == EvictOldest(acc)
    IN  FoldLeft(evict, FoldLeft(push, log, records), records)

Latest(log, tag, default) ==
    LET found == {i \in DOMAIN log : log[i].tag = tag}
    IN  IF found = {} THEN default ELSE log[Max(found)].value

\* recover_group_roster_view and attach: the stored view, or the caller's source.
View(s) == Latest(controls[s], "TCGV", joined[s])
\* recover_group_invitation_book, recover_group_control_outbox,
\* recover_group_deferred_rosters
Book(s) == Latest(controls[s], "TCGB", {})
Outbox(s) == Latest(controls[s], "TCGO", {})
Queue(s) == Latest(controls[s], "TCGQ", <<>>)

\* replaced_roster_members: the checkpoint counts when it is the predecessor.
ReplacedMembers(s) ==
    LET replaced == Latest(controls[s], "TCGS", NoView)
    IN  IF replaced # NoView /\ replaced.digest = View(s).predecessor THEN replaced.members
        ELSE {}

-----------------------------------------------------------------------------
\* Commits and steps

\* A coordinator between operations, and one that applies what it holds.
Rest == [pc |-> "rest"]
Draining == [pc |-> "drain"]

Resting(s) == step[s] = Rest

\* drain_deferred_rosters has something to do: a held control follows the view, or
\* one is behind it.
ToDrain(log, source) ==
    LET view == Latest(log, "TCGV", source)
        queue == Latest(log, "TCGQ", <<>>)
    IN  view # NoView /\ (NextFor(queue, view) # {} \/ PruneThrough(queue, view.revision) # queue)

\* Where attach, recover and receive end: in drain_deferred_rosters.
DrainedNext(log, source) == IF ToDrain(log, source) THEN Draining ELSE Rest

\* OperationStore::commit of a snapshot with these records added, and what the
\* coordinator does next.
Commit(s, records, next) ==
    /\ controls' = [controls EXCEPT ![s] = AppendControlRecords(@, records)]
    /\ step' = [step EXCEPT ![s] = next]

Init ==
    /\ controls = [s \in Sites |-> <<>>]
    /\ joined = [s \in Sites |-> IF s = Authority THEN Genesis ELSE NoView]
    /\ offers = [s \in Sites |-> {}]
    /\ step = [s \in Sites |-> Rest]
    /\ mail = [s \in Sites |-> <<>>]
    /\ encrypted = [s \in Sites |-> 0]
    /\ now = 0
    /\ accepted = {} /\ stale = {} /\ installed = <<Genesis>>

\* The caller's clock.
Tick ==
    /\ now < MaxNow
    /\ now' = now + 1
    /\ UNCHANGED <<controls, joined, offers, step, mail, encrypted, history>>

-----------------------------------------------------------------------------
\* Who may be sent a roster

\* recipient_can_observe_invitation_successor
ObservesSuccessor(s, successor, recipient) ==
    \E i \in Book(s) :
        /\ i.group = successor.group
        /\ i.target = recipient
        /\ i.source_revision <= successor.revision
        /\ now < i.expires_at
        /\ i.status \in {"pending", "accepted_pending_admission"}

\* roster_control_recipient_is_entitled, recipient_can_receive_roster_control and
\* recipient_can_receive_installed_roster_control
Entitled(s, successor, recipient) ==
    \/ recipient \in View(s).members
    \/ IF View(s) = successor THEN recipient \in ReplacedMembers(s)
       ELSE recipient \in successor.members
    \/ ObservesSuccessor(s, successor, recipient)

-----------------------------------------------------------------------------
\* The authority's operations

Control(to, payload, rest) == [pc |-> "prepare", to |-> to, payload |-> payload, rest |-> rest]

\* GroupClient::invite, its first commit: the invitation is recorded, then its
\* bootstrap is prepared and handed off.
Invite(id, target) ==
    LET view == View(Authority)
        invitation == NewInvitation(id, Group, target, view.revision, view.digest, EXPIRES_AT)
    IN  /\ Resting(Authority)
        /\ ~view.closed
        /\ MayCreate(Book(Authority), Authority, Authority, view.members, invitation, now)
        /\ Commit(Authority, <<Record("TCGB", Create(Book(Authority), invitation))>>,
                  Control(target, [kind |-> "bootstrap", invitation |-> invitation,
                                   source |-> view], <<>>))
        /\ UNCHANGED <<joined, offers, mail, encrypted, now, history>>

\* What a durable revocation for this target makes stale.
Superseded(target) ==
    {h.bytes : h \in {g \in Outbox(Authority) :
                          g.recipient = target /\ g.payload.kind # "revocation"}}

RevocationOf(i) == [kind |-> "revocation", id |-> i.id, revision |-> i.source_revision,
                    digest |-> i.source_digest]

\* Mutant of RevokeInvitation: the earlier controls to the target are left alone.
RevokesOnly(id) ==
    LET invitation == InvitationOf(Book(Authority), id)
    IN  /\ Resting(Authority)
        /\ MayRevoke(Book(Authority), id, Authority, Authority, now)
        /\ Commit(Authority, <<Record("TCGB", Revoke(Book(Authority), id))>>,
                  Control(invitation.target, RevocationOf(invitation), <<>>))
        /\ stale' = stale \union Superseded(invitation.target)
        /\ UNCHANGED <<joined, offers, mail, encrypted, now, accepted, installed>>

\* GroupClient::revoke_invitation and
\* commit_authority_invitation_revocation_transition: the revocation and the end of
\* every earlier control to its target are one commit.  A revocation that was
\* prepared before is sent again as it is.
RevokeInvitation(id) ==
    LET invitation == InvitationOf(Book(Authority), id)
        outbox == CancelNonRevocation(Outbox(Authority), invitation.target)
        control == Control(invitation.target, RevocationOf(invitation), <<>>)
    IN  /\ Resting(Authority)
        /\ MayRevoke(Book(Authority), id, Authority, Authority, now)
        /\ Commit(Authority, <<Record("TCGB", Revoke(Book(Authority), id)),
                               Record("TCGO", outbox)>>,
                  IF HandoffFor(outbox, control.to, control.payload) # {}
                  THEN [control EXCEPT !.pc = "reserve"] ELSE control)
        /\ stale' = stale \union Superseded(invitation.target)
        /\ UNCHANGED <<joined, offers, mail, encrypted, now, accepted, installed>>

NoAdmission == [id |-> "none"]

\* commit_roster_transition, the admission it carries.
MayAdmitWith(admission, successor) ==
    IF admission = NoAdmission THEN TRUE
    ELSE
       /\ admission.target \in successor.members
       /\ \E i \in Book(Authority) : i.id = admission.id /\ i.target = admission.target
       /\ MayAdmit(Book(Authority), admission.id, Authority, successor.authority,
                   successor.revision, now)

\* commit_roster_transition: the records of one judged roster, `carried` being the
\* control outbox and the invitation book it writes with it and `effect` that of the
\* ratchet.
TransitionRecords(s, peer, roster, carried, effect, queue) ==
    LET disposition == AcceptSuccessor(View(s), peer, roster)
    IN  <<Record("TCGC", "judged")>> \o
        (IF disposition = "accepted"
         THEN <<Record("TCGX", roster.revision), Record("TCGS", View(s))>> ELSE <<>>) \o
        carried \o effect \o
        <<Record("TCGV", IF disposition = "accepted" THEN roster ELSE View(s))>> \o
        (IF queue # Queue(s) THEN <<Record("TCGQ", queue)>> ELSE <<>>)

Effect == <<Record("TCGE", "effect")>>

\* Mutant of InstallRoster: the first recipient's ciphertext is committed, and sent,
\* before the local transition.
SendsBeforeInstalling(members, recipients, admission) ==
    LET successor == NextRoster(View(Authority), members)
        first == Head(recipients)
        payload == [kind |-> "roster", roster |-> successor]
        bytes == <<Authority, encrypted[Authority]>>
        outbox == RecordPrepared(Outbox(Authority), first, payload, bytes)
    IN  /\ Resting(Authority)
        /\ successor.revision <= MaxRevision /\ encrypted[Authority] < MaxEncryptions[Authority]
        /\ recipients # <<>>
        /\ ValidRoster(successor)
        /\ \A i \in DOMAIN recipients : Entitled(Authority, successor, recipients[i])
        /\ AcceptSuccessor(View(Authority), Authority, successor) = "accepted"
        /\ MayRecordPrepared(Outbox(Authority), first, payload, bytes)
        /\ MayAdmitWith(admission, successor)
        /\ encrypted' = [encrypted EXCEPT ![Authority] = @ + 1]
        /\ Commit(Authority,
                  <<Record("TCGO", outbox)>> \o Effect,
                  [Control(first, payload, Tail(recipients)) EXCEPT !.pc = "reserve"])
        /\ UNCHANGED <<joined, offers, mail, now, history>>

\* GroupClient::install_roster for a roster that is not installed yet, up to
\* the commit of prepare_authority_roster_control: the local transition, the
\* admission and the first recipient's ciphertext are one snapshot.  It passes no
\* queue of held controls.
InstallRoster(members, recipients, admission) ==
    LET successor == NextRoster(View(Authority), members)
        first == Head(recipients)
        payload == [kind |-> "roster", roster |-> successor]
        bytes == <<Authority, encrypted[Authority]>>
        outbox == RecordPrepared(Outbox(Authority), first, payload, bytes)
    IN  /\ Resting(Authority)
        /\ successor.revision <= MaxRevision /\ encrypted[Authority] < MaxEncryptions[Authority]
        /\ recipients # <<>>
        /\ ValidRoster(successor)
        /\ \A i \in DOMAIN recipients : Entitled(Authority, successor, recipients[i])
        /\ AcceptSuccessor(View(Authority), Authority, successor) = "accepted"
        /\ MayRecordPrepared(Outbox(Authority), first, payload, bytes)
        /\ MayAdmitWith(admission, successor)
        /\ encrypted' = [encrypted EXCEPT ![Authority] = @ + 1]
        /\ Commit(Authority,
                  TransitionRecords(Authority, Authority, successor,
                      <<Record("TCGO", outbox)>> \o
                      (IF admission = NoAdmission THEN <<>>
                       ELSE <<Record("TCGB", Admit(Book(Authority), admission.id,
                                                   successor.revision))>>),
                      Effect, Queue(Authority)),
                  [Control(first, payload, Tail(recipients)) EXCEPT !.pc = "reserve"])
        /\ installed' = Append(installed, successor)
        /\ UNCHANGED <<joined, offers, mail, now, accepted, stale>>

\* GroupClient::install_roster for the roster that is installed: it is only
\* fanned out.
FanOut(recipients) ==
    /\ Resting(Authority)
    /\ recipients # <<>>
    /\ \A i \in DOMAIN recipients :
           Entitled(Authority, View(Authority), recipients[i])
    /\ step' = [step EXCEPT ![Authority] =
                   [Control(Head(recipients), [kind |-> "roster", roster |-> View(Authority)],
                            Tail(recipients)) EXCEPT !.pc = "next"]]
    /\ UNCHANGED <<controls, joined, offers, mail, encrypted, now, history>>

\* install_roster's loop, and the end of the other operations: on to the next
\* recipient.
Onward(s) ==
    IF step[s].rest = <<>> THEN Rest
    ELSE [step[s] EXCEPT !.pc = "next", !.to = Head(step[s].rest), !.rest = Tail(step[s].rest)]

\* install_roster's loop, one recipient of the installed roster: what the relay has
\* or will not be sent again is passed over, the rest is prepared.
NextRecipient(s) ==
    LET known == HandoffFor(Outbox(s), step[s].to, step[s].payload)
        finished == \E h \in known : TerminalHandoff(h)
    IN  /\ step[s].pc = "next"
        /\ step' = [step EXCEPT ![s] =
               IF finished \/ ~Entitled(s, step[s].payload.roster, step[s].to) THEN Onward(s)
               ELSE [step[s] EXCEPT !.pc = "prepare"]]
        /\ UNCHANGED <<controls, joined, offers, mail, encrypted, now, history>>

-----------------------------------------------------------------------------
\* One control to one recipient

\* prepare_control_handoff: a live handoff is used as it is; otherwise everything
\* that can refuse is asked before the encryption, whose bytes are committed.
Prepare(s) ==
    LET known == HandoffFor(Outbox(s), step[s].to, step[s].payload)
        bytes == <<s, encrypted[s]>>
    IN  /\ step[s].pc = "prepare"
        /\ IF \E h \in known : ~TerminalHandoff(h)
           THEN step' = [step EXCEPT ![s].pc = "reserve"] /\ UNCHANGED <<controls, encrypted>>
           ELSE IF ~MayRecordPrepared(Outbox(s), step[s].to, step[s].payload, bytes)
           THEN step' = [step EXCEPT ![s] = Onward(s)] /\ UNCHANGED <<controls, encrypted>>
           ELSE /\ encrypted[s] < MaxEncryptions[s]
                /\ encrypted' = [encrypted EXCEPT ![s] = @ + 1]
                /\ Commit(s, <<Record("TCGO", RecordPrepared(Outbox(s), step[s].to,
                                                             step[s].payload, bytes))>>,
                          [step[s] EXCEPT !.pc = "reserve"])
        /\ UNCHANGED <<joined, offers, mail, now, history>>

\* The encryption fails: an install goes on with its next recipient, unless the error
\* is one that live_client_error calls Frozen; anything else ends.
PrepareFails(s) ==
    /\ step[s].pc = "prepare"
    /\ \E next \in {Onward(s), Rest} : step' = [step EXCEPT ![s] = next]
    /\ UNCHANGED <<controls, joined, offers, mail, encrypted, now, history>>

\* dispatch_outbound_roster_control, its first commit: the attempt is durable before
\* the bytes go out.
ReserveAttempt(s) ==
    /\ step[s].pc = "reserve"
    /\ IF MayReserveHandoff(Outbox(s), step[s].to, step[s].payload)
       THEN Commit(s, <<Record("TCGO", Reserve(Outbox(s), step[s].to, step[s].payload))>>,
                   [pc |-> "dispatch", to |-> step[s].to, payload |-> step[s].payload,
                    rest |-> step[s].rest,
                    bytes |-> (CHOOSE h \in HandoffFor(Outbox(s), step[s].to, step[s].payload) :
                                   TRUE).bytes])
       ELSE step' = [step EXCEPT ![s] = Onward(s)] /\ UNCHANGED controls
    /\ UNCHANGED <<joined, offers, mail, encrypted, now, history>>

\* Client::dispatch_group_ciphertext: the relay takes the bytes, and its answer comes
\* or not.
RelayTakes(s, answered) ==
    /\ step[s].pc = "dispatch"
    /\ Len(mail[step[s].to]) < MaxMail
    /\ mail' = [mail EXCEPT ![step[s].to] =
                   Append(@, [from |-> s, payload |-> step[s].payload])]
    /\ step' = [step EXCEPT ![s] = IF answered THEN [step[s] EXCEPT !.pc = "accept"]
                                   ELSE Onward(s)]
    /\ UNCHANGED <<controls, joined, offers, encrypted, now, history>>

\* The relay did not take them; an install goes on unless the error is one that
\* live_client_error calls Frozen.
RelayUnreached(s) ==
    /\ step[s].pc = "dispatch"
    /\ \E next \in {Onward(s), Rest} : step' = [step EXCEPT ![s] = next]
    /\ UNCHANGED <<controls, joined, offers, mail, encrypted, now, history>>

\* dispatch_outbound_roster_control, its second commit.  The handoff may be gone: the last
\* attempt is terminal from its reservation, whose reclaim drops the oldest of those, and
\* that can be this one.  Then `accept` fails, nothing is committed, and the operation
\* goes on as if the relay had not answered.
RecordAcceptance(s) ==
    /\ step[s].pc = "accept"
    /\ IF MayAcceptHandoff(Outbox(s), step[s].to, step[s].payload)
       THEN Commit(s, <<Record("TCGO", AcceptHandoff(Outbox(s), step[s].to, step[s].payload))>>,
                   Onward(s))
       ELSE step' = [step EXCEPT ![s] = Onward(s)] /\ UNCHANGED controls
    /\ UNCHANGED <<joined, offers, mail, encrypted, now, history>>

\* GroupClient::dispatch_pending_controls, one of its handoffs.
DispatchPending(s) ==
    /\ Resting(s)
    /\ \E h \in PendingHandoffs(Outbox(s)) :
           step' = [step EXCEPT ![s] = [pc |-> "reserve", to |-> h.recipient,
                                        payload |-> h.payload, rest |-> <<>>]]
    /\ UNCHANGED <<controls, joined, offers, mail, encrypted, now, history>>

-----------------------------------------------------------------------------
\* The members' and invitees' operations

\* GroupClient::accept_invitation, its first commit.
AcceptOffer(s, id) ==
    LET i == InvitationOf(Book(s), id)
    IN  /\ Resting(s) /\ s # Authority
        /\ HasInvitation(Book(s), id)
        /\ MayAcceptInvitation(Book(s), id, s, i.source_revision, i.source_digest, now)
        /\ Commit(s, <<Record("TCGB", AcceptInvitation(Book(s), id))>>,
                  Control(Authority, [kind |-> "acceptance", id |-> id,
                                      revision |-> i.source_revision,
                                      digest |-> i.source_digest], <<>>))
        /\ accepted' = accepted \union {id}
        /\ UNCHANGED <<joined, offers, mail, encrypted, now, stale, installed>>

\* join_group, with the source roster of a bootstrap that `receive`
\* returned; attach then applies what was held.
Join(s) ==
    /\ Resting(s) /\ s # Authority /\ View(s) = NoView
    /\ \E source \in offers[s] :
           /\ AcceptsSource(Authority, source)
           /\ joined' = [joined EXCEPT ![s] = source]
           /\ step' = [step EXCEPT ![s] = DrainedNext(controls[s], source)]
    /\ UNCHANGED <<controls, offers, mail, encrypted, now, history>>

\* commit_roster_transition of a control from the wire, and
\* commit_hold_roster_without_view: the records, none for a refusal.
RosterRecords(s, peer, roster) ==
    IF View(s) = NoView
    THEN LET result == HoldKeepingLowest(Queue(s), roster)
         IN  IF peer = Authority /\ roster.revision # 0 /\ result.held
             THEN Effect \o <<Record("TCGQ", result.queue)>> ELSE <<>>
    ELSE LET disposition == AcceptSuccessor(View(s), peer, roster)
             queue == QueueAfter(Queue(s), View(s), roster, disposition, NoRevision)
         IN  TransitionRecords(s, peer, roster, <<>>, Effect, queue)

\* commit_group_invitation_bootstrap
BootstrapRecords(s, peer, payload) ==
    IF /\ peer = Authority /\ payload.source.authority = peer
       /\ payload.invitation.source_digest = payload.source.digest
       /\ ~payload.source.closed
       /\ payload.invitation.target = s
       /\ MayCreate(Book(s), peer, payload.source.authority, payload.source.members,
                    payload.invitation, now)
    THEN <<Record("TCGB", Create(Book(s), payload.invitation))>> \o Effect
    ELSE <<>>

\* commit_group_invitation_acceptance
AcceptanceRecords(s, peer, payload) ==
    IF MayAcceptInvitation(Book(s), payload.id, peer, payload.revision, payload.digest, now)
    THEN <<Record("TCGB", AcceptInvitation(Book(s), payload.id))>> \o Effect
    ELSE <<>>

\* commit_group_invitation_revocation
RevocationRecords(s, peer, payload) ==
    IF /\ peer = Authority
       /\ \E i \in Book(s) : i.id = payload.id /\ i.target = s
              /\ i.source_revision = payload.revision /\ i.source_digest = payload.digest
       /\ MayRevoke(Book(s), payload.id, peer, Authority, now)
    THEN <<Record("TCGB", Revoke(Book(s), payload.id))>> \o Effect
    ELSE <<>>

\* receive and route, for the oldest control the relay holds.  The relay drops it
\* once its disposition is durable; a control that is refused changes no control
\* record (commit_malformed_group_payload).
Deliver(s) ==
    LET item == Head(mail[s])
        payload == item.payload
        records == CASE payload.kind = "roster" -> RosterRecords(s, item.from, payload.roster)
                     [] payload.kind = "bootstrap" -> BootstrapRecords(s, item.from, payload)
                     [] payload.kind = "acceptance" -> AcceptanceRecords(s, item.from, payload)
                     [] payload.kind = "revocation" -> RevocationRecords(s, item.from, payload)
    IN  /\ Resting(s) /\ mail[s] # <<>>
        /\ Commit(s, records, DrainedNext(AppendControlRecords(controls[s], records), joined[s]))
        /\ mail' = [mail EXCEPT ![s] = Tail(@)]
        /\ offers' = IF payload.kind = "bootstrap" /\ records # <<>>
                     THEN [offers EXCEPT ![s] = @ \union {payload.source}] ELSE offers
        /\ UNCHANGED <<joined, encrypted, now, history>>

\* drain_deferred_rosters, one commit of its loop: commit_next_deferred_roster, and
\* commit_prune_deferred_rosters at its end.
Drain(s) ==
    LET next == NextFor(Queue(s), View(s))
        held == CHOOSE h \in next : TRUE
        disposition == AcceptSuccessor(View(s), View(s).authority, held)
        records ==
          IF next = {} THEN <<Record("TCGQ", PruneThrough(Queue(s), View(s).revision))>>
          ELSE TransitionRecords(s, View(s).authority, held, <<>>, <<>>,
                   QueueAfter(Queue(s), View(s), held, disposition, held.revision))
    IN  /\ step[s].pc = "drain"
        /\ Commit(s, records, DrainedNext(AppendControlRecords(controls[s], records), joined[s]))
        /\ UNCHANGED <<joined, offers, mail, encrypted, now, history>>

\* The process ends and the caller opens the store and attaches its group again, the
\* authority with create_group, the others with await_group; or a commit fails and
\* `recover` attaches what was attached.
Interrupted(s) ==
    \E source \in IF s = Authority THEN {Genesis} ELSE {joined[s], NoView} :
        /\ joined' = [joined EXCEPT ![s] = source]
        /\ step' = [step EXCEPT ![s] = DrainedNext(controls[s], source)]
        /\ UNCHANGED <<controls, offers, mail, encrypted, now, history>>

\* The lists of recipients: one, or two of them in either order.
RecipientLists ==
    LET others == Sites \ {Authority}
    IN  {<<r>> : r \in others} \union {p \in others \X others : p[1] # p[2]}

Admissions == {NoAdmission} \union [id : InvitationIds, target : Targets]

Next ==
    \/ Tick
    \/ \E id \in InvitationIds :
          \/ \E target \in Targets : Invite(id, target)
          \/ HasInvitation(Book(Authority), id) /\ RevokeInvitation(id)
          \/ \E s \in Sites : AcceptOffer(s, id)
    \/ \E recipients \in RecipientLists :
          \/ FanOut(recipients)
          \/ \E members \in MemberSets, a \in Admissions : InstallRoster(members, recipients, a)
    \/ \E s \in Sites :
          \/ NextRecipient(s)
          \/ Prepare(s) \/ PrepareFails(s) \/ ReserveAttempt(s)
          \/ RelayTakes(s, TRUE) \/ RelayTakes(s, FALSE) \/ RelayUnreached(s)
          \/ RecordAcceptance(s) \/ DispatchPending(s)
          \/ Join(s) \/ Deliver(s) \/ Drain(s) \/ Interrupted(s)

Spec == Init /\ [][Next]_vars

-----------------------------------------------------------------------------
\* Properties

\* Every coordinator's records can be read back: the view under the pinned
\* authority, the held controls, the invitation book and the control outbox, and the
\* list is within its bound (attach, the decode_state functions).
StoredStateRecovers ==
    \A s \in Sites :
        /\ Len(controls[s]) <= MAX_GROUP_CONTROL_RECORDS
        /\ Latest(controls[s], "TCGV", NoView) # NoView =>
               DecodesView(Authority, Latest(controls[s], "TCGV", NoView))
        /\ DecodesQueue(Queue(s), Group, Authority)
        /\ DecodesBook(Book(s), Group)
        /\ DecodesControlOutbox(Outbox(s))

\* Every roster a coordinator works with is one the authority installed, so two
\* members at one revision have the same roster, and the authority's is the newest:
\* its store forgets no checkpoint (accept_successor, the held queue; 0145).
OneHistory ==
    /\ \A s \in Sites :
         View(s) # NoView => \E i \in DOMAIN installed : View(s) = installed[i]
    /\ View(Authority) = Last(installed)

\* An invitation the authority marks admitted was accepted by its target first
\* (admit, accept_invitation, 0125).
AdmittedWasAccepted ==
    \A i \in Book(Authority) : i.status = "admitted" => i.id \in accepted

\* A ciphertext that was prepared for a target before its invitation was revoked is
\* not given to the relay afterwards, by any retry or after any restart (0126).
NoStaleControl ==
    \A s \in Sites : step[s].pc = "dispatch" => step[s].bytes \notin stale

\* Not a property of this code.  What the comment in dispatch_outbound_roster_control says
\* of the final attempt, "Once the relay has accepted it, that acceptance is recorded too
\* (0135)": a handoff whose answer came can be accepted.
AcceptanceIsRecorded ==
    \A s \in Sites :
        step[s].pc = "accept" => MayAcceptHandoff(Outbox(s), step[s].to, step[s].payload)
=============================================================================
