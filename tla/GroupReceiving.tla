---------------------------- MODULE GroupReceiving ----------------------------
(***************************************************************************)
(* One member's coordinator receiving a group's mail: `receive`, what it   *)
(* calls, and the calls around it (crates/tacenta-client, group_client.rs  *)
(* and group_operations.rs).                                               *)
(*                                                                         *)
(* The relay keeps the mail in order until it is acknowledged, so an item  *)
(* may be fetched again; the pairwise provider opens each ciphertext once. *)
(* A call acknowledges what the previous one handed over, reads what is    *)
(* still undelivered, stages the fetched items one commit each, applies    *)
(* the rosters that were waiting, acknowledges the processed prefix at the *)
(* relay and returns.  A commit may succeed, be published without the      *)
(* caller knowing, or not happen; the last two freeze the coordinator.     *)
(***************************************************************************)
EXTENDS GroupReceiver, GroupRoster

CONSTANTS
    Local, Authority, Group,  \* this member, the pinned authority, the group
    Source,                   \* the roster the caller joins from
    Items,                    \* what the relay may deliver
    MaxMail,                  \* bound: items the relay ever holds
    MAX_RECEIVE_ITEMS,        \* items one call stages
    ReceivesUnattached        \* whether the caller may receive before it attaches

ASSUME ReceivingAssumption ==
    MaxMail \in Nat /\ MAX_RECEIVE_ITEMS \in Nat \ {0} /\ ReceivesUnattached \in BOOLEAN

VARIABLES
    mail,         \* the items the relay was given for this member, in order
    acked,        \* how many of them it was told to drop
    durable,      \* the snapshot in the operation store
    snapshot,     \* the coordinator's copy of it
    provider,     \* positions of the ciphertexts the live provider consumed
    group,        \* the live view, receiver and held controls
    attachment,   \* "none", "await" or "join"
    frozen,       \* the coordinator needs `recover`
    call,         \* the call that is running
    handed_over,  \* events below it were handed to the caller, in memory
    issued,       \* history: the events that became durable
    handed,       \* history: the events the caller was handed
    reported      \* history: the event ids the caller was told are lost

relay == <<mail, acked>>
history == <<issued, handed, reported>>
vars == <<mail, acked, durable, snapshot, provider, group, attachment, frozen,
          call, handed_over, issued, handed, reported>>

NoView == [revision |-> -1]
NoReceiver == [next_event_id |-> 0]

EmptySnapshot ==
    [provider |-> {}, receiver |-> NoReceiver, view |-> NoView, queue |-> <<>>,
     inbox |-> <<>>, cursor |-> 0]

NoGroup == [view |-> NoView, receiver |-> NoReceiver, queue |-> <<>>]

Idle == [pc |-> "idle"]

Init ==
    /\ mail = <<>> /\ acked = 0
    /\ durable = EmptySnapshot /\ snapshot = EmptySnapshot /\ provider = {}
    /\ group = NoGroup /\ attachment = "none" /\ frozen = FALSE
    /\ call = Idle /\ handed_over = 0
    /\ issued = {} /\ handed = {} /\ reported = {}

-----------------------------------------------------------------------------
\* Commits

Outcomes == {"committed", "landed", "lost"}

\* The events a candidate snapshot adds to the durable one.
NewEvents(candidate) ==
    {r \in ToSet(candidate.inbox) :
        r.event >= durable.receiver.next_event_id /\ r.context # Scrubbed}

\* OperationStore::commit, for a candidate built from the coordinator's copy.
Commit(candidate, outcome) ==
    /\ durable' = IF outcome = "lost" THEN durable ELSE candidate
    /\ issued' = IF outcome = "lost" THEN issued ELSE issued \union NewEvents(candidate)
    /\ snapshot' = IF outcome = "committed" THEN candidate ELSE snapshot

-----------------------------------------------------------------------------
\* The relay

\* Mail for this member is stored.  A call reads only what it fetched when it began,
\* so mail that arrives while it runs arrives, to it, when it has ended.
Arrive(item) ==
    /\ call = Idle
    /\ Len(mail) < MaxMail
    /\ mail' = Append(mail, item)
    /\ UNCHANGED <<acked, durable, snapshot, provider, group, attachment, frozen,
                   call, handed_over, history>>

-----------------------------------------------------------------------------
\* Attaching a group

\* GroupClient::attach up to its drain: a stored view and receiver win over
\* the source the caller passed.
Rebuilt(stored, how) ==
    LET view == IF stored.view # NoView THEN stored.view
                ELSE IF how = "join" THEN Source ELSE NoView
    IN  [view |-> view,
         receiver |-> IF view = NoView THEN NoReceiver
                      ELSE IF stored.receiver = NoReceiver THEN NewReceiver(view, Local)
                      ELSE stored.receiver,
         queue |-> stored.queue]

\* Mutant of Attach: what was held before the view existed keeps waiting.
AttachOnly(how) ==
    /\ call = Idle /\ ~frozen
    /\ attachment = "none" \/ (attachment = "await" /\ how = "join")
    /\ attachment' = how
    /\ group' = Rebuilt(snapshot, how)
    /\ UNCHANGED <<relay, durable, snapshot, provider, frozen, call, handed_over, history>>

\* create_group, join_group and await_group.
Attach(how) ==
    /\ call = Idle /\ ~frozen
    /\ attachment = "none" \/ (attachment = "await" /\ how = "join")
    /\ attachment' = how
    /\ group' = Rebuilt(snapshot, how)
    /\ call' = [pc |-> "drain", caller |-> "attach", events |-> {}]
    /\ UNCHANGED <<relay, durable, snapshot, provider, frozen, handed_over, history>>

-----------------------------------------------------------------------------
\* The start of a call

\* commit_delivery_cursor
DeliveryCursor(snap) ==
    [snap EXCEPT !.cursor = handed_over, !.inbox = Scrub(@, handed_over)]

\* The events committed and not acknowledged, and how many of them are gone.
Undelivered(snap) == UndeliveredEvents(snap.inbox, snap.cursor)

\* Mutant of LostEvents: what was delivered counts as lost.
LostSinceStart(snap, events) ==
    Max({0, group.receiver.next_event_id - Cardinality(events)})

LostEvents(snap, events) ==
    LET gap == group.receiver.next_event_id - snap.cursor
    IN  Max({0, Max({0, gap}) - Cardinality(events)})

Begun(snap) ==
    [pc |-> "stage", caller |-> "receive",
     from |-> acked, next |-> acked + 1,
     to |-> Min({Len(mail), acked + MAX_RECEIVE_ITEMS}),
     redelivered |-> Undelivered(snap),
     lost |-> LostEvents(snap, Undelivered(snap)),
     issued |-> group.receiver.next_event_id,
     inbound |-> {}, events |-> {}, failed |-> FALSE]

\* GroupClient::receive: acknowledge_delivery, then what is undelivered, then
\* the fetch.
BeginReceive(outcome) ==
    /\ call = Idle /\ ~frozen
    /\ attachment # "none" \/ ReceivesUnattached
    /\ IF handed_over > snapshot.cursor
       THEN /\ Commit(DeliveryCursor(snapshot), outcome)
            /\ frozen' = (outcome # "committed")
            /\ call' = IF outcome = "committed" THEN Begun(DeliveryCursor(snapshot)) ELSE Idle
       ELSE /\ outcome = "committed"
            /\ call' = Begun(snapshot)
            /\ UNCHANGED <<durable, snapshot, frozen, issued>>
    /\ UNCHANGED <<relay, provider, group, attachment, handed_over, handed, reported>>

\* GroupClient::acknowledge_delivery, called on its own.
AcknowledgeDelivery(outcome) ==
    /\ call = Idle /\ ~frozen /\ handed_over > snapshot.cursor
    /\ Commit(DeliveryCursor(snapshot), outcome)
    /\ frozen' = (outcome # "committed")
    /\ UNCHANGED <<relay, provider, group, attachment, call, handed_over, handed, reported>>

\* fetch_staged fails after its one reconnection: the call returns an error and
\* hands nothing over.
FetchFails ==
    /\ call.pc = "stage" /\ call.next = call.from + 1
    /\ call' = Idle
    /\ UNCHANGED <<relay, durable, snapshot, provider, group, attachment, frozen,
                   handed_over, history>>

-----------------------------------------------------------------------------
\* Staging one item

\* refuse and commit_malformed_group_payload
Refused(snap, position) ==
    [snap EXCEPT !.provider = @ \union {position}, !.inbox = PushBounded(@, NoContext)]

\* commit_roster_transition for a receiving member: the view, the held controls,
\* the receiver with its waiting contexts received again, one record for each.
Applied(snap, peer, candidate, applying) ==
    LET disposition == AcceptSuccessor(group.view, peer, candidate)
        queue == QueueAfter(group.queue, group.view, candidate, disposition, applying)
        installed == IF disposition = "accepted"
                     THEN InstallAcceptedRoster(group.receiver, candidate)
                     ELSE [receiver |-> group.receiver, results |-> <<>>]
        record(inbox, item) == RecordReceive(inbox, item.context, item.disposition, item.event)
    IN  [snapshot |-> [snap EXCEPT !.view = IF disposition = "accepted" THEN candidate
                                            ELSE group.view,
                                   !.receiver = installed.receiver, !.queue = queue,
                                   !.inbox = FoldLeft(record, @, installed.results)],
         accepted |-> disposition = "accepted"]

\* commit_hold_roster_without_view
HoldWithoutView(snap, position, peer, control) ==
    LET result == HoldKeepingLowest(group.queue, control)
    IN  IF /\ peer = Authority
           /\ control.group = Group
           /\ control.authority = Authority
           /\ control.revision # 0
           /\ result.held
        THEN [snap EXCEPT !.provider = @ \union {position}, !.queue = result.queue]
        ELSE Refused(snap, position)

\* commit_receive_disposition
Received(snap, position, peer, context) ==
    LET result == Receive(group.receiver, context, peer)
    IN  [snap EXCEPT !.provider = @ \union {position}, !.receiver = result.receiver,
                     !.inbox = RecordReceive(@, context, result.disposition, result.event)]

\* commit_item and route: the snapshot an item asks for, and whether a roster took
\* effect.
Routed(snap, position) ==
    LET item == mail[position]
        attached == attachment # "none"
        consumed == [snap EXCEPT !.provider = @ \union {position}]
        plain(next) == [snapshot |-> next, accepted |-> FALSE]
    IN  CASE item.kind = "application" /\ attached /\ group.view # NoView ->
                 plain(Received(snap, position, item.peer, item.context))
          [] item.kind = "roster" /\ attached /\ ValidRoster(item.roster) ->
                 IF group.view # NoView
                 THEN Applied(consumed, item.peer, item.roster, NoRevision)
                 ELSE plain(HoldWithoutView(snap, position, item.peer, item.roster))
          [] OTHER -> plain(Refused(snap, position))

\* What the coordinator's live group state becomes with a committed candidate.
Adopted(candidate) ==
    IF group.view = NoView THEN [group EXCEPT !.queue = candidate.queue]
    ELSE [view |-> IF candidate.view = NoView THEN group.view ELSE candidate.view,
          receiver |-> IF candidate.receiver = NoReceiver THEN group.receiver
                       ELSE candidate.receiver,
          queue |-> candidate.queue]

\* stage: an item is opened, its disposition committed.  A ciphertext the provider
\* has consumed already is refused by it, which changes nothing.  A commit that is
\* not known to have happened ends the staging.
Stage(outcome) ==
    LET position == call.next
        routed == Routed(snapshot, position)
        fresh == {r \in ToSet(routed.snapshot.inbox) :
                     r.event >= group.receiver.next_event_id /\ r.context # Scrubbed}
    IN  /\ call.pc = "stage" /\ call.next <= call.to
        /\ IF position \in provider
           THEN /\ outcome = "committed"
                /\ call' = [call EXCEPT !.next = @ + 1]
                /\ UNCHANGED <<durable, snapshot, provider, group, frozen, issued>>
           ELSE /\ provider' = provider \union {position}
                /\ Commit(routed.snapshot, outcome)
                /\ frozen' = (outcome # "committed")
                /\ IF outcome = "committed"
                   THEN /\ group' = Adopted(routed.snapshot)
                        /\ call' = IF routed.accepted
                                   THEN [call EXCEPT !.pc = "drain", !.events = fresh]
                                   ELSE [call EXCEPT !.next = @ + 1,
                                                     !.inbound = @ \union fresh]
                   ELSE group' = group /\ call' = [call EXCEPT !.pc = "finish"]
        /\ UNCHANGED <<relay, attachment, handed_over, handed, reported>>

\* stage, when the client cannot open the item or export the state it left.
StageFails ==
    /\ call.pc = "stage" /\ call.next <= call.to
    /\ call.next \notin provider
    /\ provider' = provider \union {call.next}
    /\ frozen' = TRUE
    /\ call' = [call EXCEPT !.pc = "finish", !.failed = TRUE]
    /\ UNCHANGED <<relay, durable, snapshot, group, attachment, handed_over, history>>

-----------------------------------------------------------------------------
\* Applying what waits

\* drain_deferred_rosters: commit_next_deferred_roster until nothing applies, then
\* commit_prune_deferred_rosters.
DrainOne(outcome) ==
    \E held \in NextFor(group.queue, group.view) :
        LET applied == Applied(snapshot, group.view.authority, held, held.revision)
            fresh == {r \in ToSet(applied.snapshot.inbox) :
                         r.event >= group.receiver.next_event_id /\ r.context # Scrubbed}
        IN  /\ Commit(applied.snapshot, outcome)
            /\ IF outcome = "committed"
               THEN /\ group' = Adopted(applied.snapshot)
                    /\ call' = [call EXCEPT !.events = @ \union fresh]
                    /\ UNCHANGED frozen
               ELSE /\ group' = group
                    /\ frozen' = TRUE
                    /\ call' = IF call.caller = "receive" THEN [call EXCEPT !.pc = "finish"]
                               ELSE Idle

\* The end of the drain, for each of its callers: the events of a staged roster
\* join the others, `attach` leaves them to the next call, `recover` lifts the
\* freeze.
Drained ==
    CASE call.caller = "receive" ->
             [call EXCEPT !.pc = "stage", !.next = @ + 1,
                          !.inbound = @ \union call.events, !.events = {}]
      [] OTHER -> Idle

DrainEnds(outcome) ==
    LET pruned == [snapshot EXCEPT !.queue = PruneThrough(group.queue, group.view.revision)]
    IN  /\ group.view = NoView \/ NextFor(group.queue, group.view) = {}
        /\ IF group.view # NoView /\ pruned.queue # group.queue
           THEN /\ Commit(pruned, outcome)
                /\ group' = IF outcome = "committed" THEN [group EXCEPT !.queue = pruned.queue]
                            ELSE group
           ELSE outcome = "committed" /\ UNCHANGED <<durable, snapshot, group, issued>>
        /\ IF outcome = "committed"
           THEN call' = Drained /\ frozen' = (frozen /\ call.caller # "recover")
           ELSE /\ frozen' = TRUE
                /\ call' = IF call.caller = "receive" THEN [call EXCEPT !.pc = "finish"]
                           ELSE Idle

Drain(outcome) ==
    /\ call.pc = "drain"
    /\ DrainOne(outcome) \/ DrainEnds(outcome)
    /\ UNCHANGED <<relay, provider, attachment, handed_over, handed, reported>>

-----------------------------------------------------------------------------
\* The end of a call

Processed == call.next - call.from - 1

\* Mutant of HandedOver: whatever the call committed counts as handed over, the
\* events of a roster whose drain failed included.
HandedOverIssued == Max({handed_over, group.receiver.next_event_id})

\* receive, its last lines: what the caller now has, or was told is lost.
HandedOver ==
    Max({handed_over} \union {r.event + 1 : r \in call.redelivered \union call.inbound}
        \union (IF call.lost > 0 THEN {call.issued} ELSE {}))

\* acknowledge_fetched and the return.  The relay may drop the prefix without its
\* answer arriving, or not be reached: the call then fails and hands nothing over.
FinishReceive(answer) ==
    /\ \/ call.pc = "stage" /\ call.next > call.to
       \/ call.pc = "finish"
    /\ Processed = 0 => answer = "answered"
    /\ acked' = IF answer = "unreached" THEN acked ELSE Max({acked, call.from + Processed})
    /\ IF answer = "answered" /\ ~(call.failed /\ Processed = 0)
       THEN /\ handed_over' = HandedOver
            /\ handed' = handed \union call.redelivered \union call.inbound
            /\ reported' = reported \union
                  (IF call.lost > 0
                   THEN (snapshot.cursor .. call.issued - 1) \ {r.event : r \in call.redelivered}
                   ELSE {})
       ELSE UNCHANGED <<handed_over, handed, reported>>
    /\ call' = Idle
    /\ UNCHANGED <<mail, durable, snapshot, provider, group, attachment, frozen, issued>>

-----------------------------------------------------------------------------
\* Crashes and recovery

\* The process ends, at any point of a call, and the coordinator is opened again.
Crash ==
    /\ snapshot' = durable /\ provider' = durable.provider
    /\ group' = NoGroup /\ attachment' = "none" /\ frozen' = FALSE
    /\ call' = Idle /\ handed_over' = 0
    /\ UNCHANGED <<relay, durable, history>>

\* GroupClient::recover: the durable snapshot and its provider state are
\* adopted and the group rebuilt; its drain ends the freeze.
Recover ==
    /\ call = Idle /\ frozen
    /\ snapshot' = durable /\ provider' = durable.provider
    /\ IF attachment = "none"
       THEN group' = NoGroup /\ frozen' = FALSE /\ call' = Idle
       ELSE /\ group' = Rebuilt(durable, attachment)
            /\ call' = [pc |-> "drain", caller |-> "recover", events |-> {}]
            /\ UNCHANGED frozen
    /\ UNCHANGED <<relay, durable, attachment, handed_over, history>>

Next ==
    \/ \E item \in Items : Arrive(item)
    \/ \E how \in {"await", "join"} : Attach(how)
    \/ \E outcome \in Outcomes :
          \/ BeginReceive(outcome) \/ AcknowledgeDelivery(outcome)
          \/ Stage(outcome) \/ Drain(outcome)
    \/ FetchFails \/ StageFails
    \/ \E answer \in {"answered", "unanswered", "unreached"} : FinishReceive(answer)
    \/ Crash \/ Recover

Spec == Init /\ [][Next]_vars

-----------------------------------------------------------------------------
\* Properties

\* The receiver and the inbox have their shapes and stay within their bounds.
TypeOK ==
    /\ mail \in Seq(Items) /\ acked \in 0 .. Len(mail)
    /\ durable.provider \subseteq 1 .. Len(mail) /\ provider \subseteq 1 .. Len(mail)
    /\ Len(durable.inbox) <= MAX_INBOX_RECORDS /\ durable.cursor \in Nat
    /\ attachment \in {"none", "await", "join"} /\ frozen \in BOOLEAN
    /\ handed_over \in Nat /\ reported \subseteq Nat

\* Not a property of this code, whose duplicate window saturates at u64::MAX
\* (accept_current): a message of one sender, revision and sequence becomes one event.
OneEventEach == \A a, b \in issued : SameKey(a.context, b.context) => a = b

\* The highest sequence there is was accepted from the sender of c, in its revision.
AtTheTop(c) ==
    \E r \in issued : /\ r.context.sender = c.sender /\ r.context.revision = c.revision
                      /\ r.context.sequence = MAX_SEQUENCE

\* An event id names one message for ever, and a message of one sender, revision
\* and sequence becomes one event, whatever is retried, redelivered by the relay,
\* received again under a new roster or lost between a commit and its answer; the
\* caller is handed no other (accept_current's window, install_accepted_roster).
\* Accepting the highest sequence of all ends the second for that sender and revision:
\* the window saturates there, every entry of the sender leaves it with that one, and
\* what the sender repeats afterwards is new again.
OneEventPerMessage ==
    /\ \A a, b \in issued :
         /\ a.event = b.event => a = b
         /\ SameKey(a.context, b.context) => a = b \/ AtTheTop(a.context)
    /\ handed \subseteq issued

\* Whatever is stored can be read back when the coordinator is opened, and the
\* stored receiver follows the stored view (recover_group_receiver,
\* recover_group_roster_view, recover_group_deferred_rosters).
StoredStateRecovers ==
    /\ durable.receiver # NoReceiver => Decodes(durable.receiver)
    /\ durable.view # NoView =>
           /\ DecodesView(Authority, durable.view)
           /\ durable.receiver.roster = durable.view
    /\ DecodesQueue(durable.queue, Group, Authority)

\* The relay is told to drop an item only when its disposition is durable, in a
\* store that can be opened, and no event is passed by the delivery cursor unless
\* the caller was handed it or was told that it is lost (acknowledge_fetched,
\* acknowledge_delivery; 0131, 0144, 0148).
NothingPassedSilently ==
    /\ 1 .. acked \subseteq durable.provider
    /\ StoredStateRecovers
    /\ \A event \in 0 .. durable.cursor - 1 :
         event \in reported \/ \E r \in handed : r.event = event

\* The loss a call reports is exactly the number of events it can no longer offer
\* (receive's lost_events).
LossIsExact ==
    (call.pc \in {"stage", "drain", "finish"} /\ call.caller = "receive") =>
        call.lost = Cardinality(
            {e \in snapshot.cursor .. call.issued - 1 :
                \A r \in call.redelivered : r.event # e})

\* Between calls of a live coordinator no held control is the successor of the
\* view, or one it has passed (drain_deferred_rosters, 0142).
NothingApplicableWaits ==
    (call = Idle /\ ~frozen /\ group.view # NoView) =>
        /\ NextFor(group.queue, group.view) = {}
        /\ \A i \in DOMAIN group.queue : group.queue[i].revision > group.view.revision
=============================================================================
