---------------------------- MODULE ControlOutbox ----------------------------
(***************************************************************************)
(* The outbox of exact control ciphertexts (crates/tacenta-client,         *)
(* group_control_outbox.rs), as operators on a set of handoffs.            *)
(*                                                                         *)
(* A handoff is keyed by its recipient and payload.  The canonical order   *)
(* of the stored entries has no part here.  An operation that the code     *)
(* refuses has a May... predicate.                                         *)
(***************************************************************************)
EXTENDS Integers, FiniteSets, FiniteSetsExt

CONSTANTS
    MAX_LIVE_HANDOFFS,
    MAX_TERMINAL_HANDOFFS,
    MAX_CONTROL_ATTEMPTS

ASSUME ControlOutboxAssumption ==
    /\ MAX_LIVE_HANDOFFS \in Nat /\ MAX_TERMINAL_HANDOFFS \in Nat
    /\ MAX_CONTROL_ATTEMPTS \in Nat \ {0}

ControlPayloads == {"roster", "bootstrap", "acceptance", "revocation"}

\* Disposition::is_terminal
TerminalHandoff(h) == h.disposition \notin {"prepared", "handed_off"}

\* Outbox::handoff, as a set of at most one.
HandoffFor(outbox, recipient, payload) ==
    {h \in outbox : h.recipient = recipient /\ h.payload = payload}

\* Outbox::live
LiveHandoffs(outbox) == {h \in outbox : ~TerminalHandoff(h)}

\* Outbox::pending
PendingHandoffs(outbox) == LiveHandoffs(outbox)

\* Mutant of Reclaim: nothing is dropped.
ReclaimsNothing(outbox) == outbox

\* Outbox::reclaim: the oldest terminal handoffs beyond the bound are dropped.
Reclaim(outbox) ==
    LET terminal == {h \in outbox : TerminalHandoff(h)}
        younger(h) == {g \in terminal : g.sequence > h.sequence}
    IN  {h \in outbox : TerminalHandoff(h) => Cardinality(younger(h)) < MAX_TERMINAL_HANDOFFS}

NextHandoffSequence(outbox) == 1 + Max({-1} \union {h.sequence : h \in outbox})

\* Outbox::record_prepared
MayRecordPrepared(outbox, recipient, payload, bytes) ==
    LET known == HandoffFor(outbox, recipient, payload)
    IN  IF known # {} THEN \E h \in known : h.bytes = bytes
        ELSE /\ Cardinality(LiveHandoffs(outbox)) < MAX_LIVE_HANDOFFS
             /\ payload.kind \in ControlPayloads

RecordPrepared(outbox, recipient, payload, bytes) ==
    IF HandoffFor(outbox, recipient, payload) # {} THEN outbox
    ELSE Reclaim(outbox \union
            {[recipient |-> recipient, payload |-> payload, bytes |-> bytes, attempts |-> 0,
              disposition |-> "prepared", sequence |-> NextHandoffSequence(outbox)]})

\* Outbox::reserve, with the handoff it returns: its last attempt is recorded as
\* exhausted before it is sent.
MayReserveHandoff(outbox, recipient, payload) ==
    \E h \in HandoffFor(outbox, recipient, payload) : ~TerminalHandoff(h)

ReservedHandoff(h) ==
    [h EXCEPT !.attempts = @ + 1,
              !.disposition = IF h.attempts + 1 = MAX_CONTROL_ATTEMPTS THEN "exhausted_unknown"
                              ELSE "handed_off"]

Reserve(outbox, recipient, payload) ==
    LET h == CHOOSE g \in HandoffFor(outbox, recipient, payload) : TRUE
    IN  Reclaim((outbox \ {h}) \union {ReservedHandoff(h)})

\* Outbox::cancel_non_revocation_for_recipient
CancelNonRevocation(outbox, recipient) ==
    LET cancelled(h) ==
          CASE h.disposition = "prepared" -> [h EXCEPT !.disposition = "cancelled"]
            [] h.disposition = "handed_off" ->
                   [h EXCEPT !.disposition = "cancelled_after_handoff"]
            [] OTHER -> h
    IN  Reclaim({IF h.recipient = recipient /\ h.payload.kind # "revocation"
                 THEN cancelled(h) ELSE h : h \in outbox})

\* Outbox::accept
MayAcceptHandoff(outbox, recipient, payload) ==
    \E h \in HandoffFor(outbox, recipient, payload) :
        h.disposition \in {"handed_off", "exhausted_unknown"}

AcceptHandoff(outbox, recipient, payload) ==
    LET h == CHOOSE g \in HandoffFor(outbox, recipient, payload) : TRUE
    IN  Reclaim((outbox \ {h}) \union {[h EXCEPT !.disposition = "relay_accepted"]})

\* Outbox::encode_state and decode_state: what a stored outbox must satisfy.
DecodesControlOutbox(outbox) ==
    /\ Cardinality(LiveHandoffs(outbox)) <= MAX_LIVE_HANDOFFS
    /\ Cardinality(outbox \ LiveHandoffs(outbox)) <= MAX_TERMINAL_HANDOFFS
    /\ \A h \in outbox :
           /\ h.attempts <= MAX_CONTROL_ATTEMPTS
           /\ h.disposition \in {"prepared", "cancelled"} => h.attempts = 0
           /\ h.disposition = "handed_off" => h.attempts \in 1 .. MAX_CONTROL_ATTEMPTS - 1
           /\ h.disposition = "exhausted_unknown" => h.attempts = MAX_CONTROL_ATTEMPTS
           /\ h.disposition = "cancelled_after_handoff" => h.attempts # 0
           /\ h.payload.kind \in ControlPayloads
           /\ \A g \in outbox :
                  g.sequence = h.sequence
                  \/ (g.recipient = h.recipient /\ g.payload = h.payload) => g = h
=============================================================================
