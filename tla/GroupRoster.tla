----------------------------- MODULE GroupRoster -----------------------------
(***************************************************************************)
(* Rosters, one device's accepted view of them (crates/tacenta-group,      *)
(* lib.rs and roster_view.rs), and the controls a coordinator holds until  *)
(* their predecessor arrives (crates/tacenta-client,                       *)
(* group_deferred_rosters.rs), as operators.                               *)
(*                                                                         *)
(* A roster is a record of its group, revision, predecessor, authority,    *)
(* policy_version, closed, members and its own digest: the commitment the  *)
(* core computes over its encoding, so two rosters with one digest are the *)
(* same roster.  A member is a pair of an identity and a device.           *)
(***************************************************************************)
EXTENDS Integers, Sequences, FiniteSets, SequencesExt

CONSTANTS
    MAX_GROUP_MEMBERS,
    MAX_DEFERRED_ROSTERS,    \* controls held at once
    HOLD_AHEAD               \* how far past the next revision one may be

ASSUME RosterAssumption ==
    MAX_GROUP_MEMBERS \in Nat /\ MAX_DEFERRED_ROSTERS \in Nat /\ HOLD_AHEAD \in Nat

POLICY_VERSION_V1 == 1
ZeroDigest == <<>>

\* Roster::validate: the members are an ordered list without repeats in the code,
\* a set here, and name each identity with one device.
ValidRoster(roster) ==
    /\ roster.policy_version = POLICY_VERSION_V1
    /\ roster.revision = 0 =>
           /\ roster.predecessor = ZeroDigest
           /\ ~roster.closed
           /\ roster.members = {roster.authority}
    /\ Cardinality(roster.members) <= MAX_GROUP_MEMBERS
    /\ \A m, n \in roster.members : m[1] = n[1] => m = n

-----------------------------------------------------------------------------
\* RosterView

\* RosterView::accept_genesis
AcceptsGenesis(authority, roster) ==
    /\ authority = roster.authority
    /\ roster.revision = 0
    /\ roster.predecessor = ZeroDigest
    /\ ~roster.closed
    /\ roster.members = {roster.authority}

\* RosterView::accept_source
AcceptsSource(authority, roster) ==
    /\ authority = roster.authority
    /\ IF roster.revision = 0 THEN AcceptsGenesis(authority, roster)
       ELSE ~roster.closed /\ roster.authority \in roster.members

\* RosterView::decode_state, for the authority the caller pinned.
DecodesView(pinned, roster) ==
    /\ roster.authority = pinned
    /\ IF roster.revision = 0 THEN AcceptsGenesis(pinned, roster)
       ELSE pinned \in roster.members

\* The checks of accept_successor that come before the revision is looked at.
SameGroup(view, peer, candidate) ==
    /\ peer = view.authority
    /\ candidate.group = view.group
    /\ candidate.authority = view.authority
    /\ candidate.policy_version = view.policy_version
    /\ candidate.authority \in candidate.members

\* RosterView::accept_successor: the view becomes the candidate when "accepted".
AcceptSuccessor(view, peer, candidate) ==
    IF ~SameGroup(view, peer, candidate) \/ candidate.revision < view.revision THEN "rejected"
    ELSE IF candidate.revision = view.revision
    THEN IF candidate = view THEN "duplicate" ELSE "rejected"
    ELSE IF \/ candidate.revision # view.revision + 1
            \/ candidate.predecessor # view.digest
    THEN "missing_predecessor"
    ELSE IF view.closed /\ ~candidate.closed THEN "rejected"
    ELSE "accepted"

-----------------------------------------------------------------------------
\* DeferredRosters: a sequence of rosters in ascending revision

HeldRevisions(queue) == {queue[i].revision : i \in DOMAIN queue}

\* DeferredRosters::hold: the queue afterwards, and whether it holds the control.
HoldRoster(queue, roster) ==
    LET lower(held) == held.revision < roster.revision
        higher(held) == held.revision > roster.revision
    IN  IF roster.revision \in HeldRevisions(queue)
        THEN [queue |-> queue, held |-> roster \in ToSet(queue)]
        ELSE IF Len(queue) = MAX_DEFERRED_ROSTERS
        THEN [queue |-> queue, held |-> FALSE]
        ELSE [queue |-> SelectSeq(queue, lower) \o <<roster>> \o SelectSeq(queue, higher),
              held |-> TRUE]

\* DeferredRosters::hold_keeping_lowest
HoldKeepingLowest(queue, roster) ==
    IF /\ Len(queue) = MAX_DEFERRED_ROSTERS
       /\ queue # <<>>
       /\ roster.revision \notin HeldRevisions(queue)
       /\ roster.revision < Last(queue).revision
    THEN HoldRoster(Front(queue), roster)
    ELSE HoldRoster(queue, roster)

\* DeferredRosters::prune_through
PruneThrough(queue, revision) ==
    LET later(held) == held.revision > revision IN SelectSeq(queue, later)

\* DeferredRosters::remove
RemoveHeld(queue, revision) ==
    LET other(held) == held.revision # revision IN SelectSeq(queue, other)

\* DeferredRosters::next_for: the held control that is the view's successor, as a
\* set of at most one.
NextFor(queue, view) ==
    {held \in ToSet(queue) :
        held.revision = view.revision + 1 /\ held.predecessor = view.digest}

\* DeferredRosters::decode_record
DecodesQueue(queue, group, pinned) ==
    /\ Len(queue) <= MAX_DEFERRED_ROSTERS
    /\ \A i \in DOMAIN queue :
           /\ queue[i].group = group
           /\ queue[i].authority = pinned
           /\ i > 1 => queue[i - 1].revision < queue[i].revision

\* commit_roster_transition, which controls refused for want of their predecessor
\* are held.
HoldsAhead(view, candidate) ==
    /\ candidate.revision > view.revision + 1
    /\ candidate.revision <= view.revision + 1 + HOLD_AHEAD

NoRevision == -1

\* commit_roster_transition, the queue after a control was judged.  `applying` is
\* the revision being drained from the queue, or NoRevision.
QueueAfter(queue, view, candidate, disposition, applying) ==
    LET judged ==
          CASE disposition = "accepted" -> PruneThrough(queue, candidate.revision)
            [] disposition = "missing_predecessor" /\ HoldsAhead(view, candidate) ->
                   HoldRoster(queue, candidate).queue
            [] OTHER -> queue
    IN  RemoveHeld(judged, applying)
=============================================================================
