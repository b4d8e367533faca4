---------------------------- MODULE InvitationBook ----------------------------
(***************************************************************************)
(* The invitation lifecycle (crates/tacenta-group, invitation.rs), as      *)
(* operators on a set of invitations.                                      *)
(*                                                                         *)
(* An invitation is a record of its id, group, target, source_revision,    *)
(* source_digest, expires_at and status; `admitted_at` is the revision of  *)
(* an admission.  An operation the code refuses has a May... predicate; an *)
(* error leaves the stored book alone, an expiry it noticed included.      *)
(***************************************************************************)
EXTENDS GroupRoster

CONSTANT MAX_INVITATION_RECORDS

ASSUME BookAssumption == MAX_INVITATION_RECORDS \in Nat

Statuses == {"pending", "accepted_pending_admission", "admitted", "revoked", "expired"}
NotAdmitted == -1

\* Invitation::new
NewInvitation(id, group, target, revision, digest, expires_at) ==
    [id |-> id, group |-> group, target |-> target, source_revision |-> revision,
     source_digest |-> digest, expires_at |-> expires_at, status |-> "pending",
     admitted_at |-> NotAdmitted]

InvitationOf(book, id) == CHOOSE i \in book : i.id = id
HasInvitation(book, id) == \E i \in book : i.id = id
SetInvitation(book, invitation) ==
    {i \in book : i.id # invitation.id} \union {invitation}

\* Invitation::same_immutable_fields
SameInvitation(i, j) ==
    /\ i.id = j.id /\ i.group = j.group /\ i.target = j.target
    /\ i.source_revision = j.source_revision /\ i.source_digest = j.source_digest
    /\ i.expires_at = j.expires_at

\* Invitation::expire_if_due
ExpireIfDue(i, now) ==
    IF now >= i.expires_at /\ i.status \in {"pending", "accepted_pending_admission"}
    THEN [i EXCEPT !.status = "expired"] ELSE i

\* InvitationBook::create: an exact retry changes nothing, whatever became of the
\* first.
MayCreate(book, peer, authority, members, i, now) ==
    /\ peer = authority
    /\ now < i.expires_at
    /\ \A m \in members : m[1] # i.target[1]
    /\ IF HasInvitation(book, i.id) THEN SameInvitation(InvitationOf(book, i.id), i)
       ELSE Cardinality(members) < MAX_GROUP_MEMBERS /\ Cardinality(book) < MAX_INVITATION_RECORDS

Create(book, i) == IF HasInvitation(book, i.id) THEN book ELSE book \union {i}

\* InvitationBook::accept
MayAcceptInvitation(book, id, target, revision, digest, now) ==
    /\ HasInvitation(book, id)
    /\ LET i == InvitationOf(book, id)
       IN  /\ target = i.target
           /\ i.source_revision = revision /\ i.source_digest = digest
           /\ ExpireIfDue(i, now).status \in
                  {"pending", "accepted_pending_admission", "admitted"}

AcceptInvitation(book, id) ==
    LET i == InvitationOf(book, id)
    IN  IF i.status = "pending"
        THEN SetInvitation(book, [i EXCEPT !.status = "accepted_pending_admission"])
        ELSE book

\* InvitationBook::revoke
MayRevoke(book, id, peer, authority, now) ==
    /\ peer = authority
    /\ HasInvitation(book, id)
    /\ ExpireIfDue(InvitationOf(book, id), now).status \in
           {"pending", "accepted_pending_admission", "revoked"}

Revoke(book, id) == SetInvitation(book, [InvitationOf(book, id) EXCEPT !.status = "revoked"])

\* Mutant of MayAdmit: the answer of the target is not awaited.
MayAdmitPending(book, id, peer, authority, revision, now) ==
    /\ peer = authority
    /\ HasInvitation(book, id)
    /\ LET i == ExpireIfDue(InvitationOf(book, id), now)
       IN  i.status \in {"pending", "accepted_pending_admission"} /\ revision > i.source_revision

\* InvitationBook::admit
MayAdmit(book, id, peer, authority, revision, now) ==
    /\ peer = authority
    /\ HasInvitation(book, id)
    /\ LET i == ExpireIfDue(InvitationOf(book, id), now)
       IN  \/ i.status = "accepted_pending_admission" /\ revision > i.source_revision
           \/ i.status = "admitted" /\ i.admitted_at = revision

Admit(book, id, revision) ==
    SetInvitation(book, [InvitationOf(book, id) EXCEPT !.status = "admitted",
                                                       !.admitted_at = revision])

\* InvitationBook::encode_state and decode_state
DecodesBook(book, group) ==
    /\ Cardinality(book) <= MAX_INVITATION_RECORDS
    /\ \A i \in book :
           /\ i.group = group
           /\ i.status \in Statuses
           /\ \A j \in book : i.id = j.id => i = j
=============================================================================
