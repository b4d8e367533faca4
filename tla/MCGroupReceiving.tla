--------------------------- MODULE MCGroupReceiving ---------------------------
(***************************************************************************)
(* Instances of GroupReceiving: A is the authority, B the member whose     *)
(* coordinator is modelled, C a member that joins at revision 2.           *)
(***************************************************************************)
EXTENDS GroupReceiving

A == <<"a", 1>>
B == <<"b", 1>>
C == <<"c", 1>>
G == "group"

MCRoster(revision, predecessor, digest, closed, members) ==
    [group |-> G, revision |-> revision, predecessor |-> predecessor, digest |-> digest,
     authority |-> A, policy_version |-> 1, closed |-> closed, members |-> members]

R0 == MCRoster(0, ZeroDigest, <<"d0">>, FALSE, {A})
R1 == MCRoster(1, <<"d0">>, <<"d1">>, FALSE, {A, B})
R2 == MCRoster(2, <<"d1">>, <<"d2">>, FALSE, {A, B, C})
R3 == MCRoster(3, <<"d2">>, <<"d3">>, FALSE, {A, C})

Control(roster) == [kind |-> "roster", peer |-> A, roster |-> roster]

Message(sender, roster, sequence, payload) ==
    [kind |-> "application", peer |-> sender,
     context |-> [revision |-> roster.revision, digest |-> roster.digest, sender |-> sender,
                  recipient |-> B, sequence |-> sequence, payload |-> payload]]

Junk == [kind |-> "junk"]

MCItems ==
    {Control(R1), Control(R2), Control(R3), Message(A, R1, 0, "x"), Message(A, R1, 1, "x"),
     Message(A, R1, MAX_SEQUENCE, "x"), Message(C, R2, 0, "x"), Junk}

MCFewItems == {Control(R1), Message(A, R1, 0, "x"), Message(A, R1, 1, "x")}
=============================================================================
