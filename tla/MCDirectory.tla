---------------------------- MODULE MCDirectory ----------------------------
(* Small instances of the directory service for TLC. *)
EXTENDS DirectoryService

CONSTANTS c1, c2

(* Two devices of one user, one address the account's and one raw. *)
TwoAddrs == {[user |-> "alice", device |-> 2], [user |-> "alice", device |-> 1]}
AccountAddr == {[user |-> "alice", device |-> 2]}

(* Two installations of the client under one raw address, with requests    *)
(* that outlive their callers, first-contact mail and state generations.   *)
Shared ==
    [addrOf |-> [c \in Clients |-> [user |-> "alice", device |-> 1]],
     late |-> 1, mail |-> 1, generation |-> 1, material |-> 2, drops |-> 0,
     saves |-> 1, restores |-> FALSE]

(* An account's device and a raw one, started again from exported states. *)
EachOwn ==
    [addrOf |-> [c \in Clients |-> [user |-> "alice", device |-> IF c = c1 THEN 2 ELSE 1]],
     late |-> 0, mail |-> 0, generation |-> 0, material |-> 2, drops |-> 0,
     saves |-> 1, restores |-> TRUE]

(* Clients that drop calls and go on using their connections, with keys    *)
(* enough for one to rotate twice.                                         *)
Dropping ==
    [Shared EXCEPT !.late = 0, !.mail = 0, !.generation = 0, !.material = 3, !.drops = 1,
                   !.saves = 0]

Deployments == {Shared, EachOwn, Dropping}

(* One installation that goes back to a state it exported earlier. *)
Restored == {[Shared EXCEPT !.restores = TRUE]}
=============================================================================
