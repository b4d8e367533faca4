------------------------------ MODULE MCRelay ------------------------------
(***************************************************************************)
(* A relay with two users, one of them with two devices, and budgets tight *)
(* enough that each of the four of them is the one that binds somewhere.   *)
(***************************************************************************)
EXTENDS Relay

CONSTANTS alice, bob, small, big, huge, MaxAccepted

a1 == [user |-> alice, device |-> 1]
a2 == [user |-> alice, device |-> 2]
b1 == [user |-> bob, device |-> 1]

MCUsers == {alice, bob}
MCDevices == {a1, a2, b1}
MCSenders == {b1}
MCBodies == {small, big, huge}
MCPayloadLen == [b \in MCBodies |-> CASE b = small -> 0 [] b = big -> 2 [] b = huge -> 4]
MCHandleLen == [u \in MCUsers |-> IF u = alice THEN 1 ELSE 2]
MCCeilings == {8, 10}

Empty == [base |-> 0, inner_cursor |-> 0, resident |-> <<>>]
Whole(msgs, n) == [base |-> 0, inner_cursor |-> n, resident |-> msgs]
FromBob(b) == [from |-> b1, body |-> b]

\* A first start, and an upgrade from a log of two messages, one acknowledged.
MCBootFiles ==
    {[d \in MCDevices |-> Empty],
     [d \in MCDevices |-> IF d = a1 THEN Whole(<<FromBob(small), FromBob(big)>>, 1) ELSE Empty]}

\* Bound: messages ever accepted.
Bounded == MapThenSumSet(LAMBDA d : Len(accepted[d]), Devices) <= MaxAccepted
=============================================================================
