----------------------------- MODULE MCInventory -----------------------------
(***************************************************************************)
(* An instance of InventoryStore: two processes with a task each, two      *)
(* idempotency keys and the requests below.                                *)
(***************************************************************************)
EXTENDS InventoryStore, TLC

CONSTANTS s1, s2, t1, t2, k1, k2, k3

MCServerOf == [t \in {t1, t2} |-> IF t = t1 THEN s1 ELSE s2]

Binding(device, key, predecessor) ==
    [device |-> device, key |-> key, predecessor |-> predecessor]

First == Binding(1, "x", NoPredecessor)
Second == Binding(2, "y", NoPredecessor)
Successor == Binding(2, "z", Commitment(First))

\* Two links that compete for generation 0 and one after it, a revocation and a
\* replacement of the first device, and requests the rules turn down.
MCRequests ==
    {LinkRequest(0, First), LinkRequest(0, Second), LinkRequest(1, Second),
     RevokeRequest(1, First), ReplaceRequest(1, First, Successor), RevokeRequest(2, Successor),
     LinkRequest(2, First)}

\* Keys are alike, and the two processes are when their tasks go with them.
Swap == [x \in {s1, s2, t1, t2} |->
           CASE x = s1 -> s2 [] x = s2 -> s1 [] x = t1 -> t2 [] x = t2 -> t1]
Symmetry ==
    Permutations(Keys) \cup
    {[x \in Keys \cup DOMAIN Swap |-> IF x \in Keys THEN p[x] ELSE Swap[x]] :
        p \in Permutations(Keys)}
=============================================================================
