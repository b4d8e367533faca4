-------------------------- MODULE InventoryLifecycle --------------------------
(***************************************************************************)
(* The device inventory of one account as the in-memory store keeps it     *)
(* (tacenta-accounts, lib.rs): under one lock, so a call is one step.  It  *)
(* is what a store of inventories promises: a mutation and the record of   *)
(* its idempotency key come together, and a recorded key is never used     *)
(* again.  A call that is refused, or that repeats a recorded one, changes *)
(* nothing.                                                                *)
(***************************************************************************)
EXTENDS DeviceInventory

CONSTANTS Keys,     \* idempotency keys
          Requests  \* the requests a client makes

VARIABLES inventory,  \* device_inventories[account]
          links,      \* inventory_mutations: key -> request and result
          lifecycle   \* inventory_lifecycle_mutations: key -> request and result

lifecycleVars == <<inventory, links, lifecycle>>

LifecycleInit ==
    /\ inventory = EmptyInventory
    /\ links = [k \in Keys |-> NoRecord]
    /\ lifecycle = [k \in Keys |-> NoRecord]

\* The part the two operations share: the key is new in both maps and the rules
\* accept the request.
Applies(key, request) ==
    /\ links[key] = NoRecord
    /\ lifecycle[key] = NoRecord
    /\ Refusal(inventory, request) = "none"
    /\ inventory' = Transition(inventory, request)

\* Accounts::link_device_binding.
LinkDeviceBinding(key, request) ==
    /\ request.type = "link"
    /\ Applies(key, request)
    /\ links' = [links EXCEPT ![key] = Record(request, inventory')]
    /\ UNCHANGED lifecycle

\* Accounts::apply_lifecycle_mutation, for revoke and replace.
ApplyLifecycleMutation(key, request) ==
    /\ request.type \in {"revoke", "replace"}
    /\ Applies(key, request)
    /\ lifecycle' = [lifecycle EXCEPT ![key] = Record(request, inventory')]
    /\ UNCHANGED links

LifecycleNext ==
    \E key \in Keys, request \in Requests :
        \/ LinkDeviceBinding(key, request)
        \/ ApplyLifecycleMutation(key, request)

LifecycleSpec == LifecycleInit /\ [][LifecycleNext]_lifecycleVars
=============================================================================
