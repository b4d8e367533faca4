--------------------------- MODULE DeviceInventory ---------------------------
(***************************************************************************)
(* The rules of an account's device inventory (tacenta-accounts,           *)
(* inventory.rs): pure functions from the current inventory and a request  *)
(* to the next inventory or to a refusal.  Both stores of accounts use     *)
(* them.                                                                   *)
(*                                                                         *)
(* The lists of the code are sorted and hold nothing twice, so they are    *)
(* sets here.  A binding is its device id, its identity key and the        *)
(* commitment it names as its predecessor; its capabilities are left out.  *)
(***************************************************************************)
EXTENDS Naturals, FiniteSets

CONSTANTS
    MAX_ACTIVE_BINDINGS,     \* how many devices a statement lists
    MAX_RECENT_REVOCATIONS,  \* how many revocations it remembers
    MAX_GENERATION,          \* stands for u64::MAX
    ValidKeys                \* the identity keys the core admits

ASSUME InventoryBounds ==
    /\ MAX_ACTIVE_BINDINGS \in Nat
    /\ MAX_RECENT_REVOCATIONS \in Nat
    /\ MAX_GENERATION \in Nat

NoPredecessor == "no predecessor"

\* binding_commitment: a digest of the whole binding, injective.
Commitment(binding) == <<"commitment", binding>>

\* DeviceInventory::default.
EmptyInventory == [generation |-> 0, active |-> {}, floor |-> 0, revoked |-> {}]

LinkRequest(predecessor, binding) ==
    [type |-> "link", predecessor |-> predecessor, binding |-> binding]
RevokeRequest(predecessor, retired) ==
    [type |-> "revoke", predecessor |-> predecessor, retired |-> retired]
ReplaceRequest(predecessor, retired, replacement) ==
    [type |-> "replace", predecessor |-> predecessor, retired |-> retired,
     replacement |-> replacement]

\* What is recorded under an idempotency key: nothing yet, or a completed request
\* with its result.
NoRecord == [request |-> [type |-> "none"], result |-> EmptyInventory]
Record(request, result) == [request |-> request, result |-> result]

\* validate_inventory: the bounds and the form the core demands of a statement.
Valid(inventory) ==
    /\ inventory.generation <= MAX_GENERATION
    /\ Cardinality(inventory.active) <= MAX_ACTIVE_BINDINGS
    /\ Cardinality(inventory.revoked) <= MAX_RECENT_REVOCATIONS
    /\ \A b, c \in inventory.active : b.device = c.device => b = c
    /\ \A r \in inventory.revoked :
          inventory.floor < r.terminal /\ r.terminal <= inventory.generation

-----------------------------------------------------------------------------
\* binding_is_new: "none", or why the binding may not join this inventory.
NewBindingRefusal(inventory, binding) ==
    IF binding \in inventory.active
      THEN "DuplicateBinding"
    ELSE IF \E b \in inventory.active : b.device = binding.device
      THEN "DeviceIdInUse"
    ELSE IF \E b \in inventory.active : b.key = binding.key
      THEN "IdentityKeyInUse"
    ELSE IF \E r \in inventory.revoked : r.binding = binding
      THEN "BindingRevoked"
    ELSE IF \E r \in inventory.revoked : r.binding.device = binding.device
      THEN "DeviceIdRetired"
    ELSE IF \E r \in inventory.revoked : r.binding.key = binding.key
      THEN "IdentityKeyInUse"
    ELSE "none"

\* link_inventory.
LinkedInventory(current, binding) ==
    [generation |-> current.generation + 1,
     active     |-> current.active \cup {binding},
     floor      |-> current.floor,
     revoked    |-> current.revoked]

LinkRefusal(current, request) ==
    IF request.binding.key \notin ValidKeys
      THEN "IdentityKey"
    ELSE IF request.binding.predecessor # NoPredecessor
      THEN "UnexpectedReplacementPredecessor"
    ELSE IF current.generation # request.predecessor
      THEN "PredecessorMismatch"
    ELSE IF NewBindingRefusal(current, request.binding) # "none"
      THEN NewBindingRefusal(current, request.binding)
    ELSE IF current.generation = MAX_GENERATION
      THEN "GenerationExhausted"
    ELSE IF ~Valid(LinkedInventory(current, request.binding))
      THEN "Invalid"
    ELSE "none"

\* Mutant of CompactRevocations: the oldest revocation is dropped and the floor
\* stays where it was.
KeepsFloor(inventory) ==
    IF Cardinality(inventory.revoked) <= MAX_RECENT_REVOCATIONS
      THEN inventory
      ELSE LET oldest == CHOOSE r \in inventory.revoked :
                           \A q \in inventory.revoked : r.terminal <= q.terminal
           IN  [inventory EXCEPT !.revoked = @ \ {oldest}]

\* compact_revocations.  A revocation adds one entry, so the loop runs at most
\* once: the oldest entry goes, and the floor rises to its generation.
CompactRevocations(inventory) ==
    IF Cardinality(inventory.revoked) <= MAX_RECENT_REVOCATIONS
      THEN inventory
      ELSE LET oldest == CHOOSE r \in inventory.revoked :
                           \A q \in inventory.revoked : r.terminal <= q.terminal
           IN  [generation |-> inventory.generation,
                active     |-> inventory.active,
                floor      |-> IF inventory.floor > oldest.terminal
                                 THEN inventory.floor ELSE oldest.terminal,
                revoked    |-> inventory.revoked \ {oldest}]

\* revoke_inventory.
RevokedInventory(current, retired) ==
    CompactRevocations(
        [generation |-> current.generation + 1,
         active     |-> current.active \ {retired},
         floor      |-> current.floor,
         revoked    |-> current.revoked \cup
                          {[binding |-> retired, terminal |-> current.generation + 1]}])

RevokeRefusal(current, request) ==
    IF request.retired.key \notin ValidKeys
      THEN "IdentityKey"
    ELSE IF current.generation # request.predecessor
      THEN "PredecessorMismatch"
    ELSE IF request.retired \notin current.active
      THEN "BindingNotActive"
    ELSE IF current.generation = MAX_GENERATION
      THEN "GenerationExhausted"
    ELSE IF ~Valid(RevokedInventory(current, request.retired))
      THEN "Invalid"
    ELSE "none"

\* replace_inventory: the revocation, then the new binding in the same generation.
ReplacedInventory(current, retired, replacement) ==
    LET revoked == RevokedInventory(current, retired)
    IN  [generation |-> revoked.generation,
         active     |-> revoked.active \cup {replacement},
         floor      |-> revoked.floor,
         revoked    |-> revoked.revoked]

ReplaceRefusal(current, request) ==
    IF {request.retired.key, request.replacement.key} \subseteq ValidKeys
      THEN IF request.replacement.predecessor # Commitment(request.retired)
             THEN "ReplacementPredecessorMismatch"
           ELSE IF RevokeRefusal(current, request) # "none"
             THEN RevokeRefusal(current, request)
           ELSE IF NewBindingRefusal(RevokedInventory(current, request.retired),
                                     request.replacement) # "none"
             THEN NewBindingRefusal(RevokedInventory(current, request.retired),
                                    request.replacement)
           ELSE IF ~Valid(ReplacedInventory(current, request.retired, request.replacement))
             THEN "Invalid"
           ELSE "none"
      ELSE "IdentityKey"

-----------------------------------------------------------------------------
\* The transition of a request: why it is refused, and what it makes of the
\* inventory when it is not.
Refusal(current, request) ==
    CASE request.type = "link"    -> LinkRefusal(current, request)
      [] request.type = "revoke"  -> RevokeRefusal(current, request)
      [] request.type = "replace" -> ReplaceRefusal(current, request)

Transition(current, request) ==
    CASE request.type = "link"    -> LinkedInventory(current, request.binding)
      [] request.type = "revoke"  -> RevokedInventory(current, request.retired)
      [] request.type = "replace" ->
            ReplacedInventory(current, request.retired, request.replacement)
=============================================================================
