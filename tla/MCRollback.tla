----------------------------- MODULE MCRollback -----------------------------
(***************************************************************************)
(* The two ways a client's pairwise state is put back from a copy: an      *)
(* operation store replaced by an older one under a group coordinator, and *)
(* a sealed file restored by a client of its own.  A behaviour is one of   *)
(* the two; the other component stays in its initial state.                *)
(***************************************************************************)
EXTENDS MCCoordinator

CONSTANTS MaxCounter, MaxChains, MaxAdvance, MaxFiles

VARIABLES
    kind,   \* which of the two this behaviour is about
    client, prepared, counter, files, anchor, chains, carried

sealed == <<client, prepared, counter, files, anchor, chains, carried>>

Sealed == INSTANCE SealedClient

AllInit ==
    /\ kind \in {"store", "sealed"}
    /\ Init
    /\ Sealed!SealedInit

CoordinatorRuns == kind = "store" /\ Next /\ UNCHANGED <<kind, sealed>>
StoreCopied     == kind = "store" /\ TakeBackup /\ UNCHANGED <<kind, sealed>>
StorePutBack    == kind = "store" /\ RestoreBackup /\ UNCHANGED <<kind, sealed>>
SealedRuns      == kind = "sealed" /\ Sealed!SealedNext /\ UNCHANGED <<kind, vars>>

AllNext == CoordinatorRuns \/ StoreCopied \/ StorePutBack \/ SealedRuns

AllSpec == AllInit /\ [][AllNext]_<<kind, vars, sealed>>

\* No two different ciphertexts are given to the relay at one ratchet position
\* when older state is put back: an older operation store under a running
\* coordinator (GroupClient::recover and the fence of commit; decisions 0143
\* and 0147), or any sealed file ever exported (connect_with_state_sealed and
\* commit_ratchet_advance; decision 0078).
RollbackNeverReuses == RatchetNeverReused /\ Sealed!SealedNeverReused
=============================================================================
