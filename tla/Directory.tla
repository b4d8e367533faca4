----------------------------- MODULE Directory -----------------------------
(***************************************************************************)
(* The directory: what every device has published, and the rules by which  *)
(* it changes (tacenta-directory, tacenta-directory-core).                 *)
(*                                                                         *)
(* A directory is a value here and its operations are operators on it, as  *)
(* the methods of Directory are: each takes the directory it is called on  *)
(* and yields the outcome with the directory it leaves.  The server that   *)
(* holds one behind a mutex, and the devices and peers that call it, are   *)
(* the module DirectoryService.                                            *)
(*                                                                         *)
(* Identity keys and recovery keys are opaque: the directory compares them *)
(* and never computes with them.  A bundle is opaque too.                  *)
(***************************************************************************)
EXTENDS Naturals, Sequences, SequencesExt

CONSTANTS
    DeviceAddr,   \* the addresses in use, records [user, device]
    None          \* Option::None

ASSUME DirectoryAssumption ==
    /\ \A d \in DeviceAddr : d.device \in Nat
    /\ None \notin DeviceAddr

Users == {d.user : d \in DeviceAddr}

NewDirectory ==
    [entries     |-> [d \in DeviceAddr |-> None],
     devices     |-> [u \in Users |-> <<>>],
     recovery    |-> [d \in DeviceAddr |-> None],
     generations |-> [d \in DeviceAddr |-> None]]

contains_device(dir, d) == dir.entries[d] # None

identity(dir, d) == IF contains_device(dir, d) THEN dir.entries[d].identity ELSE None

-----------------------------------------------------------------------------
(* The trust core: what a registration or a rotation does to one binding. *)

(* Variant: the last key presented is trusted. *)
TrustsLastUse(current, presented) == IF current = None THEN "Registered" ELSE "Refreshed"

register_core(current, presented) ==
    CASE current = None                          -> "Registered"
      [] current # None /\ current = presented   -> "Refreshed"
      [] current # None /\ current # presented   -> "Rejected"

rotate_core(current) == IF current = None THEN "Unregistered" ELSE "Rotated"

(* A new bundle replaces the whole entry, so its pool starts empty. *)
Entry(key, bundle) == [identity |-> key, bundle |-> bundle, pool |-> <<>>]

(* The index lists a user's devices once each, sorted. *)
Indexed(list, n) ==
    IF \E i \in DOMAIN list : list[i] = n THEN list
    ELSE SortSeq(Append(list, n), LAMBDA a, b : a < b)

(* Variant: the anchor kept inside the entry, and rebuilt with it. *)
RefreshForgetsAnchor(dir, d, key, bundle) ==
    LET outcome == register_core(identity(dir, d), key)
    IN  [outcome |-> outcome,
         dir |-> IF outcome = "Rejected" THEN dir
                 ELSE [dir EXCEPT !.entries[d] = Entry(key, bundle),
                                  !.generations[d] = None,
                                  !.devices[d.user] = Indexed(@, d.device)]]

register(dir, d, key, bundle) ==
    LET outcome == register_core(identity(dir, d), key)
        stored  == [dir EXCEPT !.entries[d] = Entry(key, bundle)]
    IN  [outcome |-> outcome,
         dir |-> CASE outcome = "Rejected"   -> dir
                   [] outcome = "Refreshed"  -> stored
                   [] outcome = "Registered" ->
                        [stored EXCEPT !.devices[d.user] = Indexed(@, d.device)]]

(* Variant: a rotation replaces the bundle and not the key. *)
RotatesBundleOnly(dir, d, key, bundle) ==
    IF rotate_core(identity(dir, d)) = "Rotated"
    THEN [outcome |-> "Rotated", dir |-> [dir EXCEPT !.entries[d].bundle = bundle]]
    ELSE [outcome |-> "Unregistered", dir |-> dir]

rotate(dir, d, key, bundle) ==
    LET outcome == rotate_core(identity(dir, d))
    IN  [outcome |-> outcome,
         dir |-> IF outcome = "Rotated"
                 THEN [dir EXCEPT !.entries[d] = Entry(key, bundle),
                                  !.generations[d] = None]
                 ELSE dir]

set_recovery(dir, d, key) ==
    IF contains_device(dir, d)
    THEN [outcome |-> "RecoverySet", dir |-> [dir EXCEPT !.recovery[d] = key]]
    ELSE [outcome |-> "Unregistered", dir |-> dir]

-----------------------------------------------------------------------------
(* The rollback anchor. *)

witness_core(stored, offered) ==
    IF stored = None \/ (stored # None /\ offered >= stored)
    THEN [verdict |-> "Fresh", highest |-> offered]
    ELSE [verdict |-> "RolledBack", highest |-> stored]

witness(dir, d, generation) ==
    IF contains_device(dir, d)
    THEN LET w == witness_core(dir.generations[d], generation)
         IN  [outcome |-> w.verdict,
              dir |-> [dir EXCEPT !.generations[d] = w.highest]]
    ELSE [outcome |-> "Unregistered", dir |-> dir]

-----------------------------------------------------------------------------
(* The pool of one-time bundles. *)

(* Variant: any key may stock the pool. *)
DepositsUnderAnyKey(dir, d, key, bundles) ==
    IF contains_device(dir, d)
    THEN [outcome |-> "Deposited", dir |-> [dir EXCEPT !.entries[d].pool = @ \o bundles]]
    ELSE [outcome |-> "Unregistered", dir |-> dir]

deposit_prekeys(dir, d, key, bundles) ==
    CASE ~contains_device(dir, d)      -> [outcome |-> "Unregistered", dir |-> dir]
      [] contains_device(dir, d) /\ identity(dir, d) # key ->
            [outcome |-> "Rejected", dir |-> dir]
      [] contains_device(dir, d) /\ identity(dir, d) = key ->
            [outcome |-> "Deposited",
             dir |-> [dir EXCEPT !.entries[d].pool = @ \o bundles]]

(* Variant: the pool is read and not popped. *)
LooksWithoutTaking(dir, d) ==
    IF contains_device(dir, d)
    THEN [outcome |-> "Found", dir |-> dir,
          bundle |-> IF dir.entries[d].pool = <<>> THEN dir.entries[d].bundle
                     ELSE Head(dir.entries[d].pool)]
    ELSE [outcome |-> "NotFound", dir |-> dir]

(* The dispensing lookup: the first pooled bundle, which leaves the pool,  *)
(* or the stored multi-use bundle when the pool is empty.                  *)
lookup(dir, d) ==
    CASE ~contains_device(dir, d) -> [outcome |-> "NotFound", dir |-> dir]
      [] contains_device(dir, d) /\ dir.entries[d].pool # <<>> ->
            [outcome |-> "Found", bundle |-> Head(dir.entries[d].pool),
             dir |-> [dir EXCEPT !.entries[d].pool = Tail(@)]]
      [] contains_device(dir, d) /\ dir.entries[d].pool = <<>> ->
            [outcome |-> "Found", bundle |-> dir.entries[d].bundle, dir |-> dir]

-----------------------------------------------------------------------------
(* Snapshot and restore.  A snapshot lists the entries with their pools,   *)
(* the recovery keys and the generations; it does not carry the index.     *)

snapshot(dir) ==
    [entries |-> dir.entries, recovery |-> dir.recovery, generations |-> dir.generations]

(* Variant: the pool put back before the registration that clears it. *)
DepositsFirst(dir, d, e) ==
    register(deposit_prekeys(dir, d, e.identity, e.pool).dir, d, e.identity, e.bundle).dir

(* One entry of a snapshot, replayed through the ordinary operations. *)
ReplayEntry(dir, d, e) ==
    LET registered == register(dir, d, e.identity, e.bundle).dir
    IN  IF e.pool = <<>> THEN registered
        ELSE deposit_prekeys(registered, d, e.identity, e.pool).dir

ReplayRecovery(dir, d, key) == set_recovery(dir, d, key).dir

restore_generation(dir, d, g) == [dir EXCEPT !.generations[d] = g]

(* The sections are replayed one after the other; within a section the     *)
(* order of the addresses makes no difference, since each touches its own. *)
restore(s) ==
    LET Listed(section) == {d \in DeviceAddr : section[d] # None}
        entries  == FoldLeft(LAMBDA dir, d : ReplayEntry(dir, d, s.entries[d]),
                             NewDirectory, SetToSeq(Listed(s.entries)))
        recovery == FoldLeft(LAMBDA dir, d : ReplayRecovery(dir, d, s.recovery[d]),
                             entries, SetToSeq(Listed(s.recovery)))
    IN  FoldLeft(LAMBDA dir, d : restore_generation(dir, d, s.generations[d]),
                 recovery, SetToSeq(Listed(s.generations)))
=============================================================================
