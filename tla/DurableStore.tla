---------------------------- MODULE DurableStore ----------------------------
(***************************************************************************)
(* The store handle a group coordinator holds, DurableStore of             *)
(* crates/tacenta-client/src/operation_store.rs: a latch, the highest      *)
(* generation attempted, the generation last observed and the highest one  *)
(* known committed.  Handles are records; the operators are its methods.   *)
(***************************************************************************)
EXTENDS Integers

\* Option<u64>::None.  Rust orders None below every Some.
None == -1

CONSTANT MAX_GENERATION   \* u64::MAX, where `checked_add` stops

ASSUME GenerationAssumption == MAX_GENERATION \in Nat

Larger(a, b) == IF a >= b THEN a ELSE b

\* DurableStore::new
NewStore == [frozen |-> FALSE, high_water |-> 0, observed |-> None, committed |-> None]

\* Mutant of NextGeneration: counts on from the snapshot in memory alone.
NextAfterCurrent(s, current) == current + 1

\* DurableStore::next_generation
NextGeneration(s, current) == Larger(current, s.high_water) + 1

\* DurableStore::adopt of a snapshot of generation g, or of an empty store.
Adopt(s, g) ==
    [frozen |-> FALSE,
     high_water |-> Larger(s.high_water, g),
     observed |-> g,
     committed |-> Larger(s.committed, g)]

\* recover_not_behind refuses: the store holds less than the handle has seen.
IsBehind(s, g) == g # None /\ g < s.committed

Latched(s) ==
    [frozen |-> TRUE, high_water |-> s.high_water,
     observed |-> s.observed, committed |-> s.committed]

\* DurableStore::commit of a candidate of generation g, by the outcome the
\* inner store reports: only `Committed` leaves the handle unlatched.
AfterCommit(s, g, isCommitted) ==
    LET attempted == [frozen |-> s.frozen, high_water |-> Larger(s.high_water, g),
                      observed |-> s.observed, committed |-> s.committed]
    IN  IF isCommitted
        THEN [frozen |-> s.frozen, high_water |-> attempted.high_water,
              observed |-> g, committed |-> Larger(s.committed, g)]
        ELSE Latched(attempted)
=============================================================================
