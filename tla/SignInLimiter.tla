---------------------------- MODULE SignInLimiter ----------------------------
(***************************************************************************)
(* The sliding window of failed sign-ins of the in-memory account store    *)
(* (tacenta-accounts, ratelimit.rs).  `failures` maps a key, a tenant with *)
(* a normalised identifier, to the times of its recent failures; a key     *)
(* without failures is not in its domain.                                  *)
(***************************************************************************)
EXTENDS Naturals, Sequences, FiniteSets, FiniteSetsExt

CONSTANTS MAX_FAILURES,          \* failures that block a key
          WINDOW_SECS,           \* how long a failure counts
          MAX_KEYS,              \* the most keys the limiter holds
          TENANT_FLOOD_CEILING   \* failures of a tenant that skip the check

ASSUME LimiterBounds ==
    /\ {MAX_FAILURES, MAX_KEYS, TENANT_FLOOD_CEILING} \subseteq Nat \ {0}
    /\ WINDOW_SECS \in Nat

NoFailures == [k \in {} |-> <<>>]

\* A failure counts as long as it is no more than the window ago.
WithinWindow(at, now) == at + WINDOW_SECS >= now

Recent(times, now) == SelectSeq(times, LAMBDA at : WithinWindow(at, now))

RecentFailures(failures, key, now) ==
    IF key \in DOMAIN failures THEN Len(Recent(failures[key], now)) ELSE 0

\* Mutant of IsBlocked: the count may reach the limit and one more.
BlocksLate(failures, key, now) == RecentFailures(failures, key, now) > MAX_FAILURES

IsBlocked(failures, key, now) == RecentFailures(failures, key, now) >= MAX_FAILURES

\* The failures of all keys of one tenant.
TenantIsFlooded(failures, tenant, now) ==
    MapThenSumSet(LAMBDA key : RecentFailures(failures, key, now),
                  {key \in DOMAIN failures : key.tenant = tenant})
        >= TENANT_FLOOD_CEILING

Kept(failures, keys) == [k \in keys |-> failures[k]]

\* The keys the cap evicts: those whose newest failure is oldest, of two at one time the
\* first in the order of the keys.  A failure adds at most one key, so at most one is
\* over the cap.
OverCap(failures) ==
    LET Newest(k) == Max({failures[k][i] : i \in DOMAIN failures[k]})
    IN  IF Cardinality(DOMAIN failures) <= MAX_KEYS
          THEN {}
          ELSE {CHOOSE k \in DOMAIN failures :
                   \A l \in DOMAIN failures : Newest(k) <= Newest(l)}

\* What can no longer block goes first, then what is over the cap.
Shed(failures, now) ==
    LET live == Kept(failures, {k \in DOMAIN failures : Recent(failures[k], now) # <<>>})
    IN  Kept(live, DOMAIN live \ OverCap(live))

RecordFailure(failures, key, now) ==
    LET old == IF key \in DOMAIN failures THEN Recent(failures[key], now) ELSE <<>>
    IN  Shed([k \in DOMAIN failures \cup {key} |->
                IF k = key THEN Append(old, now) ELSE failures[k]],
             now)

RecordSuccess(failures, key) == Kept(failures, DOMAIN failures \ {key})
=============================================================================
