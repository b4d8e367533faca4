---------------------------- MODULE DeliveryLog ----------------------------
(***************************************************************************)
(* What the relay promises each device, whatever it keeps in memory: the   *)
(* messages accepted for the device form a log that only grows at its end, *)
(* and a cursor that only advances over messages already in the log.  The  *)
(* device is shown the log past its cursor.  A copy of both is staged and  *)
(* then published; a restart puts both back to what was last published,    *)
(* together, and forgets a copy that was only staged.                      *)
(***************************************************************************)
EXTENDS Integers, Sequences

CONSTANTS Devices, Messages

VARIABLES
    log,      \* log[d]: every message accepted for d
    cursor,   \* cursor[d]: how many of them d has acknowledged
    staged,   \* the log and cursor of the last snapshot taken
    saved     \* the log and cursor of the last snapshot written out

vars == <<log, cursor, staged, saved>>

Copy == [log |-> log, cursor |-> cursor]

Init ==
    /\ log \in [Devices -> Seq(Messages)]
    /\ cursor \in [Devices -> Nat]
    /\ \A d \in Devices : cursor[d] <= Len(log[d])
    /\ staged = Copy
    /\ saved = Copy

Accept(d, m) ==
    /\ log' = [log EXCEPT ![d] = Append(@, m)]
    /\ UNCHANGED <<cursor, staged, saved>>

Acknowledge(d, n) ==
    /\ cursor[d] < n
    /\ cursor' = [cursor EXCEPT ![d] = n]
    /\ UNCHANGED <<log, staged, saved>>

Stage ==
    /\ staged' = Copy
    /\ UNCHANGED <<log, cursor, saved>>

Publish ==
    /\ saved' = staged
    /\ UNCHANGED <<log, cursor, staged>>

Restart ==
    /\ log' = saved.log
    /\ cursor' = saved.cursor
    /\ staged' = saved
    /\ UNCHANGED saved

Next ==
    \/ \E d \in Devices, m \in Messages : Accept(d, m)
    \/ \E d \in Devices : \E n \in 1..Len(log[d]) : Acknowledge(d, n)
    \/ Stage
    \/ Publish
    \/ Restart

Spec == Init /\ [][Next]_vars
=============================================================================
