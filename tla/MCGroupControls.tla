---------------------------- MODULE MCGroupControls ----------------------------
(***************************************************************************)
(* An instance of GroupControls: A is the authority, B the device it may   *)
(* invite, admit and remove.                                               *)
(***************************************************************************)
EXTENDS GroupControls

A == <<"a", 1>>
B == <<"b", 1>>
G == "group"

MCSites == {A, B}
MCTargets == {B}
MCMemberSets == {{A}, {A, B}}
MCEncryptions == [s \in MCSites |-> IF s = A THEN 2 ELSE 1]

\* A coordinator reads the others only through its mail, between operations.  So
\* it is enough to let one operation end before another coordinator starts one.
OneOperationAtATime ==
    \A s \in Sites : step'[s] # step[s] => \A t \in Sites \ {s} : Resting(t)

\* The order of the records decides only which of those that are no checkpoints is
\* dropped first, and they are alike.
ControlsView ==
    <<[s \in Sites |-> <<{controls[s][i] : i \in DOMAIN controls[s]}, Len(controls[s])>>],
      joined, offers, step, mail, encrypted, now, history>>
=============================================================================
