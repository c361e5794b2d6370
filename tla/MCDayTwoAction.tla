---------------------------- MODULE MCDayTwoAction ----------------------------
(***************************************************************************)
(* Finite instances of DayTwoButtons, and so of DayTwoAction: one request  *)
(* through a UI action, one through GlideAjax.                             *)
(***************************************************************************)
EXTENDS DayTwoButtons

CONSTANTS q1, q2

\* The six buttons are two kinds, which differ in name only.
StartAndResize ==
    [r \in Requests |-> IF r = q1 THEN hc_vm_instance_start ELSE hc_vm_instance_resize]

=============================================================================
