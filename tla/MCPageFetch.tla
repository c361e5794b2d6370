----------------------------- MODULE MCPageFetch -----------------------------
(***************************************************************************)
(* Finite instances of PageFetch: up to N resources at N places of the     *)
(* list order.                                                             *)
(***************************************************************************)
EXTENDS PageFetch

CONSTANT N

MCItems == 1..N

=============================================================================
