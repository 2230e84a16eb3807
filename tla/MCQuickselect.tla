--------------------------- MODULE MCQuickselect ----------------------------
(***************************************************************************)
(* Every vector of up to five elements over numbers of both signs: odd and *)
(* even lengths, repetitions, sorted and reversed orders.                  *)
(***************************************************************************)
EXTENDS Quickselect

MCNumbers == {-3, 0, 2, 4}
=============================================================================
