--------------------------- MODULE MCLendingPool ----------------------------
(***************************************************************************)
(* Values for model checking LendingPool: interest of a half or the whole  *)
(* of the principal a year, years of two seconds.                          *)
(***************************************************************************)
EXTENDS LendingPool

CONSTANTS l1, l2, b1

MCLenders == {l1, l2}
MCBorrowers == {b1}
=============================================================================
