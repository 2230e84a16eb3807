--------------------------- MODULE MCSavingsVault ---------------------------
(***************************************************************************)
(* Values for model checking SavingsVault: years of two seconds, yields of *)
(* half or all of the principal a year, a fee of half the deposit or none. *)
(***************************************************************************)
EXTENDS SavingsVault

CONSTANTS u1, u2

MCUsers == {u1, u2}
=============================================================================
