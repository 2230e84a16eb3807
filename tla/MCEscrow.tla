------------------------------ MODULE MCEscrow ------------------------------
(***************************************************************************)
(* Values for model checking Escrow: an admin and a user, who both lock    *)
(* amounts for each other and take turns as admin.  Two seconds stand for  *)
(* the five of a nominal ledger.                                           *)
(***************************************************************************)
EXTENDS Escrow

\* In the code the lifetime of an entry is exactly that of the escrow.
ASSUME TtlIsTerm == MaxEscrowLifetime = NominalGap * EntryTtl
=============================================================================
