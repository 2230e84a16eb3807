---------------------------- MODULE SupplyLedger ----------------------------
(***************************************************************************)
(* What the ACBU system promises about circulation, and nothing of how:    *)
(* ACBU is issued only up to a cap an administrator sets, never while      *)
(* issuance is frozen, and can otherwise only be destroyed.                *)
(***************************************************************************)
EXTENDS Integers

VARIABLES
    circulating,    \* ACBU in circulation
    cap,            \* the ceiling issuance respects
    frozen          \* issuance is switched off

ledgerVars == <<circulating, cap, frozen>>

Init ==
    /\ circulating = 0
    /\ cap \in Int
    /\ frozen = FALSE

Issue ==
    /\ ~frozen
    /\ circulating' \in Nat
    /\ circulating' > circulating
    /\ circulating' <= cap
    /\ UNCHANGED <<cap, frozen>>

Destroy ==
    /\ circulating' \in Nat
    /\ circulating' < circulating
    /\ UNCHANGED <<cap, frozen>>

\* The administrator may even put the cap below what circulates.
SetCap ==
    /\ cap' \in Int
    /\ UNCHANGED <<circulating, frozen>>

Freeze ==
    /\ frozen' \in BOOLEAN
    /\ UNCHANGED <<circulating, cap>>

Next == Issue \/ Destroy \/ SetCap \/ Freeze

Spec == Init /\ [][Next]_ledgerVars
=============================================================================
