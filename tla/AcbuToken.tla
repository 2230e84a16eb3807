----------------------------- MODULE AcbuToken ------------------------------
(***************************************************************************)
(* The ACBU token (a Stellar Asset Contract, not part of the repository),  *)
(* as the contracts use it: get_total_supply(), mint and burn.  Balances   *)
(* are abstracted to the supply they add up to: transfers between holders  *)
(* concern no contract, and one holder can own any part of the supply.     *)
(***************************************************************************)
EXTENDS Naturals

VARIABLE supply    \* get_total_supply() of the token

TokenTypeOK == supply \in Nat

\* The contracts are deployed against a token that has issued nothing.
TokenInit == supply = 0

\* The token refuses a negative amount; a fee of zero is not minted at all.
TokenMint(amount, fee) ==
    /\ amount \in Nat /\ fee \in Nat
    /\ supply' = supply + amount + fee

\* Some holder owns the amount and authorised the burn.
TokenBurn(amount) ==
    /\ amount \in Nat \ {0} /\ amount <= supply
    /\ supply' = supply - amount
=============================================================================
