------------------------------ MODULE Timelock ------------------------------
(***************************************************************************)
(* What the two-step changes of the contracts promise, whatever is changed *)
(* by them (an admin, a code hash): a value takes effect only after it has *)
(* stood announced, and not been withdrawn or announced anew, for a delay  *)
(* in which the present admin can still cancel it.                         *)
(***************************************************************************)
EXTENDS Naturals

CONSTANTS
    Values,    \* what may be announced
    InitValue, \* what is in effect at first
    Delay      \* how long an announcement has to stand

VARIABLES
    clock,      \* ledger time
    current,    \* the value in effect
    announced   \* at most one [to, since]

timelockVars == <<clock, current, announced>>

TimelockInit ==
    /\ clock \in Nat
    /\ current = InitValue
    /\ announced = {}

Announce(value) ==
    /\ announced' = {[to |-> value, since |-> clock]}
    /\ UNCHANGED <<clock, current>>

Withdraw ==
    /\ announced' = {}
    /\ UNCHANGED <<clock, current>>

TakeEffect ==
    \E change \in announced :
        /\ clock >= change.since + Delay
        /\ current' = change.to
        /\ announced' = {}
        /\ UNCHANGED clock

TimePasses ==
    /\ clock' > clock
    /\ UNCHANGED <<current, announced>>

TimelockNext ==
    \/ \E value \in Values : Announce(value)
    \/ Withdraw
    \/ TakeEffect
    \/ TimePasses

TimelockSpec == TimelockInit /\ [][TimelockNext]_timelockVars
=============================================================================
