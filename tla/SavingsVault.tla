---------------------------- MODULE SavingsVault -----------------------------
(***************************************************************************)
(* The savings vault: users lock ACBU for a term, lot by lot, and take     *)
(* matured lots back, oldest first, with yield.  Principal is returned in  *)
(* full; yield comes only out of a reserve somebody funded, and what the   *)
(* reserve cannot pay is recorded as owed (AC-007).                        *)
(***************************************************************************)
EXTENDS Sums, FiniteSets, Sequences

CONSTANTS
    Users,
    Terms,              \* term_seconds somebody may deposit for
    Amounts,            \* amounts somebody may deposit, withdraw, fund
    BasisPoints,        \* BASIS_POINTS
    SecondsPerYear,     \* SECONDS_PER_YEAR
    InitFeeRate, InitYieldRate,
    RateArgs,           \* arguments of set_fee_rate and set_yield_rate
    TokenSupply,        \* bound: ACBU in the vault at one time
    MaxLots,            \* bound: lots of a user for a term
    MaxNow              \* bound: no second passes beyond it

ASSUME VaultAssumption ==
    /\ IsFiniteSet(Users)
    /\ IsFiniteSet(Terms) /\ Terms \subseteq Nat /\ Amounts \subseteq Int
    /\ BasisPoints \in Nat \ {0} /\ SecondsPerYear \in Nat \ {0}
    /\ InitFeeRate \in 0 .. BasisPoints /\ InitYieldRate \in 0 .. BasisPoints
    /\ RateArgs \subseteq Int
    /\ TokenSupply \in Nat /\ MaxLots \in Nat /\ MaxNow \in Nat

VARIABLES
    now,               \* env.ledger().timestamp()
    paused,            \* the phase is Paused
    feeRate, yieldRate,
    lots,              \* lots of k = <<user, term>>, in the order of deposit
    totalPrincipal,
    yieldReserve,
    owed,              \* (OWED, user): yield accrued and not paid yet
    totalOwed,         \* total_owed_yield
    held,              \* the token balance of the vault
    donated            \* history: ACBU sent to the vault by plain transfer

rateVars == <<paused, feeRate, yieldRate>>
yieldVars == <<yieldReserve, owed, totalOwed>>
vars == <<now, rateVars, lots, totalPrincipal, yieldVars, held, donated>>

Buckets == Users \X Terms
DepositLot == [amount : Nat \ {0}, timestamp : Nat]

VaultTypeOK ==
    /\ now \in Nat
    /\ paused \in BOOLEAN
    /\ feeRate \in 0 .. BasisPoints /\ yieldRate \in 0 .. BasisPoints
    /\ DOMAIN lots = Buckets
    /\ \A k \in Buckets : lots[k] \in Seq(DepositLot)
    /\ totalPrincipal \in Nat /\ yieldReserve \in Nat
    /\ owed \in [Users -> Nat] /\ totalOwed \in Nat
    /\ held \in Nat /\ donated \in Nat

Init ==
    /\ now = 1
    /\ paused = FALSE
    /\ feeRate = InitFeeRate /\ yieldRate = InitYieldRate
    /\ lots = [k \in Buckets |-> <<>>]
    /\ totalPrincipal = 0
    /\ yieldReserve = 0
    /\ owed = [u \in Users |-> 0] /\ totalOwed = 0
    /\ held = 0 /\ donated = 0

AmountsOf(list) == [n \in DOMAIN list |-> list[n].amount]

SumLots(list) == SumOver(AmountsOf(list), DOMAIN list)

Unlocked(lot, term) == now >= lot.timestamp + term

UnlockedAt(k) == {n \in DOMAIN lots[k] : Unlocked(lots[k][n], k[2])}

UnlockedBalance(k) == SumOver(AmountsOf(lots[k]), UnlockedAt(k))

\* Mutant: a fraction of a unit counts as one.
CalculateYieldRoundedUp(principal, elapsed) ==
    (principal * yieldRate * elapsed + BasisPoints * SecondsPerYear - 1)
        \div (BasisPoints * SecondsPerYear)

CalculateYield(principal, elapsed) ==
    (principal * yieldRate * elapsed) \div (BasisPoints * SecondsPerYear)

YieldsOf(list) ==
    [n \in DOMAIN list |-> CalculateYield(list[n].amount, now - list[n].timestamp)]

\* get_pending_yield, 0 where it finds no lot.
PendingYield(k) == SumOver(YieldsOf(lots[k]), UnlockedAt(k))

-----------------------------------------------------------------------------
(* Entry points. *)

\* What is credited to a deposit; the fee goes on to the admin.
Credited(amount) == amount - (amount * feeRate) \div BasisPoints

Deposit(k, amount) ==
    /\ ~paused
    /\ amount > 0 /\ k[2] > 0
    /\ Credited(amount) > 0
    /\ held + amount <= TokenSupply /\ Len(lots[k]) < MaxLots
    /\ held' = held + amount - (amount * feeRate) \div BasisPoints
    /\ lots' = [lots EXCEPT ![k] =
                    Append(@, [amount |-> Credited(amount), timestamp |-> now])]
    /\ totalPrincipal' = totalPrincipal + Credited(amount)
    /\ UNCHANGED <<now, rateVars, yieldVars, donated>>

\* Take what is left of a withdrawal out of the next lot, if that is unlocked.
ConsumeLot(acc, lot, term) ==
    LET part == IF Unlocked(lot, term)
                THEN IF acc.left < lot.amount THEN acc.left ELSE lot.amount
                ELSE 0
    IN  [left |-> acc.left - part,
         yield |-> acc.yield + CalculateYield(part, now - lot.timestamp),
         kept |-> IF part = lot.amount THEN acc.kept
                  ELSE Append(acc.kept, [lot EXCEPT !.amount = @ - part])]

\* The withdrawal after each of the first n lots.
Consuming(k, amount) ==
    LET after[n \in 0 .. Len(lots[k])] ==
            IF n = 0 THEN [left |-> amount, yield |-> 0, kept |-> <<>>]
            ELSE ConsumeLot(after[n - 1], lots[k][n], k[2])
    IN  after

Consumed(k, amount) == Consuming(k, amount)[Len(lots[k])]

\* Mutant: yield is paid in full, out of whatever the vault holds.
PayInFull(amount) == amount

PayFromReserve(amount) == IF amount < yieldReserve THEN amount ELSE yieldReserve

\* No check of withdraw fails, the transfer out of the vault's balance included.
Withdrawable(k, amount) ==
    /\ ~paused
    /\ amount > 0 /\ amount <= UnlockedBalance(k)
    /\ LET result == Consumed(k, amount)
       IN  /\ result.left = 0
           /\ amount + PayFromReserve(result.yield) <= held

Withdraw(k, amount) ==
    /\ Withdrawable(k, amount)
    /\ LET result == Consumed(k, amount)
           paid == PayFromReserve(result.yield)
           short == result.yield - paid
       IN  /\ lots' = [lots EXCEPT ![k] = result.kept]
           /\ yieldReserve' = yieldReserve - paid
           /\ owed' = [owed EXCEPT ![k[1]] = @ + short]
           /\ totalOwed' = totalOwed + short
           /\ held' = held - (amount + paid)
    /\ totalPrincipal' = IF amount < totalPrincipal THEN totalPrincipal - amount ELSE 0
    /\ UNCHANGED <<now, rateVars, donated>>

FundYieldReserve(amount) ==
    /\ amount > 0
    /\ held + amount <= TokenSupply
    /\ held' = held + amount
    /\ yieldReserve' = yieldReserve + amount
    /\ UNCHANGED <<now, rateVars, lots, totalPrincipal, owed, totalOwed, donated>>

\* Mutant: the admin takes as much as the vault holds.
WithdrawYieldReserveUnchecked(amount) ==
    /\ amount > 0 /\ amount <= held
    /\ yieldReserve' = yieldReserve - amount
    /\ held' = held - amount
    /\ UNCHANGED <<now, rateVars, lots, totalPrincipal, owed, totalOwed, donated>>

\* The admin takes back what nobody is owed.
WithdrawYieldReserve(amount) ==
    /\ amount > 0 /\ amount <= yieldReserve - totalOwed
    /\ amount <= held
    /\ yieldReserve' = yieldReserve - amount
    /\ held' = held - amount
    /\ UNCHANGED <<now, rateVars, lots, totalPrincipal, owed, totalOwed, donated>>

\* Mutant: what the reserve cannot pay now is forgotten.
ClaimYieldForgettingRest(u) ==
    LET paid == PayFromReserve(owed[u])
    IN  /\ ~paused
        /\ paid > 0 /\ paid <= held
        /\ owed' = [owed EXCEPT ![u] = 0]
        /\ totalOwed' = IF paid < totalOwed THEN totalOwed - paid ELSE 0
        /\ yieldReserve' = yieldReserve - paid
        /\ held' = held - paid
        /\ UNCHANGED <<now, rateVars, lots, totalPrincipal, donated>>

\* What the reserve covers of what u is owed; the rest stays owed.
ClaimYield(u) ==
    LET paid == PayFromReserve(owed[u])
    IN  /\ ~paused
        /\ paid > 0 /\ paid <= held
        /\ owed' = [owed EXCEPT ![u] = @ - paid]
        /\ totalOwed' = IF paid < totalOwed THEN totalOwed - paid ELSE 0
        /\ yieldReserve' = yieldReserve - paid
        /\ held' = held - paid
        /\ UNCHANGED <<now, rateVars, lots, totalPrincipal, donated>>

SetPaused(value) ==
    /\ paused' = value
    /\ UNCHANGED <<now, feeRate, yieldRate, lots, totalPrincipal, yieldVars, held, donated>>

SetFeeRate(newRate) ==
    /\ newRate \in 0 .. BasisPoints
    /\ feeRate' = newRate
    /\ UNCHANGED <<now, paused, yieldRate, lots, totalPrincipal, yieldVars, held, donated>>

\* Also for the time that lots have been locked already.
SetYieldRate(newRate) ==
    /\ newRate \in 0 .. BasisPoints
    /\ yieldRate' = newRate
    /\ UNCHANGED <<now, paused, feeRate, lots, totalPrincipal, yieldVars, held, donated>>

\* Anybody can send the vault ACBU without calling it.
Donate(amount) ==
    /\ amount > 0
    /\ held + amount <= TokenSupply
    /\ held' = held + amount
    /\ donated' = donated + amount
    /\ UNCHANGED <<now, rateVars, lots, totalPrincipal, yieldVars>>

TimePasses ==
    /\ now < MaxNow
    /\ now' = now + 1
    /\ UNCHANGED <<rateVars, lots, totalPrincipal, yieldVars, held, donated>>

UserStep ==
    \/ \E k \in Buckets, amount \in Amounts : Deposit(k, amount) \/ Withdraw(k, amount)
    \/ \E u \in Users : ClaimYield(u)

ReserveStep ==
    \E amount \in Amounts :
        FundYieldReserve(amount) \/ WithdrawYieldReserve(amount) \/ Donate(amount)

AdminStep ==
    \/ \E value \in BOOLEAN : SetPaused(value)
    \/ \E newRate \in RateArgs : SetFeeRate(newRate) \/ SetYieldRate(newRate)

Next == UserStep \/ ReserveStep \/ AdminStep \/ TimePasses

Spec == Init /\ [][Next]_vars

-----------------------------------------------------------------------------
(* Properties. *)

\* AC-007, total_principal and total_owed_yield: over withdrawals that take
\* lots whole or in part and payments in part, the totals are what the lots
\* and the owed yields of all depositors add up to, and every token in the
\* vault is principal, yield reserve or a plain transfer: no yield is ever
\* paid out of principal or of tokens nobody funded as yield.
BooksAddUp ==
    /\ totalPrincipal = SumOver([k \in Buckets |-> SumLots(lots[k])], Buckets)
    /\ totalOwed = SumOver(owed, Users)
    /\ held = totalPrincipal + yieldReserve + donated

\* withdraw and get_pending_yield: taking a bucket out piece by piece earns
\* no more than was pending before, and taking out the rest earns all of it.
PendingYieldKept ==
    [][\A k \in Buckets :
         LET accrued == yieldReserve - yieldReserve' + totalOwed' - totalOwed
         IN  UnlockedBalance(k)' < UnlockedBalance(k)
             => /\ accrued + PendingYield(k)' <= PendingYield(k)
                /\ UnlockedBalance(k)' = 0 => accrued = PendingYield(k)]_vars

\* AC-007, "principal is always returned in full": unless the vault is
\* paused, a call that takes out all that is unlocked in a bucket passes
\* every check and is paid, however short the reserve is and whatever others
\* have taken before.
MaturedReturnable ==
    ~paused => \A k \in Buckets :
        UnlockedBalance(k) > 0 => Withdrawable(k, UnlockedBalance(k))
=============================================================================
