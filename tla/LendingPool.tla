---------------------------- MODULE LendingPool -----------------------------
(***************************************************************************)
(* The lending pool: lenders deposit ACBU, agree to single unsecured loans *)
(* out of their own balance, and take repaid interest as balance; overdue  *)
(* loans are written off.  The pool keeps each lender's books and two      *)
(* totals next to what the token contract says it holds, which anybody can *)
(* raise by a plain transfer.                                              *)
(***************************************************************************)
EXTENDS Integers, FiniteSets, Functions

CONSTANTS
    Lenders, Borrowers, LoanIds,
    Amounts,            \* amounts somebody may deposit, withdraw, borrow, repay
    BasisPoints,        \* BASIS_POINTS
    SecondsPerYear,     \* SECONDS_PER_YEAR
    LoanTerm,           \* LOAN_TERM_SECONDS
    MinPoolBalance,     \* MIN_POOL_BALANCE
    InitRate,           \* fee_rate_bps of initialize
    RateArgs,           \* arguments of set_interest_rate
    Donations,          \* amounts somebody may transfer to the pool's address
    TokenSupply,        \* bound: ACBU that lenders and borrowers can bring in
    MaxDonated,         \* bound: ACBU transferred to the address
    MaxNow              \* bound: no second passes beyond it

ASSUME PoolAssumption ==
    /\ IsFiniteSet(Lenders)
    /\ Amounts \subseteq Int
    /\ BasisPoints \in Nat \ {0} /\ SecondsPerYear \in Nat \ {0}
    /\ LoanTerm \in Nat /\ MinPoolBalance \in Nat
    /\ InitRate \in 0 .. BasisPoints
    /\ RateArgs \subseteq Int
    /\ Donations \subseteq Nat \ {0}
    /\ TokenSupply \in Nat /\ MaxDonated \in Nat /\ MaxNow \in Nat

VARIABLES
    now,               \* env.ledger().timestamp()
    paused,            \* the phase is Paused
    rate,              \* FeeRate, annual, in basis points
    balance,           \* Balance(lender): deposits and interest less withdrawals
    borrowed,          \* Borrowed(lender): principal lent out
    loans,             \* Loan(k) of k = <<borrower, id>>, or NoLoan
    activeLiquidity,   \* ActiveLoansLiquidity
    totalBalance,      \* TotalLenderBalance
    held,              \* the token balance of the pool
    writtenOff,        \* history: principal written off by liquidate
    donated            \* history: ACBU transferred without a call of the pool

bookVars == <<balance, borrowed, activeLiquidity, totalBalance>>
vars == <<now, paused, rate, bookVars, loans, held, writtenOff, donated>>

Keys == Borrowers \X LoanIds
Loan == [status : {"Active", "Repaid", "Defaulted"}, lender : Lenders, amount : Nat,
         rate : Nat, start : Nat, deadline : Nat, interest : Nat]

\* total_repayment_due, wherever the code computes it.
Owed(loan) == loan.amount + loan.interest

NoLoan == [status |-> "none"]

PoolTypeOK ==
    /\ now \in Nat
    /\ paused \in BOOLEAN
    /\ rate \in 0 .. BasisPoints
    /\ balance \in [Lenders -> Int] /\ borrowed \in [Lenders -> Int]
    /\ loans \in [Keys -> Loan \cup {NoLoan}]
    /\ activeLiquidity \in Int /\ totalBalance \in Int
    /\ held \in Nat /\ writtenOff \in Nat /\ donated \in Nat

Init ==
    /\ now = 1
    /\ paused = FALSE
    /\ rate = InitRate
    /\ balance = [l \in Lenders |-> 0] /\ borrowed = [l \in Lenders |-> 0]
    /\ loans = [k \in Keys |-> NoLoan]
    /\ activeLiquidity = 0 /\ totalBalance = 0
    /\ held = 0 /\ writtenOff = 0 /\ donated = 0

Available(l) == balance[l] - borrowed[l]

AccruedFee(principal, bps, elapsed) ==
    (principal * bps * elapsed) \div (BasisPoints * SecondsPerYear)

\* get_loan: an active loan as of now, any other as it is stored.
LoanNow(loan) ==
    IF loan.status # "Active" THEN loan
    ELSE [loan EXCEPT !.interest = @ + AccruedFee(loan.amount, loan.rate, now - loan.start)]

-----------------------------------------------------------------------------
(* Entry points. *)

Deposit(l, amount) ==
    /\ ~paused
    /\ amount > 0
    /\ totalBalance + amount <= TokenSupply
    /\ balance' = [balance EXCEPT ![l] = @ + amount]
    /\ totalBalance' = totalBalance + amount
    /\ held' = held + amount
    /\ UNCHANGED <<now, paused, rate, borrowed, loans, activeLiquidity, writtenOff, donated>>

\* Mutant: the total does not follow, as before AC-035.
WithdrawKeepingTotal(l, amount) ==
    /\ ~paused
    /\ amount > 0 /\ amount <= Available(l)
    /\ balance[l] - amount = 0 \/ balance[l] - amount >= MinPoolBalance
    /\ amount <= held
    /\ balance' = [balance EXCEPT ![l] = @ - amount]
    /\ held' = held - amount
    /\ UNCHANGED <<now, paused, rate, borrowed, loans, activeLiquidity, totalBalance, writtenOff, donated>>

\* All of the balance, or no less than the minimum stays.
Withdraw(l, amount) ==
    /\ ~paused
    /\ amount > 0 /\ amount <= Available(l)
    /\ balance[l] - amount = 0 \/ balance[l] - amount >= MinPoolBalance
    /\ amount <= held
    /\ balance' = [balance EXCEPT ![l] = @ - amount]
    /\ totalBalance' = totalBalance - amount
    /\ held' = held - amount
    /\ UNCHANGED <<now, paused, rate, borrowed, loans, activeLiquidity, writtenOff, donated>>

\* Mutant: the whole balance can be lent, also what is lent out already.
MayLendGross(l, amount) == amount > 0 /\ amount <= balance[l] /\ amount <= held

MayLend(l, amount) == amount > 0 /\ amount <= Available(l) /\ amount <= held

\* The borrower of k and the lender both sign.
Borrow(k, l, amount) ==
    /\ ~paused
    /\ MayLend(l, amount)
    /\ loans[k] = NoLoan
    /\ borrowed' = [borrowed EXCEPT ![l] = @ + amount]
    /\ activeLiquidity' = activeLiquidity + amount
    /\ held' = held - amount
    /\ loans' = [loans EXCEPT ![k] =
         [status |-> "Active", lender |-> l, amount |-> amount, rate |-> rate,
          start |-> now, deadline |-> now + LoanTerm, interest |-> 0]]
    /\ UNCHANGED <<now, paused, rate, balance, totalBalance, writtenOff, donated>>

\* Interest is paid before principal.
PrincipalPart(loan, amount) ==
    IF amount > loan.interest THEN amount - loan.interest ELSE 0

\* Mutant: a repayment clears all interest.
RepaidForgivingInterest(loan, amount) ==
    LET principal == loan.amount - PrincipalPart(loan, amount)
    IN  [loan EXCEPT !.amount = principal, !.interest = 0, !.start = now,
                     !.status = IF principal = 0 THEN "Repaid" ELSE @]

\* The loan after a repayment; the clock of its interest starts anew.
Repaid(loan, amount) ==
    LET principal == loan.amount - PrincipalPart(loan, amount)
        interest == IF principal # 0 /\ amount < loan.interest
                    THEN loan.interest - amount ELSE 0
    IN  [loan EXCEPT !.amount = principal, !.interest = interest, !.start = now,
                     !.status = IF principal = 0 THEN "Repaid" ELSE @]

\* A loan written off can be repaid still; checked_sub stops at no zero.
Repay(k, amount) ==
    /\ ~paused
    /\ amount > 0
    /\ loans[k] # NoLoan /\ loans[k].status # "Repaid"
    /\ LET loan == LoanNow(loans[k])
           principal == PrincipalPart(loan, amount)
           l == loan.lender
       IN  /\ amount <= Owed(loan)
           /\ borrowed' = [borrowed EXCEPT ![l] = @ - principal]
           /\ activeLiquidity' = activeLiquidity - principal
           /\ balance' = [balance EXCEPT ![l] = @ + (amount - principal)]
           /\ totalBalance' = totalBalance + (amount - principal)
           /\ held' = held + amount
           /\ loans' = [loans EXCEPT ![k] = Repaid(loan, amount)]
    /\ UNCHANGED <<now, paused, rate, writtenOff, donated>>

\* Mutant: what is written off stays in the lender's balance.
LiquidateKeepingBalance(l, k) ==
    /\ ~paused
    /\ loans[k] # NoLoan
    /\ loans[k].lender = l /\ loans[k].status = "Active"
    /\ now > loans[k].deadline
    /\ LET principal == loans[k].amount
       IN  /\ activeLiquidity' = activeLiquidity - principal
           /\ borrowed' = [borrowed EXCEPT ![l] = @ - principal]
           /\ writtenOff' = writtenOff + principal
    /\ loans' = [loans EXCEPT ![k].status = "Defaulted"]
    /\ UNCHANGED <<now, paused, rate, balance, totalBalance, held, donated>>

\* The lender writes off an overdue loan; the total of balances stays.
Liquidate(l, k) ==
    /\ ~paused
    /\ loans[k] # NoLoan
    /\ loans[k].lender = l /\ loans[k].status = "Active"
    /\ now > loans[k].deadline
    /\ LET principal == loans[k].amount
       IN  /\ activeLiquidity' = activeLiquidity - principal
           /\ balance' = [balance EXCEPT ![l] = @ - principal]
           /\ borrowed' = [borrowed EXCEPT ![l] = @ - principal]
           /\ writtenOff' = writtenOff + principal
    /\ loans' = [loans EXCEPT ![k].status = "Defaulted"]
    /\ UNCHANGED <<now, paused, rate, totalBalance, held, donated>>

SetPaused(value) ==
    /\ paused' = value
    /\ UNCHANGED <<now, rate, bookVars, loans, held, writtenOff, donated>>

\* Mutant: the range of the rate is not checked.
SetInterestRateUnchecked(newRate) ==
    /\ rate' = newRate
    /\ UNCHANGED <<now, paused, bookVars, loans, held, writtenOff, donated>>

\* Loans keep the rate they were made at.
SetInterestRate(newRate) ==
    /\ newRate \in 0 .. BasisPoints
    /\ rate' = newRate
    /\ UNCHANGED <<now, paused, bookVars, loans, held, writtenOff, donated>>

\* External: ACBU sent to the pool's address by a transfer of the token,
\* which no call of the pool sees.
Donate(amount) ==
    /\ donated + amount <= MaxDonated
    /\ held' = held + amount
    /\ donated' = donated + amount
    /\ UNCHANGED <<now, paused, rate, bookVars, loans, writtenOff>>

TimePasses ==
    /\ now < MaxNow
    /\ now' = now + 1
    /\ UNCHANGED <<paused, rate, bookVars, loans, held, writtenOff, donated>>

AccountStep ==
    \E l \in Lenders, amount \in Amounts : Deposit(l, amount) \/ Withdraw(l, amount)

LoanStep ==
    \E k \in Keys :
        \/ \E l \in Lenders, amount \in Amounts : Borrow(k, l, amount)
        \/ \E amount \in Amounts : Repay(k, amount)
        \/ \E l \in Lenders : Liquidate(l, k)

AdminStep ==
    \/ \E value \in BOOLEAN : SetPaused(value)
    \/ \E newRate \in RateArgs : SetInterestRate(newRate)

DonationStep == \E amount \in Donations : Donate(amount)

Next == AccountStep \/ LoanStep \/ AdminStep \/ DonationStep \/ TimePasses

Spec == Init /\ [][Next]_vars

-----------------------------------------------------------------------------
(* Properties. *)

\* AC-041: the pool holds sum(Balance) - sum(Borrowed) and what was sent to
\* it unasked, through interest, write-offs and the repayment of what was
\* written off: no lender's claim is uncovered, and no call hands out or
\* books as somebody's what was sent.
HoldingsMatch == SumFunction(balance) - SumFunction(borrowed) + donated = held

\* No sequence of loans, write-offs and withdrawals lends a lender's balance
\* twice.
NeverOverlent == \A l \in Lenders : Available(l) >= 0

\* The totals drift from the holdings by what liquidate wrote off, one way,
\* and by what was sent directly to the pool, the other way.
DriftAccountedFor == totalBalance - activeLiquidity + donated = held + writtenOff

Due(k) == Owed(LoanNow(loans[k]))

\* repay: whatever interest has accrued, and also after a write-off, every
\* unit paid takes one unit off what the borrower owes.
RepaymentApplied ==
    [][\A k \in Keys :
         loans[k] # NoLoan /\ loans'[k] # loans[k] /\ held' > held
         => Due(k)' = Due(k) - (held' - held)]_vars

\* DataKey::TotalLenderBalance: "Together with `ActiveLoansLiquidity` this
\* makes the pool invariant `TotalLenderBalance - ActiveLoansLiquidity ==
\* SAC balance` checkable."
TotalsMatchHoldings == totalBalance - activeLiquidity = held
=============================================================================
