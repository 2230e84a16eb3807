-------------------------- MODULE LendingPoolProofs --------------------------
(***************************************************************************)
(* Proofs about LendingPool, for any lenders, borrowers and loans, any     *)
(* rate, term and minimum.                                                 *)
(***************************************************************************)
EXTENDS LendingPool, FiniteSums

\* A loan as storage keeps it: interest is counted from the past, and only a
\* repaid loan has no principal left.
LoanOK(loan) ==
    /\ loan \in Loan
    /\ loan.start <= now
    /\ loan.status # "Repaid" => loan.amount > 0

LoansOK == \A k \in Keys : loans[k] = NoLoan \/ LoanOK(loans[k])

IInv == PoolTypeOK /\ LoansOK /\ NeverOverlent /\ DriftAccountedFor /\ HoldingsMatch

-----------------------------------------------------------------------------
(* The operators of a loan. *)

\* Interest is a natural number, and none accrues in no time.
LEMMA FeeIsNat ==
    ASSUME NEW principal \in Nat, NEW bps \in Nat, NEW elapsed \in Nat
    PROVE  /\ AccruedFee(principal, bps, elapsed) \in Nat
           /\ elapsed = 0 => AccruedFee(principal, bps, elapsed) = 0
  <1> DEFINE year == BasisPoints * SecondsPerYear
             product == principal * bps * elapsed
  <1>1. year \in Nat /\ year > 0
    BY PoolAssumption
  <1>2. product \in Nat
    <2>1. principal * bps \in Nat
      OBVIOUS
    <2> QED BY <2>1
  <1>3. elapsed = 0 => product = 0
    <2>1. principal * bps \in Nat
      OBVIOUS
    <2> QED BY <2>1
  <1> HIDE DEF year, product
  <1>4. product \div year \in Nat /\ (product = 0 => product \div year = 0)
    BY <1>1, <1>2
  <1> QED BY <1>3, <1>4 DEF AccruedFee, year, product

\* A loan as of now differs from the stored one in its interest only.
LEMMA LoanNowOK ==
    ASSUME PoolTypeOK, NEW loan, LoanOK(loan)
    PROVE  /\ LoanNow(loan) \in Loan
           /\ LoanNow(loan).amount = loan.amount
           /\ LoanNow(loan).status = loan.status
           /\ LoanNow(loan).lender = loan.lender
           /\ LoanNow(loan).start = loan.start
  <1>1. CASE loan.status # "Active"
    BY <1>1 DEF LoanNow, LoanOK
  <1>2. CASE loan.status = "Active"
    <2>1. loan.amount \in Nat /\ loan.rate \in Nat /\ now - loan.start \in Nat
          /\ loan.interest \in Nat
      BY DEF LoanOK, Loan, PoolTypeOK
    <2> DEFINE fee == AccruedFee(loan.amount, loan.rate, now - loan.start)
    <2>2. fee \in Nat
      BY <2>1, FeeIsNat
    <2>3. LoanNow(loan) = [loan EXCEPT !.interest = @ + fee]
      BY <1>2 DEF LoanNow
    <2> HIDE DEF fee
    <2>4. loan \in Loan
      BY DEF LoanOK
    <2> QED BY <2>1, <2>2, <2>3, <2>4 DEF Loan
  <1> QED BY <1>1, <1>2

\* A repayment within what is owed pays interest first and leaves a loan
\* that owes that much less.
LEMMA RepaidOK ==
    ASSUME PoolTypeOK, NEW loan \in Loan, loan.amount > 0, loan.status # "Repaid",
           NEW amount \in Nat, amount > 0, amount <= Owed(loan)
    PROVE  /\ PrincipalPart(loan, amount) \in 0 .. amount
           /\ PrincipalPart(loan, amount) <= loan.amount
           /\ LoanOK(Repaid(loan, amount))
           /\ Owed(Repaid(loan, amount)) = Owed(loan) - amount
           /\ Repaid(loan, amount).start = now
  <1> DEFINE part == PrincipalPart(loan, amount)
             left == loan.amount - part
             interest == IF left # 0 /\ amount < loan.interest THEN loan.interest - amount ELSE 0
             status == IF left = 0 THEN "Repaid" ELSE loan.status
  <1>1. loan.amount \in Nat /\ loan.interest \in Nat /\ now \in Nat
    BY DEF Loan, PoolTypeOK
  <1>2. part \in 0 .. amount /\ part <= loan.amount
    BY <1>1 DEF PrincipalPart, Owed
  <1>3. left \in Nat /\ interest \in Nat /\ left + interest = Owed(loan) - amount
    BY <1>1 DEF PrincipalPart, Owed
  <1>4. status \in {"Active", "Repaid", "Defaulted"} /\ (status # "Repaid" => left > 0)
    BY <1>3 DEF Loan
  <1>5. Repaid(loan, amount) =
          [loan EXCEPT !.amount = left, !.interest = interest, !.start = now, !.status = status]
    BY DEF Repaid
  <1> HIDE DEF left, interest, status
  <1>6. Repaid(loan, amount) \in Loan
    BY <1>1, <1>3, <1>4, <1>5 DEF Loan
  <1>7. /\ Repaid(loan, amount).amount = left
        /\ Repaid(loan, amount).interest = interest
        /\ Repaid(loan, amount).start = now
        /\ Repaid(loan, amount).status = status
    BY <1>5 DEF Loan
  <1> QED BY <1>1, <1>2, <1>3, <1>4, <1>6, <1>7 DEF LoanOK, Owed

\* No interest has accrued on a loan whose clock has just been restarted.
LEMMA FreshOwes ==
    ASSUME NEW k, NEW r \in Loan, loans'[k] = r, now' \in Nat, r.start = now'
    PROVE  Due(k)' = Owed(r)
  <1>1. r.amount \in Nat /\ r.rate \in Nat /\ r.interest \in Nat
    BY DEF Loan
  <1>2. AccruedFee(r.amount, r.rate, 0) = 0
    <2>1. 0 \in Nat
      OBVIOUS
    <2> QED BY <1>1, <2>1, FeeIsNat
  <1>3. now' - r.start = 0
    <2>1. \A t \in Nat : t - t = 0
      OBVIOUS
    <2>2. now' - now' = 0
      BY <2>1
    <2> QED BY <2>2
  <1>4. CASE r.status # "Active"
    BY <1>4 DEF Due, LoanNow, Owed
  <1>5. CASE r.status = "Active"
    <2>1. Due(k)' = Owed([r EXCEPT !.interest = @ + AccruedFee(r.amount, r.rate, now' - r.start)])
      BY <1>5 DEF Due, LoanNow, Owed, AccruedFee
    <2> QED BY <1>1, <1>2, <1>3, <2>1 DEF Owed, Loan
  <1> QED BY <1>4, <1>5

\* Loans untouched by a step of no shorter time stay as storage keeps them.
LEMMA LoansKept ==
    ASSUME LoansOK, PoolTypeOK, now' \in Nat, now' >= now, loans' = loans
    PROVE  LoansOK'
  BY DEF LoansOK, LoanOK, Loan, PoolTypeOK

-----------------------------------------------------------------------------
(* The books added up over the lenders. *)

\* The books are functions on the lenders, of whom there are finitely many.
LEMMA BooksAsSums ==
    ASSUME PoolTypeOK
    PROVE  /\ HoldingsMatch <=>
                SumOver(balance, Lenders) - SumOver(borrowed, Lenders) + donated = held
           /\ SumOver(balance, Lenders) \in Int /\ SumOver(borrowed, Lenders) \in Int
  <1>1. IsFiniteSet(Lenders)
    BY PoolAssumption
  <1>2. DOMAIN balance = Lenders /\ DOMAIN borrowed = Lenders
    BY DEF PoolTypeOK
  <1>3. SumFunction(balance) = SumOver(balance, Lenders)
        /\ SumFunction(borrowed) = SumOver(borrowed, Lenders)
    BY <1>2, SumOfFunction
  <1>4. \A l \in Lenders : balance[l] \in Int /\ borrowed[l] \in Int
    BY DEF PoolTypeOK
  <1> QED BY <1>1, <1>3, <1>4, SumInt DEF HoldingsMatch

\* Moving the two books of one lender moves the difference of their sums.
LEMMA BooksMove ==
    ASSUME NEW b1, NEW b2, NEW c1, NEW c2, NEW l \in Lenders,
           \A m \in Lenders : b1[m] \in Int /\ b2[m] \in Int /\ c1[m] \in Int /\ c2[m] \in Int,
           \A m \in Lenders : m # l => b2[m] = b1[m] /\ c2[m] = c1[m]
    PROVE  SumOver(b2, Lenders) - SumOver(c2, Lenders)
             = SumOver(b1, Lenders) - SumOver(c1, Lenders)
                 + ((b2[l] - c2[l]) - (b1[l] - c1[l]))
  <1>1. IsFiniteSet(Lenders)
    BY PoolAssumption
  <1>2. SumOver(b2, Lenders) = SumOver(b1, Lenders) - b1[l] + b2[l]
    BY <1>1, SumUpdate
  <1>3. SumOver(c2, Lenders) = SumOver(c1, Lenders) - c1[l] + c2[l]
    BY <1>1, SumUpdate
  <1>4. SumOver(b1, Lenders) \in Int /\ SumOver(c1, Lenders) \in Int
    BY <1>1, SumInt
  <1> QED BY <1>2, <1>3, <1>4

\* A step that moves the two books of one lender keeps them matching what is
\* held, as long as the holdings move by the difference.
LEMMA HoldingsKept ==
    ASSUME PoolTypeOK, PoolTypeOK', HoldingsMatch, UNCHANGED donated, NEW l \in Lenders,
           \A m \in Lenders : m # l => balance'[m] = balance[m] /\ borrowed'[m] = borrowed[m],
           (balance'[l] - borrowed'[l]) - (balance[l] - borrowed[l]) = held' - held
    PROVE  HoldingsMatch'
  <1>1. \A m \in Lenders : /\ balance[m] \in Int /\ balance'[m] \in Int
                           /\ borrowed[m] \in Int /\ borrowed'[m] \in Int
    BY DEF PoolTypeOK
  <1>2. SumOver(balance', Lenders) - SumOver(borrowed', Lenders)
          = SumOver(balance, Lenders) - SumOver(borrowed, Lenders)
              + ((balance'[l] - borrowed'[l]) - (balance[l] - borrowed[l]))
    BY <1>1, BooksMove
  <1>3. /\ SumOver(balance, Lenders) - SumOver(borrowed, Lenders) + donated = held
        /\ SumOver(balance, Lenders) \in Int /\ SumOver(borrowed, Lenders) \in Int
    BY BooksAsSums
  <1>4. held \in Int /\ held' \in Int /\ donated \in Int /\ donated' = donated
    BY DEF PoolTypeOK
  <1>5. SumOver(balance', Lenders) - SumOver(borrowed', Lenders) + donated' = held'
    BY <1>2, <1>3, <1>4
  <1>6. DOMAIN balance' = Lenders /\ DOMAIN borrowed' = Lenders
    BY DEF PoolTypeOK
  <1>7. SumFunction(balance') = SumOver(balance', Lenders)
        /\ SumFunction(borrowed') = SumOver(borrowed', Lenders)
    BY <1>6, SumOfFunction
  <1> QED BY <1>5, <1>7 DEF HoldingsMatch

-----------------------------------------------------------------------------
(* The inductive invariant, entry point by entry point. *)

\* Nothing is deposited, lent or written off at first.
LEMMA InitInv == Init => IInv
  <1> SUFFICES ASSUME Init PROVE IInv
    OBVIOUS
  <1>1. PoolTypeOK
    <2>1. now \in Nat /\ paused \in BOOLEAN /\ rate \in 0 .. BasisPoints
      BY PoolAssumption DEF Init
    <2>2. balance \in [Lenders -> Int] /\ borrowed \in [Lenders -> Int]
      BY DEF Init
    <2>3. loans \in [Keys -> Loan \cup {NoLoan}]
      BY DEF Init
    <2>4. activeLiquidity \in Int /\ totalBalance \in Int /\ held \in Nat
          /\ writtenOff \in Nat /\ donated \in Nat
      BY DEF Init
    <2> QED BY <2>1, <2>2, <2>3, <2>4 DEF PoolTypeOK
  <1>2. LoansOK
    BY DEF Init, LoansOK
  <1>3. NeverOverlent /\ DriftAccountedFor
    BY DEF Init, NeverOverlent, Available, DriftAccountedFor
  <1>4. HoldingsMatch
    <2>1. IsFiniteSet(Lenders)
      BY PoolAssumption
    <2>2. (\A l \in Lenders : balance[l] = 0 /\ borrowed[l] = 0) /\ held = 0 /\ donated = 0
      BY DEF Init
    <2>3. SumOver(balance, Lenders) = 0 /\ SumOver(borrowed, Lenders) = 0
      BY <2>1, <2>2, SumZero
    <2> QED BY <1>1, <2>2, <2>3, BooksAsSums
  <1> QED BY <1>1, <1>2, <1>3, <1>4 DEF IInv

\* A deposit raises one balance, the total and the holdings alike.
LEMMA DepositInv ==
    ASSUME IInv, NEW l \in Lenders, NEW amount \in Amounts, Deposit(l, amount)
    PROVE  IInv'
  <1>1. amount \in Nat /\ amount > 0
    BY PoolAssumption DEF Deposit
  <1>2. PoolTypeOK'
    BY <1>1 DEF IInv, PoolTypeOK, Deposit
  <1>3. LoansOK'
    BY LoansKept DEF IInv, PoolTypeOK, Deposit
  <1>4. NeverOverlent'
    BY <1>1 DEF IInv, PoolTypeOK, NeverOverlent, Available, Deposit
  <1>5. DriftAccountedFor'
    BY <1>1 DEF IInv, PoolTypeOK, DriftAccountedFor, Deposit
  <1>6. HoldingsMatch'
    <2>1. \A m \in Lenders : m # l => balance'[m] = balance[m] /\ borrowed'[m] = borrowed[m]
      BY DEF Deposit, IInv, PoolTypeOK
    <2>2. (balance'[l] - borrowed'[l]) - (balance[l] - borrowed[l]) = held' - held
      BY <1>1 DEF Deposit, IInv, PoolTypeOK
    <2> QED BY <1>2, <2>1, <2>2, HoldingsKept DEF IInv, Deposit
  <1> QED BY <1>2, <1>3, <1>4, <1>5, <1>6 DEF IInv

\* A withdrawal lowers them, within what is available.
LEMMA WithdrawInv ==
    ASSUME IInv, NEW l \in Lenders, NEW amount \in Amounts, Withdraw(l, amount)
    PROVE  IInv'
  <1>1. amount \in Nat /\ amount > 0
    BY PoolAssumption DEF Withdraw
  <1>2. PoolTypeOK'
    BY <1>1 DEF IInv, PoolTypeOK, Withdraw
  <1>3. LoansOK'
    BY LoansKept DEF IInv, PoolTypeOK, Withdraw
  <1>4. NeverOverlent'
    BY <1>1 DEF IInv, PoolTypeOK, NeverOverlent, Available, Withdraw
  <1>5. DriftAccountedFor'
    BY <1>1 DEF IInv, PoolTypeOK, DriftAccountedFor, Withdraw
  <1>6. HoldingsMatch'
    <2>1. \A m \in Lenders : m # l => balance'[m] = balance[m] /\ borrowed'[m] = borrowed[m]
      BY DEF Withdraw, IInv, PoolTypeOK
    <2>2. (balance'[l] - borrowed'[l]) - (balance[l] - borrowed[l]) = held' - held
      BY <1>1 DEF Withdraw, IInv, PoolTypeOK
    <2> QED BY <1>2, <2>1, <2>2, HoldingsKept DEF IInv, Withdraw
  <1> QED BY <1>2, <1>3, <1>4, <1>5, <1>6 DEF IInv

\* A loan moves principal from what is available and held to what is lent.
LEMMA BorrowInv ==
    ASSUME IInv, NEW k \in Keys, NEW l \in Lenders, NEW amount \in Amounts,
           Borrow(k, l, amount)
    PROVE  IInv'
  <1>1. amount \in Nat /\ amount > 0 /\ amount <= Available(l) /\ amount <= held
    BY PoolAssumption DEF Borrow, MayLend
  <1> DEFINE new == [status |-> "Active", lender |-> l, amount |-> amount, rate |-> rate,
                     start |-> now, deadline |-> now + LoanTerm, interest |-> 0]
  <1>2. new \in Loan /\ new.amount > 0 /\ new.start = now
    BY <1>1, PoolAssumption DEF IInv, PoolTypeOK, Loan
  <1>3. loans' = [loans EXCEPT ![k] = new]
    BY DEF Borrow
  <1> HIDE DEF new
  <1>4. PoolTypeOK'
    BY <1>1, <1>2, <1>3 DEF IInv, PoolTypeOK, Borrow
  <1>5. LoansOK'
    BY <1>2, <1>3 DEF IInv, PoolTypeOK, LoansOK, LoanOK, Borrow
  <1>6. NeverOverlent'
    BY <1>1 DEF IInv, PoolTypeOK, NeverOverlent, Available, Borrow
  <1>7. DriftAccountedFor'
    BY <1>1 DEF IInv, PoolTypeOK, DriftAccountedFor, Borrow
  <1>8. HoldingsMatch'
    <2>1. \A m \in Lenders : m # l => balance'[m] = balance[m] /\ borrowed'[m] = borrowed[m]
      BY DEF Borrow, IInv, PoolTypeOK
    <2>2. (balance'[l] - borrowed'[l]) - (balance[l] - borrowed[l]) = held' - held
      BY <1>1 DEF Borrow, IInv, PoolTypeOK
    <2> QED BY <1>4, <2>1, <2>2, HoldingsKept DEF IInv, Borrow
  <1> QED BY <1>4, <1>5, <1>6, <1>7, <1>8 DEF IInv

\* What a repayment is made of, in an unsettled loan.
LEMMA RepayShape ==
    ASSUME IInv, NEW k \in Keys, NEW amount \in Amounts, Repay(k, amount)
    PROVE  /\ LoanOK(loans[k])
           /\ LoanNow(loans[k]) \in Loan
           /\ LoanNow(loans[k]).amount > 0
           /\ LoanNow(loans[k]).status # "Repaid"
           /\ amount \in Nat /\ amount > 0 /\ amount <= Owed(LoanNow(loans[k]))
  <1>1. LoanOK(loans[k]) /\ loans[k].status # "Repaid"
    BY DEF Repay, IInv, LoansOK
  <1>2. amount \in Nat /\ amount > 0 /\ amount <= Owed(LoanNow(loans[k]))
    BY PoolAssumption DEF Repay
  <1> QED BY <1>1, <1>2, LoanNowOK DEF IInv, LoanOK

\* A repayment moves principal back and adds interest to balance and total;
\* what is available to the lender grows by all of it.
LEMMA RepayInv ==
    ASSUME IInv, NEW k \in Keys, NEW amount \in Amounts, Repay(k, amount)
    PROVE  IInv'
  <1> DEFINE loan == LoanNow(loans[k])
             part == PrincipalPart(loan, amount)
             new == Repaid(loan, amount)
  <1>1. loan \in Loan /\ amount \in Nat /\ amount > 0
    BY RepayShape
  <1>2. part \in 0 .. amount /\ LoanOK(new)
    BY RepayShape, RepaidOK DEF IInv
  <1>3. /\ borrowed' = [borrowed EXCEPT ![loan.lender] = @ - part]
        /\ activeLiquidity' = activeLiquidity - part
        /\ balance' = [balance EXCEPT ![loan.lender] = @ + (amount - part)]
        /\ totalBalance' = totalBalance + (amount - part)
        /\ held' = held + amount
        /\ loans' = [loans EXCEPT ![k] = new]
        /\ UNCHANGED <<now, paused, rate, writtenOff, donated>>
    BY DEF Repay
  <1>4. loan.lender \in Lenders
    BY <1>1 DEF Loan
  <1> HIDE DEF loan, part, new
  <1>5. PoolTypeOK'
    BY <1>1, <1>2, <1>3, <1>4 DEF IInv, PoolTypeOK, LoanOK
  <1>6. LoansOK'
    BY <1>2, <1>3 DEF IInv, PoolTypeOK, LoansOK, LoanOK
  <1>7. NeverOverlent'
    <2> SUFFICES ASSUME NEW l \in Lenders PROVE Available(l)' >= 0
      BY DEF NeverOverlent
    <2>1. Available(l) >= 0 /\ balance[l] \in Int /\ borrowed[l] \in Int
      BY DEF IInv, PoolTypeOK, NeverOverlent
    <2>2. CASE l = loan.lender
      BY <1>1, <1>2, <1>3, <2>1, <2>2 DEF IInv, PoolTypeOK, Available
    <2>3. CASE l # loan.lender
      BY <1>3, <2>1, <2>3 DEF IInv, PoolTypeOK, Available
    <2> QED BY <2>2, <2>3
  <1>8. DriftAccountedFor'
    BY <1>1, <1>2, <1>3 DEF IInv, PoolTypeOK, DriftAccountedFor
  <1>9. HoldingsMatch'
    <2> DEFINE l == loan.lender
    <2>1. l \in Lenders
      BY <1>4
    <2>2. \A m \in Lenders : m # l => balance'[m] = balance[m] /\ borrowed'[m] = borrowed[m]
      BY <1>3 DEF IInv, PoolTypeOK
    <2>3. (balance'[l] - borrowed'[l]) - (balance[l] - borrowed[l]) = held' - held
      BY <1>1, <1>2, <1>3, <1>4 DEF IInv, PoolTypeOK
    <2> HIDE DEF l
    <2> QED BY <1>3, <1>5, <2>1, <2>2, <2>3, HoldingsKept DEF IInv
  <1> QED BY <1>5, <1>6, <1>7, <1>8, <1>9 DEF IInv

\* A write-off lowers balance and lent principal alike, and neither total of
\* balances nor holdings.
LEMMA LiquidateInv ==
    ASSUME IInv, NEW l \in Lenders, NEW k \in Keys, Liquidate(l, k)
    PROVE  IInv'
  <1> DEFINE principal == loans[k].amount
             new == [loans[k] EXCEPT !.status = "Defaulted"]
  <1>1. LoanOK(loans[k]) /\ loans[k].status = "Active"
    BY DEF IInv, LoansOK, Liquidate
  <1>2. principal \in Nat /\ LoanOK(new)
    BY <1>1 DEF LoanOK, Loan
  <1>3. /\ activeLiquidity' = activeLiquidity - principal
        /\ balance' = [balance EXCEPT ![l] = @ - principal]
        /\ borrowed' = [borrowed EXCEPT ![l] = @ - principal]
        /\ writtenOff' = writtenOff + principal
        /\ loans' = [loans EXCEPT ![k] = new]
        /\ UNCHANGED <<now, paused, rate, totalBalance, held, donated>>
    BY DEF Liquidate
  <1> HIDE DEF principal, new
  <1>4. PoolTypeOK'
    BY <1>2, <1>3 DEF IInv, PoolTypeOK, LoanOK
  <1>5. LoansOK'
    BY <1>2, <1>3 DEF IInv, PoolTypeOK, LoansOK, LoanOK
  <1>6. NeverOverlent'
    BY <1>2, <1>3 DEF IInv, PoolTypeOK, NeverOverlent, Available
  <1>7. DriftAccountedFor'
    BY <1>2, <1>3 DEF IInv, PoolTypeOK, DriftAccountedFor
  <1>8. HoldingsMatch'
    <2>1. \A m \in Lenders : m # l => balance'[m] = balance[m] /\ borrowed'[m] = borrowed[m]
      BY <1>3 DEF IInv, PoolTypeOK
    <2>2. (balance'[l] - borrowed'[l]) - (balance[l] - borrowed[l]) = held' - held
      BY <1>2, <1>3 DEF IInv, PoolTypeOK
    <2> QED BY <1>3, <1>4, <2>1, <2>2, HoldingsKept DEF IInv
  <1> QED BY <1>4, <1>5, <1>6, <1>7, <1>8 DEF IInv

\* What is sent to the pool raises the holdings and nothing else.
LEMMA DonateInv ==
    ASSUME IInv, NEW amount \in Donations, Donate(amount)
    PROVE  IInv'
  <1>1. amount \in Nat
    BY PoolAssumption
  <1>2. /\ held' = held + amount /\ donated' = donated + amount
        /\ UNCHANGED <<now, paused, rate, balance, borrowed, activeLiquidity,
                        totalBalance, loans, writtenOff>>
    BY DEF Donate, bookVars
  <1>3. PoolTypeOK'
    BY <1>1, <1>2 DEF IInv, PoolTypeOK
  <1>4. LoansOK'
    BY <1>2, <1>3, LoansKept DEF IInv, PoolTypeOK
  <1>5. NeverOverlent' /\ DriftAccountedFor'
    BY <1>1, <1>2 DEF IInv, PoolTypeOK, NeverOverlent, Available, DriftAccountedFor
  <1>6. HoldingsMatch'
    <2>1. SumFunction(balance) - SumFunction(borrowed) \in Int
      <3>1. DOMAIN balance = Lenders /\ DOMAIN borrowed = Lenders
        BY DEF IInv, PoolTypeOK
      <3> QED BY <3>1, BooksAsSums, SumOfFunction DEF IInv
    <2>2. SumFunction(balance) - SumFunction(borrowed) + donated = held
      BY DEF IInv, HoldingsMatch
    <2>3. donated \in Int
      BY DEF IInv, PoolTypeOK
    <2> QED BY <1>1, <1>2, <2>1, <2>2, <2>3 DEF HoldingsMatch
  <1> QED BY <1>3, <1>4, <1>5, <1>6 DEF IInv

\* The other steps leave books and loans alone.
LEMMA OtherInv ==
    ASSUME IInv, AdminStep \/ TimePasses \/ UNCHANGED vars
    PROVE  IInv'
  <1>1. UNCHANGED <<bookVars, loans, held, writtenOff, donated>>
    BY DEF AdminStep, SetPaused, SetInterestRate, TimePasses, vars
  <1>2. now' \in Nat /\ now' >= now /\ paused' \in BOOLEAN /\ rate' \in 0 .. BasisPoints
    BY DEF AdminStep, SetPaused, SetInterestRate, TimePasses, vars, IInv, PoolTypeOK
  <1>3. LoansOK'
    BY <1>1, <1>2, LoansKept DEF IInv
  <1>4. HoldingsMatch'
    BY <1>1 DEF IInv, HoldingsMatch, bookVars
  <1> QED BY <1>1, <1>2, <1>3, <1>4 DEF IInv, PoolTypeOK, NeverOverlent, Available,
             DriftAccountedFor, bookVars

\* The invariant holds in every reachable state.
THEOREM Invariant == Spec => []IInv
  <1>1. Init => IInv
    BY InitInv
  <1>2. IInv /\ [Next]_vars => IInv'
    <2> SUFFICES ASSUME IInv, [Next]_vars PROVE IInv'
      OBVIOUS
    <2>1. CASE AccountStep
      BY <2>1, DepositInv, WithdrawInv DEF AccountStep
    <2>2. CASE LoanStep
      BY <2>2, BorrowInv, RepayInv, LiquidateInv DEF LoanStep
    <2>3. CASE DonationStep
      BY <2>3, DonateInv DEF DonationStep
    <2>4. CASE AdminStep \/ TimePasses \/ UNCHANGED vars
      BY <2>4, OtherInv
    <2> QED BY <2>1, <2>2, <2>3, <2>4 DEF Next
  <1> QED BY <1>1, <1>2, PTL DEF Spec

-----------------------------------------------------------------------------
(* Theorems. *)

\* Every state of the pool is well typed; no guard of the code is needed
\* beyond those it has to keep amounts and holdings from going negative.
THEOREM TypeCorrect == Spec => []PoolTypeOK
  <1>1. IInv => PoolTypeOK
    BY DEF IInv
  <1> QED BY <1>1, Invariant, PTL

\* withdraw, borrow, repay and liquidate: what a lender has lent never
\* exceeds its balance, also when either has become negative.
THEOREM LendersAreNeverOverlent == Spec => []NeverOverlent
  <1>1. IInv => NeverOverlent
    BY DEF IInv
  <1> QED BY <1>1, Invariant, PTL

\* AC-041: what the pool holds is what all lenders own less what all of them
\* have lent out, and what was transferred to it unasked, to the unit, for any
\* number of lenders, through interest, write-offs and the repayment of what
\* was written off.
THEOREM BooksMatchHoldings == Spec => []HoldingsMatch
  <1>1. IInv => HoldingsMatch
    BY DEF IInv
  <1> QED BY <1>1, Invariant, PTL

\* The totals of AC-041 are off by exactly what liquidate wrote off less what
\* was transferred to the pool without a call of it.
THEOREM DriftIsAccountedFor == Spec => []DriftAccountedFor
  <1>1. IInv => DriftAccountedFor
    BY DEF IInv
  <1> QED BY <1>1, Invariant, PTL

\* repay takes what is paid off what is owed, to the unit.
THEOREM RepaymentsApply == Spec => RepaymentApplied
  <1> DEFINE Applied ==
        \A k \in Keys :
          loans[k] # NoLoan /\ loans'[k] # loans[k] /\ held' > held
          => Due(k)' = Due(k) - (held' - held)
  <1>1. IInv /\ [Next]_vars => [Applied]_vars
    <2> SUFFICES ASSUME IInv, Next,
                        NEW k \in Keys, loans[k] # NoLoan, loans'[k] # loans[k], held' > held
                 PROVE  Due(k)' = Due(k) - (held' - held)
      BY DEF vars
    <2>1. loans' # loans /\ held \in Nat
      BY DEF IInv, PoolTypeOK
    <2>2. ~AccountStep /\ ~AdminStep /\ ~DonationStep /\ ~TimePasses
      BY <2>1 DEF AccountStep, Deposit, Withdraw, AdminStep, SetPaused, SetInterestRate,
                  DonationStep, Donate, TimePasses
    <2>3. PICK j \in Keys :
            \/ \E l \in Lenders, amount \in Amounts : Borrow(j, l, amount)
            \/ \E amount \in Amounts : Repay(j, amount)
            \/ \E l \in Lenders : Liquidate(l, j)
      BY <2>2 DEF Next, LoanStep
    <2>4. ~\E l \in Lenders, amount \in Amounts : Borrow(j, l, amount)
      BY <2>1, PoolAssumption DEF Borrow, MayLend
    <2>5. ~\E l \in Lenders : Liquidate(l, j)
      BY <2>1 DEF Liquidate
    <2>6. PICK amount \in Amounts : Repay(j, amount)
      BY <2>3, <2>4, <2>5
    <2> DEFINE loan == LoanNow(loans[j])
               new == Repaid(loan, amount)
    <2>7. loans' = [loans EXCEPT ![j] = new] /\ held' = held + amount /\ now' = now
      BY <2>6 DEF Repay
    <2>8. /\ LoanOK(new) /\ new.start = now /\ amount \in Nat
          /\ Owed(new) = Owed(loan) - amount
      BY <2>6, RepayShape, RepaidOK DEF IInv
    <2> HIDE DEF loan, new
    <2>9. j = k /\ loans'[k] = new
      BY <2>7 DEF IInv, PoolTypeOK
    <2>10. PICK r \in Loan : r = new
      BY <2>8 DEF LoanOK
    <2>11. now' \in Nat /\ r.start = now' /\ loans'[k] = r
      BY <2>7, <2>8, <2>9, <2>10 DEF IInv, PoolTypeOK
    <2>12. Due(k)' = Owed(r)
      BY <2>11, FreshOwes
    <2>13. Due(k) = Owed(loan)
      BY <2>9 DEF Due, loan
    <2> QED BY <2>1, <2>7, <2>8, <2>10, <2>12, <2>13
  <1> QED BY <1>1, Invariant, PTL DEF Spec, RepaymentApplied
=============================================================================
