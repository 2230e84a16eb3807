------------------------------ MODULE RateFeed ------------------------------
(***************************************************************************)
(* The ledger clock and the oracle as the other contracts read it: one     *)
(* quote per currency, replaced by validators or the admin, cleared when a *)
(* validator is removed, and dropped by readers once it is older than      *)
(* StaleLedgers ledgers.  Module Oracle models how a quote comes to be; the *)
(* value contracts only depend on what is here.                            *)
(***************************************************************************)
EXTENDS AcbuMath, Sequences

CONSTANTS
    Currencies,       \* the basket, get_currencies(): a sequence, in order
    Weight,           \* basis-point weight of each basket currency
    Rates,            \* quotable USD rates
    StaleLedgers,     \* STALE_RATE_MAX_LEDGERS
    UpdateInterval,   \* UPDATE_INTERVAL_SECONDS, the callers' wall-clock bound
    LedgerGaps,       \* seconds one ledger close may add to the clock
    MaxNow            \* bound of the instance: no ledger closes beyond it

Currency == Range(Currencies)

ASSUME FeedAssumption ==
    /\ Currencies \in Seq(STRING)
    /\ Currencies # <<>> /\ Cardinality(Currency) = Len(Currencies)
    /\ Weight \in [Currency -> Nat]
    /\ Rates \subseteq Nat
    /\ StaleLedgers \in Nat /\ UpdateInterval \in Nat
    /\ LedgerGaps \subseteq Nat \ {0}
    /\ MaxNow \in Nat

VARIABLES
    now,      \* env.ledger().timestamp()
    ledger,   \* env.ledger().sequence()
    quotes    \* quotes[c]: the stored RateData of c, or NoQuote

rateVars == <<now, ledger, quotes>>

NoQuote == [rate |-> 0, timestamp |-> 0, ledger |-> 0, set |-> FALSE]

Quote == [rate : Rates, timestamp : Nat, ledger : Nat, set : {TRUE}] \cup {NoQuote}

RateTypeOK ==
    /\ now \in Nat
    /\ ledger \in Nat
    /\ quotes \in [Currency -> Quote]

RateInit ==
    /\ now = 1
    /\ ledger = 1
    /\ quotes = [c \in Currency |-> NoQuote]

-----------------------------------------------------------------------------
\* check_oracle_freshness: the wall-clock bound each caller applies.
CheckOracleFreshness(timestamp) == now <= timestamp + UpdateInterval

\* check_oracle_ledger_freshness: the bound the oracle applies on every read.
LedgerFresh(q) == ledger - q.ledger <= StaleLedgers

\* get_rate / get_rate_with_timestamp answer; otherwise they panic.
RateReadable(c) == quotes[c].set /\ LedgerFresh(quotes[c])

\* The basket currencies that contribute: a currency without a quote is
\* skipped, a stale one makes the whole read panic.
Contributing == {c \in Currency : quotes[c].set}

TotalWeight == SumOver(Weight, Contributing)

\* compute_basket_rate answers; otherwise it panics.
BasketRateReadable ==
    /\ \A c \in Contributing : LedgerFresh(quotes[c])
    /\ TotalWeight # 0

\* The sum is divided by total_weight alone, although its terms were divided
\* by BASIS_POINTS before; the comment there announces a factor BASIS_POINTS.
BasketRate ==
    LET contribution == [c \in Contributing |->
            (quotes[c].rate * Weight[c]) \div BasisPoints]
    IN  SumOver(contribution, Contributing) \div TotalWeight

BasketTimestamp == Min({quotes[c].timestamp : c \in Contributing})

-----------------------------------------------------------------------------
\* A committed update_rate or set_rate_admin, as readers see it.
PublishRate(c, r) ==
    /\ quotes' = [quotes EXCEPT ![c] =
            [rate |-> r, timestamp |-> now, ledger |-> ledger, set |-> TRUE]]
    /\ UNCHANGED <<now, ledger>>

\* execute_validator_change on a removal wipes every stored rate.
ClearRates ==
    /\ quotes' = [c \in Currency |-> NoQuote]
    /\ UNCHANGED <<now, ledger>>

\* The network closes a ledger: the sequence grows by one, the close time by
\* at least a second.
LedgerClose ==
    \E gap \in LedgerGaps :
        /\ now + gap <= MaxNow
        /\ now' = now + gap
        /\ ledger' = ledger + 1
        /\ UNCHANGED quotes

\* All that readers of the oracle may see happen; module Oracle implements it.
FeedNext ==
    \/ \E c \in Currency, r \in Rates : PublishRate(c, r)
    \/ ClearRates
    \/ LedgerClose

FeedSpec == RateInit /\ [][FeedNext]_rateVars
=============================================================================
