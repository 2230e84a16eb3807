------------------------------- MODULE Oracle -------------------------------
(***************************************************************************)
(* How a rate comes to be: validators submit rounds of source medians, the *)
(* submission that completes a quorum commits the median of the round, and *)
(* within the update interval only an emergency that a quorum voted for    *)
(* may replace a rate.  The admin can overwrite a rate within limits and   *)
(* changes the validator set behind a timelock.                            *)
(***************************************************************************)
EXTENDS RateFeed

CONSTANTS
    ValidatorPool,       \* addresses that may ever be validators
    InitLists,           \* validator lists initialize may be given, repetitions included
    InitMinSigs,         \* its min_signatures
    MinSigChoices,       \* values the admin passes to set_min_signatures
    SourceFeeds,         \* source vectors validators submit
    RateArgs,            \* values of the rate argument of update_rate
    AdminRates,          \* values the admin passes to set_rate_admin
    Thresholds,          \* values the admin passes to set_emergency_threshold
    DefaultThreshold,    \* EMERGENCY_THRESHOLD_BPS
    OutlierThreshold,    \* OUTLIER_THRESHOLD_BPS
    MinSourceFeeds,      \* MIN_ORACLE_SOURCE_FEEDS
    SubmissionTtl,       \* RATE_SUBMISSION_TTL_SECONDS
    VoteTtl,             \* EMERGENCY_VOTE_TTL_SECONDS
    Cooldown,            \* EMERGENCY_UPDATE_COOLDOWN_SECONDS
    AdminTimelock,       \* ADMIN_TIMELOCK_SECONDS
    MaxValidators,       \* MAX_VALIDATORS
    Entrypoints          \* the calls the environment of an instance makes

\* In the code both lifetimes and the cooldown are 3600 s, the interval is
\* 21600 s and a rate stays readable for 4320 ledgers.
ASSUME OracleAssumption ==
    /\ IsFiniteSet(ValidatorPool)
    /\ InitLists \subseteq [ValidatorPool -> Nat] /\ InitMinSigs \in Nat
    /\ MinSigChoices \subseteq Nat
    /\ SourceFeeds \subseteq Seq(Int) /\ MinSourceFeeds \in Nat \ {0}
    /\ Thresholds \subseteq Int /\ DefaultThreshold \in Int
    /\ SubmissionTtl \in Nat /\ VoteTtl \in Nat /\ Cooldown \in Nat
    /\ AdminTimelock \in Nat /\ MaxValidators \in Nat
    /\ SubmissionTtl <= Cooldown /\ VoteTtl <= Cooldown
    /\ Cooldown <= UpdateInterval /\ SubmissionTtl <= StaleLedgers

VARIABLES
    listed,          \* listed[v]: how often the validator list holds v
    repeated,        \* history: entries of the first list that repeat another
    minSigs,         \* min_signatures
    submissions,     \* submissions[c][v]: v's rate in the current round of c
    votes,           \* votes[c][v]: when v last voted for an emergency in c
    threshold,       \* emergency threshold of each currency
    pendingChange,   \* the scheduled validator change, or NoChange
    backers          \* history: who submitted the stored rate, {} for the admin

consensusVars == <<submissions, votes, backers>>
listVars == <<listed, repeated>>
governanceVars == <<listVars, minSigs, threshold, pendingChange>>
oracleVars == <<rateVars, consensusVars, governanceVars>>

Called(name) == name \in Entrypoints

NoChange == [validator |-> "none", add |-> FALSE, eligibleAt |-> 0]

\* The validator index.  Of the list, a Vec that may name a validator twice,
\* the code reads the length and who is on it, never the order.
validators == {v \in ValidatorPool : listed[v] > 0}

ListLength == SumOver(listed, ValidatorPool)

\* The round nobody has submitted to, the ballot nobody has voted in.
Empty == <<>>

Init ==
    /\ RateInit
    /\ listed \in InitLists
    /\ minSigs = InitMinSigs
    /\ minSigs \in 1 .. ListLength /\ ListLength <= MaxValidators
    /\ repeated = ListLength - Cardinality(validators)
    /\ submissions = [c \in Currency |-> Empty]
    /\ votes = [c \in Currency |-> Empty]
    /\ threshold = [c \in Currency |-> DefaultThreshold]
    /\ pendingChange = NoChange
    /\ backers = [c \in Currency |-> {}]

-----------------------------------------------------------------------------
\* One validator's rate: the median of its sources without the outliers.
Aggregate(sources) ==
    LET raw == Median(sources)
        clean == {i \in DOMAIN sources :
                    CalculateDeviation(sources[i], raw) <= OutlierThreshold}
    IN  IF clean = {} THEN raw ELSE Median([i \in clean |-> sources[i]])

\* What validators may come to submit.
Aggregates == {Aggregate(s) : s \in {s \in SourceFeeds : Len(s) >= MinSourceFeeds}}

\* Rates names whatever may be published: the admin's rates and the medians
\* of rounds.  A source feed below zero, which the code does not refuse, may
\* only occur where medians are rates all the same.
ASSUME RatesAssumption ==
    /\ {r \in AdminRates : r > 0} \subseteq Rates
    /\ \A S \in (SUBSET ValidatorPool) \ {{}} :
         \A round \in [S -> Aggregates] : Median(round) \in Rates

EnoughSources(sources) == Len(sources) >= Max({minSigs, MinSourceFeeds})

\* Mutant: the interval binds on the wall clock alone.
WithinWallClockInterval(c) ==
    /\ quotes[c].set
    /\ now < quotes[c].timestamp + UpdateInterval

\* AC-027: the interval binds on both clocks.
WithinInterval(c) ==
    /\ quotes[c].set
    /\ now < quotes[c].timestamp + UpdateInterval
    /\ LedgerFresh(quotes[c])

Deviates(c, rate) == CalculateDeviation(rate, quotes[c].rate) > threshold[c]

\* Mutant: votes do not expire.
EmergencyVotersOfAnyAge(c) == DOMAIN votes[c]

\* get_emergency_vote_count: by age only, whoever voted.
EmergencyVoters(c) == {v \in DOMAIN votes[c] : now - votes[c][v] <= VoteTtl}

\* Within the interval a submission needs an emergency: the rate argument
\* deviates, the cooldown is over and a quorum of votes stands.
MayUpdate(c, rate) ==
    WithinInterval(c) =>
        /\ Deviates(c, rate)
        /\ now >= quotes[c].timestamp + Cooldown
        /\ Cardinality(EmergencyVoters(c)) >= minSigs

\* Mutant: submissions do not expire.
RoundOfAnyAge(c, v, rate) ==
    LET others == (DOMAIN submissions[c] \ {v}) \cap validators
    IN  [w \in others \cup {v} |->
            IF w = v THEN [rate |-> rate, timestamp |-> now] ELSE submissions[c][w]]

\* The round of c with v's submission: others' that are fresh and authorised.
Round(c, v, rate) ==
    LET others == {w \in DOMAIN submissions[c] \ {v} :
                     w \in validators /\ now - submissions[c][w].timestamp <= SubmissionTtl}
    IN  [w \in others \cup {v} |->
            IF w = v THEN [rate |-> rate, timestamp |-> now] ELSE submissions[c][w]]

QuorumMet(round) == Cardinality(DOMAIN round) >= minSigs

StoreRound(c, round) ==
    /\ submissions' = [submissions EXCEPT ![c] = round]
    /\ UNCHANGED <<rateVars, votes, backers>>

\* Mutant: the rate is stamped with the time of its oldest submission.
CommitRoundAsSubmitted(c, round) ==
    /\ quotes' = [quotes EXCEPT ![c] =
            [rate |-> Median([v \in DOMAIN round |-> round[v].rate]),
             timestamp |-> Min({round[v].timestamp : v \in DOMAIN round}),
             ledger |-> ledger, set |-> TRUE]]
    /\ submissions' = [submissions EXCEPT ![c] = Empty]
    /\ votes' = IF WithinInterval(c) THEN [votes EXCEPT ![c] = Empty] ELSE votes
    /\ backers' = [backers EXCEPT ![c] = DOMAIN round]
    /\ UNCHANGED <<now, ledger>>

CommitRound(c, round) ==
    /\ PublishRate(c, Median([v \in DOMAIN round |-> round[v].rate]))
    /\ submissions' = [submissions EXCEPT ![c] = Empty]
    /\ votes' = IF WithinInterval(c) THEN [votes EXCEPT ![c] = Empty] ELSE votes
    /\ backers' = [backers EXCEPT ![c] = DOMAIN round]

UpdateRate(v, c, rate, sources) ==
    LET round == Round(c, v, Aggregate(sources))
    IN  /\ v \in validators
        /\ EnoughSources(sources)
        /\ MayUpdate(c, rate)
        /\ \/ ~QuorumMet(round) /\ StoreRound(c, round)
           \/ QuorumMet(round) /\ CommitRound(c, round)
        /\ UNCHANGED governanceVars

\* Expired votes and the validator's own are dropped, then it votes.
CastEmergencyVote(v, c) ==
    LET others == EmergencyVoters(c) \ {v}
    IN  /\ v \in validators
        /\ votes' = [votes EXCEPT ![c] =
                [w \in others \cup {v} |-> IF w = v THEN now ELSE votes[c][w]]]
        /\ UNCHANGED <<rateVars, submissions, backers, governanceVars>>

\* The override leaves rounds and votes as they are.
SetRateAdmin(c, rate) ==
    /\ rate > 0
    /\ quotes[c].set => /\ now >= quotes[c].timestamp + UpdateInterval
                        /\ ~Deviates(c, rate)
    /\ PublishRate(c, rate)
    /\ backers' = [backers EXCEPT ![c] = {}]
    /\ UNCHANGED <<submissions, votes, governanceVars>>

-----------------------------------------------------------------------------
SetEmergencyThreshold(c, bps) ==
    /\ threshold' = [threshold EXCEPT ![c] = IF bps = 0 THEN DefaultThreshold ELSE bps]
    /\ UNCHANGED <<rateVars, consensusVars, listVars, minSigs, pendingChange>>

\* Mutant: a quorum of nobody is accepted.
QuorumUpToLength(n) == n <= ListLength

QuorumValid(n) == n # 0 /\ n <= ListLength

\* Mutant: the rounds of the old quorum are kept.
SetMinSignaturesKeepingRounds(n) ==
    /\ QuorumValid(n)
    /\ minSigs' = n
    /\ votes' = [c \in Currency |-> Empty]
    /\ UNCHANGED <<rateVars, submissions, backers, listVars, threshold, pendingChange>>

\* Votes and rounds of the old quorum are dropped.
SetMinSignatures(n) ==
    /\ QuorumValid(n)
    /\ minSigs' = n
    /\ votes' = [c \in Currency |-> Empty]
    /\ submissions' = [c \in Currency |-> Empty]
    /\ UNCHANGED <<rateVars, backers, listVars, threshold, pendingChange>>

\* There is one slot: scheduling replaces what was scheduled before.
ScheduleValidatorChange(v, add) ==
    /\ pendingChange' = [validator |-> v, add |-> add, eligibleAt |-> now + AdminTimelock]
    /\ UNCHANGED <<rateVars, consensusVars, listVars, minSigs, threshold>>

ChangeDue == pendingChange # NoChange /\ now >= pendingChange.eligibleAt

ExecuteAddition ==
    /\ ChangeDue /\ pendingChange.add
    /\ pendingChange.validator \notin validators
    /\ ListLength < MaxValidators
    /\ listed' = [listed EXCEPT ![pendingChange.validator] = 1]
    /\ pendingChange' = NoChange
    /\ UNCHANGED <<rateVars, consensusVars, repeated, minSigs, threshold>>

\* Mutant: the last validator the quorum needs may go.
RemovableAtQuorum == ListLength >= minSigs

\* The list is measured as it is, whatever the removal takes from it.
Removable == ListLength > minSigs

\* Mutant: the removed validator's rates stay.
ExecuteRemovalKeepingRates ==
    /\ ChangeDue /\ ~pendingChange.add
    /\ Removable
    /\ listed' = [listed EXCEPT ![pendingChange.validator] = 0]
    /\ pendingChange' = NoChange
    /\ UNCHANGED <<rateVars, consensusVars, repeated, minSigs, threshold>>

\* A removal drops every entry of the validator and wipes every stored rate,
\* but neither rounds nor votes.
ExecuteRemoval ==
    /\ ChangeDue /\ ~pendingChange.add
    /\ Removable
    /\ listed' = [listed EXCEPT ![pendingChange.validator] = 0]
    /\ pendingChange' = NoChange
    /\ ClearRates
    /\ backers' = [c \in Currency |-> {}]
    /\ UNCHANGED <<submissions, votes, repeated, minSigs, threshold>>

CancelValidatorChange ==
    /\ pendingChange' = NoChange
    /\ UNCHANGED <<rateVars, consensusVars, listVars, minSigs, threshold>>

-----------------------------------------------------------------------------
RateStep ==
    \E c \in Currency :
        \/ Called("update_rate") /\ \E v \in ValidatorPool, r \in RateArgs, s \in SourceFeeds :
                UpdateRate(v, c, r, s)
        \/ Called("cast_emergency_vote") /\ \E v \in ValidatorPool : CastEmergencyVote(v, c)
        \/ Called("set_rate_admin") /\ \E r \in AdminRates : SetRateAdmin(c, r)

GovernanceStep ==
    \/ Called("set_emergency_threshold")
         /\ \E c \in Currency, bps \in Thresholds : SetEmergencyThreshold(c, bps)
    \/ Called("set_min_signatures") /\ \E n \in MinSigChoices : SetMinSignatures(n)
    \/ Called("schedule_validator_change")
         /\ \E v \in ValidatorPool, add \in BOOLEAN : ScheduleValidatorChange(v, add)
    \/ Called("execute_validator_change") /\ (ExecuteAddition \/ ExecuteRemoval)
    \/ Called("cancel_validator_change") /\ CancelValidatorChange

LedgerStep == LedgerClose /\ UNCHANGED <<consensusVars, governanceVars>>

Next == RateStep \/ GovernanceStep \/ LedgerStep

Spec == Init /\ [][Next]_oracleVars

-----------------------------------------------------------------------------
(* Safety *)

Submission == [rate : Int, timestamp : Nat]

OracleTypeOK ==
    /\ RateTypeOK
    /\ listed \in [ValidatorPool -> Nat] /\ repeated \in Nat
    /\ minSigs \in Nat \ {0}
    /\ \A c \in Currency :
         /\ \E S \in SUBSET ValidatorPool : submissions[c] \in [S -> Submission]
         /\ \E S \in SUBSET ValidatorPool : votes[c] \in [S -> Nat]
         /\ backers[c] \subseteq ValidatorPool
         /\ threshold[c] \in Int
    /\ pendingChange \in [validator : ValidatorPool, add : BOOLEAN, eligibleAt : Nat]
                            \cup {NoChange}

\* A stored round is short of the quorum: it neither survives a change of
\* the quorum nor waits, complete, for the next call (AC-003).
RoundBelowQuorum ==
    \A c \in Currency : Cardinality(DOMAIN submissions[c]) < minSigs

\* However validators come and go, the quorum exceeds them by no more than
\* the entries the first list repeated: initialize does not refuse those, the
\* quorum is measured by the list's length, and a removal drops every entry
\* of its validator.  From a list of distinct validators a quorum can always
\* be reached.
QuorumWithinRepeats == minSigs <= Cardinality(validators) + repeated

\* The doc of execute_validator_change: removing refuses to drop below
\* min_signatures, so that enough validators remain to reach a quorum.
QuorumAttainable == minSigs <= Cardinality(validators)

\* No stored rate outlives the authority of a validator who submitted to it
\* (execute_validator_change, FIX #342).
BackersAuthorised == \A c \in Currency : backers[c] \subseteq validators

\* A rate the value contracts no longer accept, on either clock, can be
\* refreshed by validators without an emergency: what the write side still
\* protects is never what the read side already rejects (AC-027).
RefreshableWhenUnusable ==
    \A c \in Currency :
        (quotes[c].set /\ ~(LedgerFresh(quotes[c]) /\ CheckOracleFreshness(quotes[c].timestamp)))
            => \A r \in RateArgs : MayUpdate(c, r)

(* Action properties *)

Replaced(c) == quotes'[c].set /\ quotes'[c] # quotes[c]

\* A rate validators commit is backed by a quorum of current validators, and
\* all but the one who completes the round had submitted since the rate it
\* replaces: no submission carries over an earlier commit or override.
CommitBacked ==
    [][\A c \in Currency : (Replaced(c) /\ backers'[c] # {}) =>
        /\ backers'[c] \subseteq validators
        /\ Cardinality(backers'[c]) >= minSigs
        /\ \E v \in backers'[c] : \A w \in backers'[c] \ {v} :
             /\ w \in DOMAIN submissions[c]
             /\ quotes[c].set => submissions[c][w].timestamp >= quotes[c].timestamp]_oracleVars

\* A rate is replaced within its interval only after the cooldown, and by
\* votes cast since it was stored: an earlier emergency's votes, spent or
\* not, never serve for the next one (SC-025, AC-029).
EmergencyVotesPostdateRate ==
    [][\A c \in Currency : (Replaced(c) /\ WithinInterval(c)) =>
        /\ now >= quotes[c].timestamp + Cooldown
        /\ Cardinality({v \in DOMAIN votes[c] : votes[c][v] >= quotes[c].timestamp})
             >= minSigs]_oracleVars
=============================================================================
