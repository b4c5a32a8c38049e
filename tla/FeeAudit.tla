------------------------------- MODULE FeeAudit -------------------------------
(***************************************************************************)
(* The performance fee of AIVault audited against what the vault earned:   *)
(* history variables beside the specification, restricted only by a bound. *)
(***************************************************************************)
EXTENDS AIVault

CONSTANT MaxEarned  \* bound of earned

ASSUME FeeAuditAssumption == MaxEarned \in Nat

VARIABLES
    earned,     \* assets gained from interest and direct transfers
    charged,    \* assets the accrued fee shares were worth when accrued
    peak        \* highest share price at which a fee was collected

auditVars == <<vars, earned, charged, peak>>

sharePrice == (PriceUnit * (totalAssets + 1)) \div (totalSupply + VirtualShares)

Collected == executed' # executed \/ lastRebalanceTimestamp' # lastRebalanceTimestamp

FeeValue ==
    IF accruedFeeShares' > accruedFeeShares
    THEN ((accruedFeeShares' - accruedFeeShares) * (totalAssets' + 1))
            \div (totalSupply + VirtualShares)
    ELSE 0

AuditInit == Init /\ earned = 0 /\ charged = 0 /\ peak = 0

AuditNext ==
    /\ Next
    /\ earned' = earned + (IF UNCHANGED ledger /\ totalAssets' > totalAssets
                           THEN totalAssets' - totalAssets ELSE 0)
    /\ earned' <= MaxEarned
    /\ charged' = charged + FeeValue
    /\ peak' = IF Collected /\ performanceFeeBps > 0 /\ totalSupply > 0 /\ sharePrice' > peak
               THEN sharePrice' ELSE peak

AuditSpec == AuditInit /\ [][AuditNext]_auditVars

-----------------------------------------------------------------------------

\* docs/paper.md:431, no fee "on recovery from drawdowns": a fee accrues only
\* when the share price is above every price at which one was collected, even
\* after claimFees or a lossy supply has lowered it in between.
NoFeeOnRecovery ==
    [][ accruedFeeShares' > accruedFeeShares => sharePrice' > peak ]_auditVars

\* docs/paper.md:431, fees are charged "only on new profits": nothing is charged
\* to a vault that has earned nothing.
NoProfitNoFee == charged > 0 => earned > 0
=============================================================================
