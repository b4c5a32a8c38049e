----------------------------- MODULE ShareLedger -----------------------------
(***************************************************************************)
(* What the vault promises those who hold its shares, whatever pools and   *)
(* strategies are behind it: assets come in against new shares and go out  *)
(* against burned ones, each time at the price of a share or a little      *)
(* better for those who stay.  AIVault implements it when its pools credit *)
(* every supply in full.                                                   *)
(***************************************************************************)
EXTENDS Integers

CONSTANTS
    Holder,              \* accounts that hold shares
    feeRecipient,        \* the one of them that claims fees
    VirtualShares,       \* shares nobody holds
    PerformanceFees,     \* the rates a fee may be charged at, in BPS
    BPS

VARIABLES
    assets,              \* all that the vault manages
    supply, held,        \* shares, and whose they are
    owed                 \* fee shares accrued and not claimed

ledgerVars == <<assets, supply, held, owed>>

LedgerInit ==
    /\ assets = 0
    /\ supply = 0 /\ held = [h \in Holder |-> 0]
    /\ owed = 0

\* Of what is given and what is got, in assets times shares, the vault keeps the
\* difference: less than the price of one share, or one asset's worth of shares.
Rounded(given, got) ==
    /\ got <= given
    /\ given < got + assets + 1 \/ given < got + supply + VirtualShares

\* Interest, and direct transfers.
Earn == assets' >= assets /\ UNCHANGED <<supply, held, owed>>

Issue(h, paid, issued) ==
    /\ paid >= 0 /\ issued >= 0
    /\ Rounded(paid * (supply + VirtualShares), (assets + 1) * issued)
    /\ assets' = assets + paid
    /\ supply' = supply + issued
    /\ held' = [held EXCEPT ![h] = @ + issued]
    /\ UNCHANGED owed

Redeem(h, paid, burned) ==
    /\ paid >= 0 /\ burned >= 0 /\ burned <= held[h]
    /\ Rounded((assets + 1) * burned, paid * (supply + VirtualShares))
    /\ assets' = assets - paid
    /\ supply' = supply - burned
    /\ held' = [held EXCEPT ![h] = @ - burned]
    /\ UNCHANGED owed

\* One fee takes no more than its rate of the shares there are.
Charge ==
    /\ owed' >= owed
    /\ \E rate \in PerformanceFees : (owed' - owed) * BPS <= rate * supply
    /\ UNCHANGED <<assets, supply, held>>

ClaimFees ==
    /\ owed > 0 /\ owed' = 0
    /\ supply' = supply + owed
    /\ held' = [held EXCEPT ![feeRecipient] = @ + owed]
    /\ UNCHANGED assets

LedgerNext ==
    \/ Earn \/ Charge \/ ClaimFees
    \/ \E h \in Holder :
           \/ Issue(h, assets' - assets, supply' - supply)
           \/ Redeem(h, assets - assets', supply - supply')

LedgerSpec == LedgerInit /\ [][LedgerNext]_ledgerVars
=============================================================================
