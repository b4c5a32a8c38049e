--------------------------- MODULE ServiceInstances ---------------------------
(* Markets, readers and observations for the runs. *)
EXTENDS Integers, Sequences

\* Every quantity changes with every block; one market is empty, one owes more than
\* it has.
ChangingMarket(r, block) ==
    [rate |-> 3 + 2 * block,
     supplied |-> IF r = "fluid" THEN 0 ELSE 4 + block,
     borrowed |-> IF r = "spark" THEN 9 ELSE (3 * block) % 7]

RisingCurve(utilization) == 2 * utilization + 1

\* The two of build_default_readers, and the newer ones with one of them.
Programs == {<<"aave", "compound">>, <<"spark", "morpho", "compound">>,
             <<"aave", "fluid", "euler">>}

NewerOnly == {<<"fluid", "euler">>}

TwoReadings == {[apy |-> 3, tvl |-> 1], [apy |-> 7, tvl |-> 0]}
=============================================================================
