------------------------ MODULE MCCashReconciliation ------------------------
(* Amounts in hundredths: small orders, charged more or less than modelled. *)
EXTENDS CashReconciliation, TLC

CONSTANTS buy, sell, buy2

MCChange == [o \in Order |-> ((buy :> -100) @@ (sell :> 120) @@ (buy2 :> -130))[o]]
MCModeled == [o \in Order |-> 3]

\* Withdrawals and deposits larger than any fee, dividends and interest in the
\* range of the fees, and corrections next to the tolerance.
MCForeign == {60, -60, 7, -7, 2, -2}

\* The dividend of a small position.
MCDividend == {7}
\* A correction, and its end.
MCSmall == {2, -2}
=============================================================================
