------------------------------- MODULE MCExecutor -------------------------------
(* Small instances of Executor. *)
EXTENDS ExecutorInvariants, TLC

CONSTANTS A, B, C, BTC

\* $100 trades once ($10), after which 10 % is less than the $10 minimum; an empty
\* balance cannot buy; $10000 trades three times, until rounding exceeds its limit.
Balances == (A :> 100 * Usd) @@ (B :> 0) @@ (C :> 10000 * Usd)

Quote(buy, sell, sellPrice, spread) ==
  [ parses |-> TRUE, symbol |-> BTC, buy |-> buy, sell |-> sell,
    buyPrice |-> 100 * Usd, sellPrice |-> sellPrice, spread |-> spread,
    buyFee |-> 10, sellFee |-> 30, withdrawal |-> 1 * Usd ]

Good    == Quote(A, C, 104 * Usd, 400)         \* profitable
Losing  == Quote(C, B, 100 * Usd + Cent, 1)    \* the smallest spread: loses
Refused == Quote(B, A, 101 * Usd, 100)         \* refused while B has nothing
Absurd  == Quote(A, B, 200 * Usd, 10000)       \* fails validation
Garbled == [Good EXCEPT !.parses = FALSE]

AllKinds  == {Good, Losing, Refused, Absurd, Garbled}
Mixed    == {Good, Losing, Absurd}
OneKind  == {Losing}
=================================================================================
