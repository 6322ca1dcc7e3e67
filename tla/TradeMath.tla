------------------------------ MODULE TradeMath ------------------------------
(****************************************************************************)
(* The arithmetic of a paper trade: executor/validation.py, executor/pnl.py *)
(* and the amounts that executor/balance.py books.                          *)
(*                                                                          *)
(* The code computes with Decimal and quantizes every result, so integers   *)
(* in the quantum of each quantity represent it exactly (prices, which are  *)
(* never quantized, are taken to be whole numbers of 1/10000 USDT):         *)
(*   money (USDT) and prices   1/10000 USDT  (quantize 0.0001)              *)
(*   percentages               basis points  (0.01 %)                       *)
(*   crypto                    1/CryptoScale of a coin (10^8 in the code)   *)
(****************************************************************************)
EXTENDS Integers

CONSTANTS
  CryptoScale,  \* quanta in one coin
  NoSymbol,     \* a symbol that is empty or has no "/"
  NoExchange    \* an exchange field that is missing or empty

ASSUME CryptoScaleAssumption == CryptoScale \in Nat \ {0}

Usd == 10000     \* one USDT
Cent == 100      \* 0.01 USDT
----------------------------------------------------------------------------
(* Limits of validation.py and pnl.py. *)
MIN_TRADE_AMOUNT_USDT == 10 * Usd
MAX_TRADE_AMOUNT_USDT == 100000 * Usd
MIN_SPREAD == 1          \* 0.01 %
MAX_SPREAD == 1000       \* 10 %
SLIPPAGE == 10 .. 30     \* what calculate_slippage can return: 0.1 % .. 0.3 %
----------------------------------------------------------------------------
\* Decimal.quantize(..., ROUND_HALF_UP) of the fraction n/d: to the nearest
\* quantum, a tie away from zero.
HalfUp(n, d) ==
  IF n >= 0 THEN (2 * n + d) \div (2 * d) ELSE -((d - 2 * n) \div (2 * d))

\* Mutant of Percent: the division of a percentage by 100 is forgotten.
Percent_NotDivided(amount, bp) == HalfUp(amount * bp, 100)

\* A basis-point percentage of an amount of money.
Percent(amount, bp) == HalfUp(amount * bp, 10000)

\* The opportunity may be executed. The order of the code's early returns only
\* chooses the message.
validate_opportunity(o) ==
  /\ o.symbol # NoSymbol
  /\ o.buy # NoExchange /\ o.sell # NoExchange
  /\ o.buy # o.sell
  /\ o.buyPrice > 0 /\ o.sellPrice > 0
  /\ o.sellPrice > o.buyPrice
  /\ o.spread \in MIN_SPREAD .. MAX_SPREAD

validate_trade_amount(amount, balance) ==
  /\ amount >= MIN_TRADE_AMOUNT_USDT
  /\ amount <= MAX_TRADE_AMOUNT_USDT
  /\ amount <= balance

\* 10 % of the balance to the cent, and never less than $10.
calculate_trade_amount(balance) ==
  LET tenth == Cent * HalfUp(balance, 10 * Cent)
  IN  IF tenth < 10 * Usd THEN 10 * Usd ELSE tenth

\* Mutant of check_max_position: the whole balance instead of 10 % of it.
check_max_position_Whole(balance, amount) == amount <= balance

\* The position is at most 10 % of the (unrounded) balance.
check_max_position(balance, amount) == 10 * amount <= balance

\* The three checks of _process_opportunity between the balance it read and
\* the trade: a positive balance, an admissible amount, the position limit.
Tradable(balance) ==
  LET amount == calculate_trade_amount(balance)
  IN  /\ balance > 0
      /\ validate_trade_amount(amount, balance)
      /\ check_max_position(balance, amount)

\* Result of calculate_pnl for the slippage that calculate_slippage drew.
\* withdrawal is a whole number of quanta, so the last quantize is exact.
calculate_pnl(o, amount, slippage) ==
  LET crypto  == HalfUp(amount * CryptoScale, o.buyPrice)
      buyFee  == Percent(amount, o.buyFee)
      sellFee == Percent(amount, o.sellFee)
      gross   == HalfUp((o.sellPrice - o.buyPrice) * crypto, CryptoScale)
  IN  [ amount  |-> amount,
        crypto  |-> crypto,
        buyFee  |-> buyFee,
        sellFee |-> sellFee,
        net     |-> gross - (buyFee + sellFee + o.withdrawal
                               + Percent(amount, slippage)) ]

\* What update_balance_after_trade takes from the USDT of the buying exchange
\* and adds to the USDT of the selling one.
BuyerPays(t)  == t.amount + t.buyFee
SellerGets(t) == t.amount + t.net - t.sellFee
----------------------------------------------------------------------------
(* A property of the arithmetic, proved in ExecutorProofs. *)

\* A balance trades exactly when it is at least $100, its 10 % rounds down to the
\* cent, and its position is below the maximum: the three checks of
\* _process_opportunity accept about half of the balances that have $100.
TradableExactly(balance) ==
  Tradable(balance) <=> /\ balance >= 100 * Usd
                        /\ balance % (10 * Cent) < 5 * Cent
                        /\ balance \div (10 * Cent) <= MAX_TRADE_AMOUNT_USDT \div Cent
=============================================================================
