------------------------------- MODULE MCScanner -------------------------------
(* A small instance of Scanner. *)
EXTENDS Scanner

CONSTANTS A, B, C, BTC, ETH, SOL

Tick(symbol, exchange, bid) ==
  [symbol |-> symbol, exchange |-> exchange, bid |-> bid, ask |-> bid + 1]

\* The spread from 1000 to 1005 is 0.3996 %, that from 1000 to 1002 is 0.0999 %.
Quotes == {Tick(BTC, A, 1000), Tick(BTC, B, 1005), Tick(BTC, C, 1002),
           Tick(ETH, A, 1000), Tick(ETH, B, 1005), Tick(SOL, A, 1000)}
================================================================================
