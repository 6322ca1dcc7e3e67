------------------------------ MODULE PriceCache ------------------------------
(****************************************************************************)
(* scanner/spread_calculator.py: the cache of the latest prices and the     *)
(* spreads computed from it.  A tick is [symbol, exchange, bid, ask, at],   *)
(* `at' being its timestamp.  A cache is the OrderedDict _data: a sequence  *)
(* of [symbol, ticks], least recently updated symbol first, whose ticks are *)
(* those of its exchanges in the order in which the exchanges came in.      *)
(****************************************************************************)
EXTENDS SequencesExt, Integers

CONSTANTS
  MAX_CACHE_SYMBOLS, MAX_CACHE_EXCHANGES,
  max_age,           \* max_age_ms, in units of the clock
  min_spread_pct     \* in units of 0.0001 %: 1000 in scanner/main.py

ASSUME CacheAssumption ==
  /\ MAX_CACHE_SYMBOLS \in Nat \ {0} /\ MAX_CACHE_EXCHANGES \in Nat \ {0}
  /\ max_age \in Nat /\ min_spread_pct \in Nat \ {0}
-------------------------------------------------------------------------------
(* PriceCache.update *)

Oldest(ticks) ==
  CHOOSE i \in DOMAIN ticks :
    \A j \in DOMAIN ticks : ticks[i].at < ticks[j].at \/ (ticks[i].at = ticks[j].at /\ i <= j)

\* The ticks of a symbol, with one of the same exchange replaced, or the oldest one
\* evicted when there are too many.
WithTick(ticks, tick) ==
  LET same == {i \in DOMAIN ticks : ticks[i].exchange = tick.exchange}
      kept == IF Len(ticks) >= MAX_CACHE_EXCHANGES THEN RemoveAt(ticks, Oldest(ticks)) ELSE ticks
  IN  IF same # {}
        THEN [i \in DOMAIN ticks |-> IF i \in same THEN tick ELSE ticks[i]]
        ELSE Append(kept, tick)

\* Mutant of update: a symbol that is updated keeps its place (no move_to_end).
update_InPlace(cache, tick) ==
  LET old == SelectInSeq(cache, LAMBDA c : c.symbol = tick.symbol)
  IN  IF old = 0
        THEN Append(IF Len(cache) >= MAX_CACHE_SYMBOLS THEN Tail(cache) ELSE cache,
                    [symbol |-> tick.symbol, ticks |-> <<tick>>])
        ELSE [cache EXCEPT ![old].ticks = WithTick(@, tick)]

\* The symbol moves to the end; a new one evicts the first when there are too many.
update(cache, tick) ==
  LET old == SelectInSeq(cache, LAMBDA c : c.symbol = tick.symbol)
  IN  IF old = 0
        THEN Append(IF Len(cache) >= MAX_CACHE_SYMBOLS THEN Tail(cache) ELSE cache,
                    [symbol |-> tick.symbol, ticks |-> <<tick>>])
        ELSE Append(RemoveAt(cache, old),
                    [symbol |-> tick.symbol, ticks |-> WithTick(cache[old].ticks, tick)])
-------------------------------------------------------------------------------
(* Spreads. *)

\* Mutant of get_active_prices: the age is not looked at.
get_active_prices_All(ticks, now) == ticks

get_active_prices(ticks, now) ==
  FlattenSeq([i \in DOMAIN ticks |-> IF now - ticks[i].at <= max_age THEN <<ticks[i]>> ELSE <<>>])

\* (bid - ask) / ask * 100, quantized to 0.0001; only positive ones are opportunities.
gross_spread_pct(buy, sell) ==
  LET gain == sell.bid - buy.ask
  IN  IF gain <= 0 THEN 0 ELSE (2 * gain * 1000000 + buy.ask) \div (2 * buy.ask)

\* The opportunity of buying at one tick and selling at the other, if there is one.
calculate_spread(buy, sell, now) ==
  IF gross_spread_pct(buy, sell) >= min_spread_pct
    THEN <<[buy |-> buy, sell |-> sell, detected |-> now]>> ELSE <<>>

\* Every pair of exchanges of a symbol once, in both directions.
Spreads(ticks, now) ==
  LET both(a, b) == calculate_spread(a, b, now) \o calculate_spread(b, a, now)
  IN  FlattenSeq([i \in DOMAIN ticks |->
        FlattenSeq([j \in 1 .. (Len(ticks) - i) |-> both(ticks[i], ticks[i + j])])])

calculate_all_spreads(cache, now) ==
  FlattenSeq([c \in DOMAIN cache |-> Spreads(get_active_prices(cache[c].ticks, now), now)])
===============================================================================
