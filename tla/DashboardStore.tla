----------------------------- MODULE DashboardStore -----------------------------
(****************************************************************************)
(* The store of the dashboard, frontend/src/store/dashboardStore.ts: lists  *)
(* that answers of the gateway replace and live messages prepend to.        *)
(*                                                                          *)
(* A row is a record with the fields some page computes with; amounts of    *)
(* money are in tenths of a cent.  The connection flag of the store is with *)
(* UseWebSocket.  Left out: lastUpdated and the times of rows, which are    *)
(* only printed.                                                            *)
(****************************************************************************)
EXTENDS Integers, SequencesExt, FiniteSets, Lists

CONSTANTS
  OppRows, TradeRows,       \* the rows that answers and messages may hold
  MaxPrices, MaxOpportunities, MaxTrades,  \* 1000, 100 and 500 in the code
  AnswerLimit,              \* the limit of the two requests, 50
  MaxHeard                  \* bound on the rows of a list's history

ASSUME StoreAssumption ==
  /\ \A r \in OppRows :
       /\ DOMAIN r = {"id", "symbol", "buy_exchange", "sell_exchange", "gross_spread_pct"}
       /\ r.gross_spread_pct \in Int
  /\ \A r \in TradeRows :
       DOMAIN r = {"id", "symbol", "net_pnl", "status"} /\ r.net_pnl \in Int
  /\ {MaxPrices, MaxOpportunities, MaxTrades, MaxHeard} \subseteq Nat \ {0}
  /\ AnswerLimit \in 0 .. MaxOpportunities /\ AnswerLimit <= MaxTrades

VARIABLES
  prices,         \* how many ticks are kept; no page reads them
  opportunities, trades,
  balances,       \* an answer of /balance was kept; no page reads it
  (* History: read by no action. *)
  heardOpps, heardTrades  \* since the answer shown, all rows, newest first

storeVars == <<prices, opportunities, trades, balances, heardOpps, heardTrades>>

StoreInit ==
  /\ prices = 0 /\ opportunities = <<>> /\ trades = <<>> /\ balances = FALSE
  /\ heardOpps = <<>> /\ heardTrades = <<>>

Smaller(m, n) == IF m < n THEN m ELSE n
Slice(s, n) == SubSeq(s, 1, Smaller(n, Len(s)))

\* Mutant of Prepended: no filter, as in addPrice.
Prepended_Twice(row, rows, limit) == Slice(<<row>> \o rows, limit)

\* [row, ...rows.filter((r) => r.id !== row.id)].slice(0, limit)
Prepended(row, rows, limit) ==
  Slice(<<row>> \o RowsAt(rows, {i \in DOMAIN rows : rows[i].id # row.id}), limit)

\* Answers of the gateway: at most AnswerLimit rows, no two of the same id.
Answers(Rows) ==
  UNION { { s \in [1 .. n -> Rows] : \A i, j \in 1 .. n : s[i].id = s[j].id => i = j } :
          n \in 0 .. AnswerLimit }
----------------------------------------------------------------------------
AddPrice ==
  /\ prices' = Smaller(prices + 1, MaxPrices)
  /\ UNCHANGED <<opportunities, trades, balances, heardOpps, heardTrades>>

AddOpportunity(row) ==
  /\ Len(heardOpps) < MaxHeard /\ heardOpps' = <<row>> \o heardOpps
  /\ opportunities' = Prepended(row, opportunities, MaxOpportunities)
  /\ UNCHANGED <<prices, trades, balances, heardTrades>>

AddTrade(row) ==
  /\ Len(heardTrades) < MaxHeard /\ heardTrades' = <<row>> \o heardTrades
  /\ trades' = Prepended(row, trades, MaxTrades)
  /\ UNCHANGED <<prices, opportunities, balances, heardOpps>>

\* useWebSocket's onmessage: what it does with a message of each type.  Every socket
\* of the page that is open hands over its copy of a message.
Receive ==
  \/ AddPrice
  \/ \E row \in OppRows : AddOpportunity(row)
  \/ \E row \in TradeRows : AddTrade(row)

\* An answer without rows, and a request that fails, leave the list as it is.  The
\* request of an answer may be older than the messages heard since.
FetchOpportunities(items) ==
  /\ items # <<>> /\ opportunities' = items /\ heardOpps' = items
  /\ UNCHANGED <<prices, trades, balances, heardTrades>>

FetchTrades(items) ==
  /\ items # <<>> /\ trades' = items /\ heardTrades' = items
  /\ UNCHANGED <<prices, opportunities, balances, heardOpps>>

FetchBalance ==
  /\ balances' = TRUE
  /\ UNCHANGED <<prices, opportunities, trades, heardOpps, heardTrades>>

\* The requests of fetchAll are answered one by one.
FetchAll ==
  \/ \E items \in Answers(OppRows) : FetchOpportunities(items)
  \/ \E items \in Answers(TradeRows) : FetchTrades(items)
  \/ FetchBalance

StoreNext == Receive \/ FetchAll

StoreSpec == StoreInit /\ [][StoreNext]_storeVars
----------------------------------------------------------------------------
(* Properties. *)

\* The rows of a history that are the newest of their id, in their order.
Newest(heard) ==
  RowsAt(heard, {i \in DOMAIN heard : \A j \in 1 .. i - 1 : heard[j].id # heard[i].id})

\* Whatever is cut off along the way (lines 91-97), a list shows the most recent of
\* the different rows in the last answer and the messages since, each once and as it
\* was last reported: a row cut off and reported again is at the front, a row that
\* moved to the front pushes no other out, and React's keys are unique.
ListsAreLatest ==
  /\ opportunities = Slice(Newest(heardOpps), MaxOpportunities)
  /\ trades = Slice(Newest(heardTrades), MaxTrades)
====
