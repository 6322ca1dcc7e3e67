--------------------------------- MODULE Pages ---------------------------------
(****************************************************************************)
(* What the pages show: Dashboard, Analytics, Opportunities and Trades of   *)
(* frontend/src/pages over the lists of the store, and Exchanges over what  *)
(* it asks for itself, and the navigation between them.  Each page is an    *)
(* operator of these, giving the figures and rows on the screen; its        *)
(* filters are parameters.  Layout, wording and colours are left out, and   *)
(* so is the latency of an exchange: nothing calls setExchangeStatus.       *)
(*                                                                          *)
(* Money is in tenths of a cent in the store and in cents on the screen.    *)
(****************************************************************************)
EXTENDS DashboardStore

VARIABLE exchangeInfo     \* the state `data' of Exchanges: by id, whether one is active

\* Math.round(x * 100) / 100
MathRound(x) == (x + 5) \div 10

\* x.toFixed(2): away from zero when half way.
ToFixed(x) == IF x < 0 THEN -((5 - x) \div 10) ELSE (x + 5) \div 10

NetPnl(ts) == SumFunction([n \in DOMAIN ts |-> ts[n].net_pnl])
----------------------------------------------------------------------------
(* Dashboard. *)

\* The first of the largest gross spread.
BestSpread(opps) ==
  FoldLeft(LAMBDA best, o : IF o.gross_spread_pct > best.gross_spread_pct THEN o ELSE best,
           opps[1], opps)

Dashboard ==
  [ totalPnl |-> ToFixed(NetPnl(trades)),
    found    |-> Len(opportunities),
    traded   |-> Len(trades),
    best     |-> IF opportunities = <<>> THEN 0 ELSE BestSpread(opportunities).gross_spread_pct,
    topRows  |-> Slice(opportunities, 5),
    lastRows |-> Slice(trades, 5) ]
----------------------------------------------------------------------------
(* Analytics. *)

\* Mutant of cumulativeData: the sum that is carried on is the rounded one.
cumulativeData_Rounded(ts) ==
  LET cum[n \in 0 .. Len(ts)] ==
        IF n = 0 THEN 0 ELSE 10 * MathRound(cum[n - 1] + ts[n].net_pnl)
  IN  [n \in 1 .. Len(ts) |-> cum[n] \div 10]

\* The points of the line, over the list as it is, newest trade first.
cumulativeData(ts) ==
  [n \in 1 .. Len(ts) |-> MathRound(NetPnl(SubSeq(ts, 1, n)))]

\* The bars: of each symbol, in the order they appear.
pairData(ts) ==
  LET symbols == {t.symbol : t \in ToSet(ts)}
      Of(p) == RowsAt(ts, {n \in DOMAIN ts : ts[n].symbol = p})
  IN  [p \in symbols |-> [netPnl |-> MathRound(NetPnl(Of(p))), count |-> Len(Of(p))]]

Analytics ==
  LET wins == Cardinality({n \in DOMAIN trades : trades[n].net_pnl > 0})
  IN  [ totalPnl |-> ToFixed(NetPnl(trades)),
        winRate  |-> IF trades = <<>> THEN 0
                     ELSE (200 * wins + Len(trades)) \div (2 * Len(trades)),
        wins     |-> wins,
        losses   |-> Len(trades) - wins,
        line     |-> cumulativeData(trades),
        bars     |-> pairData(trades) ]
----------------------------------------------------------------------------
(* Opportunities and Trades, with their filters.  A search text is the set of names
   that contain it, {} when the box is empty. *)

exchanges == UNION {{o.buy_exchange, o.sell_exchange} : o \in ToSet(opportunities)}

\* The exchange of the list box, or "all", and the slider in hundredths of a percent.
Opportunities(search, exF, minS) ==
  LET Passes(o) ==
        /\ search # {} => {o.symbol, o.buy_exchange, o.sell_exchange} \cap search # {}
        /\ exF # "all" => exF \in {o.buy_exchange, o.sell_exchange}
        /\ minS > 0 => o.gross_spread_pct >= minS
  IN  RowsAt(opportunities, {n \in DOMAIN opportunities : Passes(opportunities[n])})

Trades(search, stF) ==
  LET Passes(t) ==
        /\ search # {} => t.symbol \in search
        /\ stF # "all" => t.status = stF
      filtered == RowsAt(trades, {n \in DOMAIN trades : Passes(trades[n])})
  IN  [rows |-> filtered, totalPnl |-> ToFixed(NetPnl(filtered))]
----------------------------------------------------------------------------
(* Exchanges. *)

defaultExchanges ==
  [e \in {"binance", "bybit", "kucoin", "bitget", "gateio", "coinex", "bingx"} |-> e # "gateio"]

\* An answer with at least one exchange; any other, and a failed request, leaves the
\* defaults on the screen.
ExchangesAnswer(data) ==
  /\ DOMAIN data # {} /\ exchangeInfo' = data
  /\ UNCHANGED storeVars

Exchanges(activeOnly) ==
  [ onlineCount |-> Cardinality({e \in DOMAIN exchangeInfo : exchangeInfo[e]}),
    total       |-> Cardinality(DOMAIN exchangeInfo),
    entries     |-> {e \in DOMAIN exchangeInfo : activeOnly => exchangeInfo[e]} ]
----------------------------------------------------------------------------
(* Navigation: four lists that are kept apart, by the path of the page.  Labels are
   translated.  components/Sidebar is not in use yet. *)

\* The paths that App shows within Layout.
routes == {"dashboard", "opportunities", "trades", "analytics", "exchanges", "settings"}

navItems ==
  [dashboard |-> "Dashboard", opportunities |-> "Opportunities", trades |-> "Trades",
   analytics |-> "Analytics", exchanges |-> "Exchanges", settings |-> "Settings"]

pageTitles ==
  [dashboard |-> "Dashboard", opportunities |-> "Arbitrage opportunities",
   trades |-> "History of trades", analytics |-> "Analytics", exchanges |-> "Exchanges",
   settings |-> "Settings"]

menuItems ==
  [dashboard |-> "Dashboard", opportunities |-> "Opportunities", trades |-> "Trades",
   analytics |-> "Analytics", exchanges |-> "Exchanges", settings |-> "Settings"]

\* The entries that are marked, and the heading.
Layout(pathname) ==
  [ active |-> {p \in DOMAIN navItems : p = pathname},
    title  |-> IF pathname \in DOMAIN pageTitles THEN pageTitles[pathname] ELSE "" ]

\* An entry has its label beside its icon or, collapsed, as its title.
Sidebar(collapsed, pathname) ==
  [ active |-> {p \in DOMAIN menuItems : p = pathname},
    text   |-> [p \in DOMAIN menuItems |-> IF collapsed THEN "" ELSE menuItems[p]],
    title  |-> [p \in DOMAIN menuItems |-> IF collapsed THEN menuItems[p] ELSE ""] ]
----------------------------------------------------------------------------
(* Properties. *)

\* A figure on the screen is within half a cent of the sum it stands for.
Shows(cents, exact) == 10 * cents - exact \in -5 .. 5

\* The pages agree on the same trades: the total of Dashboard, of Analytics and of
\* Trades without a filter are one figure, the last point of the cumulative line is
\* that total too (no rounding adds up along the line), and the bars share it out to
\* the symbols without losing a trade, each bar within half a cent.
PnlAgrees ==
  LET total == NetPnl(trades)
      bars == Analytics.bars
  IN  /\ Dashboard.totalPnl = Analytics.totalPnl
      /\ Trades({}, "all").totalPnl = Analytics.totalPnl /\ Shows(Analytics.totalPnl, total)
      /\ trades # <<>> => Shows(Last(Analytics.line), total)
      /\ \A p \in DOMAIN bars :
           Shows(bars[p].netPnl, NetPnl(Trades({p}, "all").rows))
      /\ SumFunction([p \in DOMAIN bars |-> bars[p].count]) = Len(trades)
      /\ SumFunction([p \in DOMAIN bars |-> NetPnl(Trades({p}, "all").rows)]) = total

\* Every opportunity is shown under both of the exchanges the list box offers for it
\* and under a search for its symbol, and the best spread that Dashboard announces
\* is that of a row which the slider set to it still shows.  Of the exchanges, those
\* counted as active are those that "active only" leaves.
FiltersReach ==
  /\ \A o \in ToSet(opportunities) :
       /\ {o.buy_exchange, o.sell_exchange} \subseteq exchanges
       /\ \A e \in {o.buy_exchange, o.sell_exchange} : o \in ToSet(Opportunities({}, e, 0))
       /\ o \in ToSet(Opportunities({o.symbol}, "all", 0))
  /\ Opportunities({}, "all", 0) = opportunities
  /\ opportunities # <<>> => Opportunities({}, "all", Dashboard.best) # <<>>
  /\ Cardinality(Exchanges(TRUE).entries) = Exchanges(FALSE).onlineCount
  /\ Cardinality(Exchanges(FALSE).entries) = Exchanges(TRUE).total

\* Every page that App shows has a heading and exactly one entry, which is marked, in either
\* navigation; no entry leads elsewhere; and both say the same of it, in the open or as a
\* title.
NavigationAgrees ==
  \A r \in routes, collapsed \in BOOLEAN :
    LET sidebar == Sidebar(collapsed, r)
    IN  /\ Layout(r).title # "" /\ Layout(r).active = {r} /\ sidebar.active = {r}
        /\ DOMAIN navItems \cup DOMAIN menuItems \subseteq routes
        /\ {sidebar.text[r], sidebar.title[r]} = {"", navItems[r]}

\* The figures agree, the filters, and the navigation.
PagesAgree == PnlAgrees /\ FiltersReach /\ NavigationAgrees
====
