------------------------------- MODULE MCScreens -------------------------------
(****************************************************************************)
(* The screens of the frontend that share no state, one per behaviour:      *)
(* `screen' is chosen at the start and only its actions occur, while the    *)
(* state of the others stands still.                                        *)
(****************************************************************************)
EXTENDS Pages, SettingsPage, UiSidebar, UiCarousel, UiShown

vars == <<shownVars, storeVars, exchangeInfo, settingsVars, sidebarVars, carouselVars>>

(* Values of the constants. *)

MCOpp(n, sym, buy, sell, spread) ==
  [id |-> n, symbol |-> sym, buy_exchange |-> buy, sell_exchange |-> sell,
   gross_spread_pct |-> spread]

MCOppRows ==
  {MCOpp(1, "BTC", "binance", "bybit", 50), MCOpp(1, "BTC", "binance", "bybit", 90),
   MCOpp(2, "ETH", "bybit", "kucoin", 90), MCOpp(3, "BTC", "kucoin", "binance", 20)}

MCTrade(n, sym, pnl, state) == [id |-> n, symbol |-> sym, net_pnl |-> pnl, status |-> state]

MCTradeRows ==
  {MCTrade(1, "BTC", 4, "filled"), MCTrade(2, "ETH", 4, "filled"),
   MCTrade(3, "BTC", -25, "failed"), MCTrade(4, "BTC", 4, "filled")}

MCDefault == [k \in Keys |-> IF k = "spread" THEN 1 ELSE 2]
----------------------------------------------------------------------------
(* Inputs of the components without state. *)

\* A configuration by series, and one by the text of the data's field "browser".
Entry(label, color, theme) == [label |-> label, icon |-> None, color |-> color, theme |-> theme]
Configs ==
  {[k \in ks |-> Entry(k \o "!", look[1], look[2])] :
     ks \in {{"desktop"}, {"desktop", "mobile"}, {"chrome", "visitors"}},
     look \in {<<None, None>>, <<"red", None>>, <<None, [t \in THEMES |-> t]>>}}

\* A series as an item of the tooltip and as one of the legend, in which `value' is the
\* text of its name.
Series(dataKey, name, type, row) ==
  LET texts == [f \in {"dataKey", "name", "type", "color"} |->
                  CASE f = "dataKey" -> dataKey [] f = "name" -> name
                    [] f = "type" -> type [] OTHER -> "desktop"]
  IN  [ tip |-> [own |-> texts, row |-> row],
        mark |-> [own |-> [f \in {"dataKey", "value", "type", "color"} |->
                             IF f = "value" THEN name ELSE texts[f]], row |-> row] ]

\* A series without a name of its own, one with, one that is hidden, and one in whose data
\* the field "browser" holds the name of the entry.
Charts ==
  LET bar == Series("desktop", "desktop", "bar", [f \in {"color"} |-> "mobile"])
      named == Series("mobile", "Phones", "bar", [f \in {} |-> ""])
      hidden == Series("desktop", "desktop", "none", [f \in {} |-> ""])
      slice == Series("visitors", "visitors", "pie",
                      [f \in {"browser", "fill"} |-> IF f = "browser" THEN "chrome" ELSE "blue"])
  IN  {<<>>, <<bar>>, <<bar, named>>, <<hidden, bar>>, <<slice>>, <<slice, slice>>}

\* A nameKey may be a field of the data or, as "color", one that the items have too.
ChartInputs ==
  {[ config |-> config,
     p |-> [look EXCEPT !.payload = [i \in DOMAIN chart |-> chart[i].tip],
                        !.legend = [i \in DOMAIN chart |-> chart[i].mark]] ] :
     config \in Configs, chart \in Charts,
     look \in [payload : {<<>>}, legend : {<<>>}, active : BOOLEAN, hideLabel : BOOLEAN,
               indicator : {"dot", "line"}, label : {None, "January", "desktop"},
               labelKey : {None, "browser"}, nameKey : {None, "browser", "color"},
               legendNameKey : {None, "browser", "color"}, color : {None}]}

Messages == {Absent, Blank, "required", "too short"}

FormInputs ==
  [id : {1}, name : {"pair"}, errors : [{"pair", "limit"} -> Messages],
   children : {Absent, "a hint"}, placed : SUBSET {"description", "message"}]

FieldInputs ==
  [children : {Absent, Blank, "see below"},
   errors : UNION {[1 .. n -> Messages] : n \in 0 .. 3}]

SliderInputs ==
  [value : {Absent, <<>>, <<10>>, <<10, 20, 30>>}, defaultValue : {Absent, <<5>>, <<5, 15>>}]

Looks == [{"variant", "size"} -> {Absent, "one", "other"}]
ToggleInputs == [group : Looks, items : {{a, b} : a, b \in Looks}]

CalendarInputs == [from : 1 .. 3, to : 1 .. 3, ranged : BOOLEAN]
----------------------------------------------------------------------------
Inputs ==
  CASE screen = "chart"    -> ChartInputs
    [] screen = "form"     -> FormInputs
    [] screen = "field"    -> FieldInputs
    [] screen = "slider"   -> SliderInputs
    [] screen = "toggles"  -> ToggleInputs
    [] screen = "calendar" -> CalendarInputs
    [] OTHER               -> {None}

\* The state of a screen that is not the one shown stands at one of its initial states.
Init ==
  /\ screen \in {"opportunities", "trades", "settings", "sidebar", "carousel",
                 "chart", "form", "field", "slider", "toggles", "calendar"}
  /\ input \in Inputs /\ Given
  /\ StoreInit /\ exchangeInfo = defaultExchanges
  /\ SettingsInit
  /\ screen # "settings" => stored = Default
  /\ SidebarInit
  /\ screen # "sidebar" => parent = "none" /\ collapsible = "none" /\ ~narrow /\ open
  /\ CarouselInit
  /\ screen # "carousel" => slides = 0 /\ orientation = "horizontal"

\* The opportunities of the store or its trades, which share no action.
ListsNext ==
  /\ screen \in {"opportunities", "trades"}
  /\ StoreNext /\ UNCHANGED exchangeInfo
  /\ IF screen = "opportunities"
     THEN UNCHANGED <<trades, heardTrades>>
     ELSE UNCHANGED <<prices, balances, opportunities, heardOpps>>

\* The page of the exchanges, before the lists hold anything.
ExchangesNext ==
  /\ screen = "opportunities" /\ heardOpps = <<>>
  /\ \E known \in SUBSET {"binance", "gateio", "bybit"} :
       \E data \in [known -> BOOLEAN] : ExchangesAnswer(data)

Next ==
  /\ \/ /\ ListsNext \/ ExchangesNext
        /\ UNCHANGED <<settingsVars, sidebarVars, carouselVars>>
     \/ /\ screen = "settings" /\ SettingsNext
        /\ UNCHANGED <<storeVars, exchangeInfo, sidebarVars, carouselVars>>
     \/ /\ screen = "sidebar" /\ SidebarNext
        /\ UNCHANGED <<storeVars, exchangeInfo, settingsVars, carouselVars>>
     \/ /\ screen = "carousel" /\ CarouselNext
        /\ UNCHANGED <<storeVars, exchangeInfo, settingsVars, sidebarVars>>
  /\ UNCHANGED shownVars

Spec == Init /\ [][Next]_vars
====
