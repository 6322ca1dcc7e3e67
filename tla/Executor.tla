------------------------------- MODULE Executor -------------------------------
(*****************************************************************************)
(* The executor service: the engine task of executor/paper_trading.py, the   *)
(* start-up, shutdown and kill-switch handlers of executor/main.py, the      *)
(* virtual balances of executor/balance.py, the dead-letter stream of        *)
(* executor/dead_letter.py, and what they need of Redis and TimescaleDB.     *)
(*                                                                           *)
(* asyncio runs one task at a time, so a step of the engine goes from one    *)
(* await to the next: an action performs the effect of the call the engine   *)
(* awaits (named by pc) and the code after it up to the next await.  HTTP    *)
(* handlers, the scanner, faults and crashes happen in between.              *)
(*                                                                           *)
(* A stream entry is named by its position.  The consumer group delivers a   *)
(* contiguous run of entries, so the batch the engine holds is at .. group:  *)
(* `at' is the entry it processes, or will process next.                     *)
(*****************************************************************************)
EXTENDS TradeMath, Sequences, Functions

CONSTANTS
  Exchanges,       \* keys of INITIAL_BALANCES
  Assets,          \* base assets of the traded pairs
  Opportunity,     \* what may be appended to the stream "opportunities"
  InitialBalance,  \* INITIAL_BALANCES[e]["USDT"]; the crypto starts at 0
  Slippage,        \* what calculate_slippage may draw
  ReadCount,       \* count= of the xreadgroup call (10 in the code)
  MaxStream,       \* bound on the entries ever published
  MaxErrors,       \* bound on failed calls
  MaxCrashes,      \* bound on the ends of the process
  MaxKills         \* bound on kill switch activations

USDT == "USDT"

ASSUME ExecutorAssumption ==
  /\ USDT \notin Assets
  /\ InitialBalance \in [Exchanges -> Nat]
  /\ Slippage \subseteq SLIPPAGE /\ Slippage # {}
  /\ ReadCount \in Nat \ {0}
  /\ {MaxStream, MaxErrors, MaxCrashes, MaxKills} \subseteq Nat
  /\ Opportunity \subseteq
       [ parses : BOOLEAN,                      \* every number is a Decimal
         symbol : Assets \cup {NoSymbol},       \* the base asset of the pair
         buy : Exchanges \cup {NoExchange}, sell : Exchanges \cup {NoExchange},
         buyPrice : Int, sellPrice : Int, spread : Int,
         buyFee : Nat, sellFee : Nat, withdrawal : Nat ]

VARIABLES
  (* Redis and TimescaleDB: outlive the process. *)
  stream,          \* the stream "opportunities"
  group,           \* last entry delivered to group executor-cg; none is XACKed
  funded,          \* exchanges whose key balance:<exchange> exists
  balance,         \* balance[e][asset]
  trades,          \* the stream "trades"
  saved,           \* opportunity entries with a row in table trades
  deadLetters,     \* the stream "dead_letter_trades" (entry names)
  (* The process. *)
  pc,              \* where the engine task waits
  at,              \* entry being processed, or the next one of the batch
  trade,           \* the trade of entry `at' once its P&L is computed
  seen,            \* balances that update_balance_after_trade read
  killSwitch,      \* engine.kill_switch and app_status["kill_switch_active"]
  tradesExecuted,  \* engine.trades_executed
  totalPnl,        \* engine.total_pnl
  (* History: read by no action. *)
  applied,         \* the trades whose balance update reached Redis
  ordered,         \* the operator activated the kill switch and did not reset it
  sinceKill,       \* trades published since the last activation
  (* Bounds. *)
  errors, crashes, kills

redis    == <<stream, group, funded, balance, deadLetters>>
ledger   == <<trades, saved, applied>>
engine   == <<at, trade, seen, tradesExecuted, totalPnl>>
operator == <<killSwitch, ordered, kills>>
vars == <<redis, ledger, pc, engine, operator, sinceKill, errors, crashes>>

NoTrade == [amount |-> 0, crypto |-> 0, buyFee |-> 0, sellFee |-> 0, net |-> 0]
Trades  == [amount : Nat, crypto : Nat, buyFee : Nat, sellFee : Nat, net : Int]
Booked  == [id : Nat \ {0}, trade : Trades]
Holding == [{USDT} \cup Assets -> Int]
Nothing == [a \in {USDT} \cup Assets |-> 0]

Here == stream[at]      \* the opportunity being processed

Init ==
  /\ stream = <<>> /\ group = 0
  /\ funded = {} /\ balance = [e \in Exchanges |-> Nothing]
  /\ trades = <<>> /\ saved = {} /\ deadLetters = <<>>
  /\ pc = "down" /\ at = 1 /\ trade = NoTrade
  /\ seen = [buy |-> Nothing, sell |-> Nothing]
  /\ killSwitch = FALSE /\ tradesExecuted = 0 /\ totalPnl = 0
  /\ applied = <<>> /\ ordered = FALSE /\ sinceKill = 0
  /\ errors = 0 /\ crashes = 0 /\ kills = 0
-------------------------------------------------------------------------------
(* Start-up and the end of the process. *)

\* lifespan, up to the creation of the engine task: the balances of exchanges
\* that have none are set one by one; an exception, or the end of the process,
\* leaves some of them set.  The engine starts with its kill switch off.
Boot ==
  /\ pc = "down"
  /\ \E done \in SUBSET (Exchanges \ funded) :
       /\ funded' = funded \cup done
       /\ balance' = [e \in Exchanges |->
            IF e \in done THEN [Nothing EXCEPT ![USDT] = InitialBalance[e]]
                          ELSE balance[e]]
       /\ \/ /\ funded' = Exchanges
             /\ pc' = "group"
             /\ UNCHANGED errors
          \/ /\ errors < MaxErrors
             /\ errors' = errors + 1
             /\ pc' = "down"
  /\ UNCHANGED <<stream, group, deadLetters, ledger, engine,
                 operator, sinceKill, crashes>>

\* start(): xgroup_create from the first entry on (group = 0 at first); "already
\* exists" is not an error.
CreateGroup ==
  /\ pc = "group"
  /\ pc' = "loop"
  /\ UNCHANGED <<redis, ledger, engine, operator, sinceKill, errors, crashes>>

\* Any other exception leaves start(): the engine task is over, the service is not.
CreateGroupFails ==
  /\ pc = "group"
  /\ errors < MaxErrors /\ errors' = errors + 1
  /\ pc' = "dead"
  /\ UNCHANGED <<redis, ledger, engine, operator, sinceKill, crashes>>

\* Mutant of Crash: the restarted engine takes up its last delivered entry again.
Crash_Redelivers ==
  /\ pc # "down"
  /\ crashes < MaxCrashes /\ crashes' = crashes + 1
  /\ pc' = "down"
  /\ at' = (IF group = 0 THEN 1 ELSE group) /\ trade' = NoTrade
  /\ seen' = [buy |-> Nothing, sell |-> Nothing]
  /\ killSwitch' = FALSE /\ tradesExecuted' = 0 /\ totalPnl' = 0
  /\ UNCHANGED <<redis, ledger, ordered, kills, sinceKill, errors>>

\* The process ends: a crash, or the shutdown branch of lifespan, which cancels
\* the engine task at the await it is in (CancelledError is not an Exception,
\* so no handler of _process_opportunity runs).  Memory is lost.
Crash ==
  /\ pc # "down"
  /\ crashes < MaxCrashes /\ crashes' = crashes + 1
  /\ pc' = "down"
  /\ at' = group + 1 /\ trade' = NoTrade
  /\ seen' = [buy |-> Nothing, sell |-> Nothing]
  /\ killSwitch' = FALSE /\ tradesExecuted' = 0 /\ totalPnl' = 0
  /\ UNCHANGED <<redis, ledger, ordered, kills, sinceKill, errors>>
-------------------------------------------------------------------------------
(* The other actors: the scanner and the operator. *)

\* External: the scanner (or a test) appends to the stream.
Publish ==
  /\ Len(stream) < MaxStream
  /\ \E o \in Opportunity : stream' = Append(stream, o)
  /\ UNCHANGED <<group, funded, balance, deadLetters, ledger, pc,
                 engine, operator, sinceKill, errors, crashes>>

Serving == pc # "down"

\* POST /killswitch
Kill ==
  /\ Serving
  /\ kills < MaxKills /\ kills' = kills + 1
  /\ killSwitch' = TRUE /\ ordered' = TRUE /\ sinceKill' = 0
  /\ UNCHANGED <<redis, ledger, pc, engine, errors, crashes>>

\* POST /killswitch/reset
Reset ==
  /\ Serving
  /\ killSwitch' = FALSE /\ ordered' = FALSE
  /\ UNCHANGED <<redis, ledger, pc, engine, kills, sinceKill, errors, crashes>>
-------------------------------------------------------------------------------
(* The engine loop. *)

\* Mutant of Poll: the kill switch is not consulted.
Poll_IgnoresKillSwitch ==
  /\ pc = "loop" /\ at > group
  /\ pc' = "read"
  /\ UNCHANGED <<redis, ledger, engine, operator, sinceKill, errors, crashes>>

\* Top of `while self.running': with the kill switch on it sleeps and comes
\* back here, otherwise it calls xreadgroup.
Poll ==
  /\ pc = "loop" /\ at > group
  /\ ~killSwitch
  /\ pc' = "read"
  /\ UNCHANGED <<redis, ledger, engine, operator, sinceKill, errors, crashes>>

Least(a, b) == IF a <= b THEN a ELSE b
AfterRead == Least(group + ReadCount, Len(stream))   \* the group after a delivery

\* xreadgroup returns up to ReadCount undelivered entries, or none after 500 ms.
Read ==
  /\ pc = "read"
  /\ group' = AfterRead
  /\ at' = group + 1
  /\ pc' = "loop"
  /\ UNCHANGED <<stream, funded, balance, deadLetters, ledger, trade,
                 seen, tradesExecuted, totalPnl, operator, sinceKill,
                 errors, crashes>>

\* xreadgroup raises; the server may have delivered entries all the same, and
\* nobody reads the group's pending list.
ReadFails ==
  /\ pc = "read"
  /\ errors < MaxErrors /\ errors' = errors + 1
  /\ group' \in {group, AfterRead}
  /\ at' = group' + 1
  /\ pc' = "loop"
  /\ UNCHANGED <<stream, funded, balance, deadLetters, ledger, trade,
                 seen, tradesExecuted, totalPnl, operator, sinceKill, crashes>>

\* _process_opportunity returns: the loop goes to the next entry.
Done ==
  /\ at' = at + 1
  /\ pc' = "loop"
  /\ trade' = NoTrade
  /\ seen' = [buy |-> Nothing, sell |-> Nothing]

\* ... because a call raised and `except Exception' logged it.
Abandon ==
  /\ errors < MaxErrors /\ errors' = errors + 1
  /\ Done

\* Start of _process_opportunity: parse, then validate.
Validate ==
  /\ pc = "loop" /\ at <= group
  /\ \/ ~Here.parses /\ Done
     \/ /\ Here.parses /\ ~validate_opportunity(Here)
        /\ pc' = "dlq" /\ UNCHANGED <<at, trade, seen>>
     \/ /\ Here.parses /\ validate_opportunity(Here)
        /\ pc' = "balance" /\ UNCHANGED <<at, trade, seen>>
  /\ UNCHANGED <<redis, ledger, tradesExecuted, totalPnl, operator, sinceKill, errors, crashes>>

\* Mutant of DeadLetter: `return' is missing and the trade goes on.
DeadLetter_GoesOn ==
  /\ pc = "dlq"
  /\ deadLetters' = Append(deadLetters, at)
  /\ pc' = "balance"
  /\ UNCHANGED <<stream, group, funded, balance, ledger, engine,
                 operator, sinceKill, errors, crashes>>

\* Mutant of DeadLetter: a refused entry is tried again.
DeadLetter_Retries ==
  /\ pc = "dlq"
  /\ pc' = "loop"
  /\ UNCHANGED <<redis, ledger, engine, operator, sinceKill, errors, crashes>>

\* dlq.add
DeadLetter ==
  /\ pc = "dlq"
  /\ deadLetters' = Append(deadLetters, at)
  /\ Done
  /\ UNCHANGED <<stream, group, funded, balance, ledger, tradesExecuted,
                 totalPnl, operator, sinceKill, errors, crashes>>

DeadLetterFails ==
  /\ pc = "dlq"
  /\ deadLetters' \in {deadLetters, Append(deadLetters, at)}
  /\ Abandon
  /\ UNCHANGED <<stream, group, funded, balance, ledger, tradesExecuted,
                 totalPnl, operator, sinceKill, crashes>>

\* get_balance, the three checks on the position, and calculate_pnl with the
\* slippage it draws.  A refused position is only logged.
GetBalance ==
  /\ pc = "balance"
  /\ LET usdt == balance[Here.buy][USDT]
     IN  \/ /\ ~Tradable(usdt)
            /\ Done
         \/ /\ Tradable(usdt)
            /\ \E slippage \in Slippage :
                 trade' = calculate_pnl(Here, calculate_trade_amount(usdt), slippage)
            /\ pc' = "publish"
            /\ UNCHANGED <<at, seen>>
  /\ UNCHANGED <<redis, ledger, tradesExecuted, totalPnl, operator, sinceKill, errors, crashes>>

GetBalanceFails ==
  /\ pc = "balance"
  /\ Abandon
  /\ UNCHANGED <<redis, ledger, tradesExecuted, totalPnl, operator, sinceKill, crashes>>

AppendTrade ==
  /\ trades' = Append(trades, [id |-> at, trade |-> trade])
  /\ sinceKill' = IF ordered THEN sinceKill + 1 ELSE sinceKill

\* Mutant of PublishTrade: the trade is not saved.
PublishTrade_SkipsSave ==
  /\ pc = "publish"
  /\ AppendTrade
  /\ pc' = "update"
  /\ UNCHANGED <<redis, saved, applied, engine, operator, errors, crashes>>

\* xadd to the stream "trades".
PublishTrade ==
  /\ pc = "publish"
  /\ AppendTrade
  /\ pc' = "save"
  /\ UNCHANGED <<redis, saved, applied, engine, operator, errors, crashes>>

\* Mutant of PublishTradeFails: the exception is caught around the xadd only.
PublishTradeFails_GoesOn ==
  /\ pc = "publish"
  /\ AppendTrade \/ UNCHANGED <<trades, sinceKill>>
  /\ errors < MaxErrors /\ errors' = errors + 1
  /\ pc' = "save"
  /\ UNCHANGED <<redis, saved, applied, engine, operator, crashes>>

\* The xadd raises, with or without effect: the rest of the trade is skipped.
PublishTradeFails ==
  /\ pc = "publish"
  /\ AppendTrade \/ UNCHANGED <<trades, sinceKill>>
  /\ Abandon
  /\ UNCHANGED <<redis, saved, applied, tradesExecuted, totalPnl, operator, crashes>>

\* _save_trade: one row, ON CONFLICT DO NOTHING.
SaveTrade ==
  /\ pc = "save"
  /\ saved' = saved \cup {at}
  /\ pc' = "update"
  /\ UNCHANGED <<redis, trades, applied, engine, operator, sinceKill,
                 errors, crashes>>

\* _save_trade swallows every exception: the trade goes on, saved or not.
SaveTradeFails ==
  /\ pc = "save"
  /\ errors < MaxErrors /\ errors' = errors + 1
  /\ saved' \in {saved, saved \cup {at}}
  /\ pc' = "update"
  /\ UNCHANGED <<redis, trades, applied, engine, operator, sinceKill, crashes>>

\* update_balance_after_trade: the pipeline that reads both balances ...
ReadBalances ==
  /\ pc = "update"
  /\ seen' = [buy |-> balance[Here.buy], sell |-> balance[Here.sell]]
  /\ pc' = "write"
  /\ UNCHANGED <<redis, ledger, at, trade, tradesExecuted, totalPnl, operator,
                 sinceKill, errors, crashes>>

ReadBalancesFails ==
  /\ pc = "update"
  /\ Abandon
  /\ UNCHANGED <<redis, ledger, tradesExecuted, totalPnl, operator, sinceKill, crashes>>

\* ... and the MULTI pipeline that writes what was computed from them.
WriteBalances ==
  /\ balance' = [balance EXCEPT
       ![Here.buy] = [@ EXCEPT ![USDT] = seen.buy[USDT] - BuyerPays(trade),
                               ![Here.symbol] = seen.buy[Here.symbol] + trade.crypto],
       ![Here.sell] = [@ EXCEPT ![USDT] = seen.sell[USDT] + SellerGets(trade),
                                ![Here.symbol] = seen.sell[Here.symbol] - trade.crypto]]
  /\ applied' = Append(applied, [id |-> at, trade |-> trade])

UpdateBalances ==
  /\ pc = "write"
  /\ WriteBalances
  /\ tradesExecuted' = tradesExecuted + 1
  /\ totalPnl' = totalPnl + trade.net
  /\ Done
  /\ UNCHANGED <<stream, group, funded, deadLetters, trades, saved,
                 operator, sinceKill, errors, crashes>>

\* Mutant of UpdateBalancesFails: the pipeline is no transaction, so the buyer's
\* half may be written alone.
UpdateBalancesFails_Torn ==
  /\ pc = "write"
  /\ balance' = [balance EXCEPT ![Here.buy] =
       [@ EXCEPT ![USDT] = seen.buy[USDT] - BuyerPays(trade)]]
  /\ Abandon
  /\ UNCHANGED <<stream, group, funded, deadLetters, ledger,
                 tradesExecuted, totalPnl, operator, sinceKill, crashes>>

\* The write raises, with or without effect; the trade is not counted.
UpdateBalancesFails ==
  /\ pc = "write"
  /\ WriteBalances \/ UNCHANGED <<balance, applied>>
  /\ Abandon
  /\ UNCHANGED <<stream, group, funded, deadLetters, trades, saved,
                 tradesExecuted, totalPnl, operator, sinceKill, crashes>>
-------------------------------------------------------------------------------
EngineStep == CreateGroup \/ Poll \/ Read \/ Validate \/ DeadLetter \/ GetBalance
                \/ PublishTrade \/ SaveTrade \/ ReadBalances \/ UpdateBalances

Fault == CreateGroupFails \/ ReadFails \/ DeadLetterFails \/ GetBalanceFails
           \/ PublishTradeFails \/ SaveTradeFails \/ ReadBalancesFails
           \/ UpdateBalancesFails

Environment == Publish \/ Kill \/ Reset

Next == Boot \/ Crash \/ EngineStep \/ Fault \/ Environment

Spec == Init /\ [][Next]_vars

\* The event loop runs the engine task and docker restarts the service
\* (restart: on-failure:5).  Nothing obliges the scanner, the operator or a fault.
FairSpec == Spec /\ WF_vars(EngineStep) /\ WF_vars(Boot)
-------------------------------------------------------------------------------
(* Properties. *)

States == {"down", "dead", "group", "loop", "read", "dlq", "balance", "publish",
           "save", "update", "write"}

StoreType ==
  /\ stream \in Seq(Opportunity)
  /\ group \in 0 .. Len(stream)
  /\ funded \subseteq Exchanges
  /\ balance \in [Exchanges -> Holding]
  /\ deadLetters \in Seq(Nat \ {0})

LedgerType ==
  /\ trades \in Seq(Booked) /\ applied \in Seq(Booked)
  /\ saved \subseteq Nat \ {0}

Trading == pc \in {"balance", "publish", "save", "update", "write"}

TaskType ==
  /\ pc \in States
  /\ at \in 1 .. group + 1
  /\ Trading \/ pc = "dlq" => at <= group
  /\ Trading => validate_opportunity(Here)
  /\ trade \in Trades
  /\ seen \in [buy : Holding, sell : Holding]
  /\ tradesExecuted \in Nat /\ totalPnl \in Int

ControlType ==
  /\ killSwitch \in BOOLEAN /\ ordered \in BOOLEAN
  /\ sinceKill \in Nat
  /\ errors \in Nat /\ crashes \in Nat /\ kills \in Nat

\* Every variable keeps its type, and the batch at .. group is well formed: the
\* entry in progress is one the group has delivered.
TypeOK == StoreType /\ LedgerType /\ TaskType /\ ControlType

Increasing(s) == \A i, j \in DOMAIN s : i < j => s[i].id < s[j].id

\* An opportunity is traded at most once, in stream order, whatever crashes,
\* restarts and calls that fail after taking effect: the stream "trades" never
\* holds two trades of one entry (paper_trading.py reads only ">" entries).
TradedAtMostOnce == Increasing(trades)

\* Balances move only for published trades, once for each and in their order,
\* and a row of table trades belongs to a published trade: the xadd, INSERT and
\* pipeline of _process_opportunity are ordered so that Redis never shows money
\* moved by a trade nobody can see.
BookedOnlyIfPublished ==
  /\ Increasing(applied)
  /\ \A k \in DOMAIN applied : \E i \in DOMAIN trades : trades[i] = applied[k]
  /\ \A n \in saved : \E i \in DOMAIN trades : trades[i].id = n

\* An opportunity has one outcome: it is traded once at most, an entry of the
\* dead-letter stream is not traded, and only entries that pass validation are.
TradedOrDeadLettered ==
  /\ TradedAtMostOnce
  /\ \A i \in DOMAIN trades : validate_opportunity(stream[trades[i].id])
  /\ \A k \in DOMAIN deadLetters, i \in DOMAIN trades : deadLetters[k] # trades[i].id

\* Without a fault or a crash nothing is half done: an entry the engine has
\* finished with was published, saved, applied and counted, or none of these.
CompleteWithoutFaults ==
  errors = 0 /\ crashes = 0 =>
    /\ \A i \in DOMAIN trades : trades[i].id < at =>
         trades[i].id \in saved /\ \E k \in DOMAIN applied : applied[k] = trades[i]
    /\ tradesExecuted = Len(applied)
    /\ totalPnl = SumFunction([k \in DOMAIN applied |-> applied[k].trade.net])

\* What a booked trade changes in asset a of exchange e.
Change(b, e, a) ==
  LET o == stream[b.id]
  IN  CASE e = o.buy  /\ a = USDT     -> -BuyerPays(b.trade)
        [] e = o.buy  /\ a = o.symbol -> b.trade.crypto
        [] e = o.sell /\ a = USDT     -> SellerGets(b.trade)
        [] e = o.sell /\ a = o.symbol -> -b.trade.crypto
        [] OTHER -> 0

\* Each balance is its initial value plus the booked trades, so no update is
\* lost and none is computed from stale balances (update_balance_after_trade
\* reads in one pipeline and writes in another).
BalancesExplained ==
  \A e \in funded, a \in {USDT} \cup Assets :
    balance[e][a] = (IF a = USDT THEN InitialBalance[e] ELSE 0)
                      + SumFunction([k \in DOMAIN applied |-> Change(applied[k], e, a)])

\* No exchange goes into debt in USDT: a position is 10 % of a balance, so what
\* the fees and the slippage take beyond it never exceeds the rest.
SolventInUsdt == \A e \in Exchanges : balance[e][USDT] >= 0

\* The position published is at most 10 % of the balance the exchange has at
\* that moment, not only of the one get_balance returned some awaits before.
PositionLimit ==
  [][\A i \in DOMAIN trades' \ DOMAIN trades :
       10 * trades'[i].trade.amount <= balance[stream[trades'[i].id].buy][USDT]]_vars

\* The kill switch bounds what still happens: the batch being read or processed
\* when it is turned on, at most ReadCount trades, and nothing after.
KillBound == killSwitch => sinceKill <= ReadCount

\* While it stays on, the engine comes to rest with no entry half processed.
KillQuiesces == <>[]killSwitch => <>[](pc \in {"loop", "dead"} /\ at > group)

\* Once the kill switch stays off and the engine task is alive, every published
\* opportunity is dealt with, through errors, crashes and restarts.
EntriesHandled ==
  <>[](~killSwitch /\ pc # "dead") =>
    \A i \in 1 .. MaxStream : (Len(stream) >= i) ~> (at > i)

\* What becomes of each entry of the stream "opportunities".
Kept(n) == \/ \E i \in DOMAIN trades : trades[i].id = n
           \/ \E k \in DOMAIN deadLetters : deadLetters[k] = n

Fate(n) == CASE Kept(n)                -> "kept"
             [] ~Kept(n) /\ n > group  -> "waiting"
             [] ~Kept(n) /\ n \in at .. group  -> "held"
             [] ~Kept(n) /\ n <= group /\ n < at -> "dropped"

Opportunities == INSTANCE Consumer WITH Entries <- MaxStream,
                                        fate <- [n \in 1 .. MaxStream |-> Fate(n)]

\* The engine is a consumer of its stream: an entry it has dealt with, or lost, is
\* final, and entries are taken in order and none is passed over.
ConsumesOnce == Opportunities!Spec
-------------------------------------------------------------------------------
(* What docs and comments say and the code does not do. *)

\* shared/models.py:72: net P&L takes all fees into account, so without faults the
\* balances have grown by exactly total_pnl.
PnlMatchesBalances ==
  funded = Exchanges /\ errors = 0 /\ crashes = 0 =>
    SumFunction([e \in Exchanges |-> balance[e][USDT] - InitialBalance[e]]) = totalPnl
===============================================================================
