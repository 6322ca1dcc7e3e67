------------------------------ MODULE ExecutorProofs ------------------------------
(* Safety of the executor for every instance of its constants.                     *)
EXTENDS ExecutorInvariants, DataLemmas

-----------------------------------------------------------------------------------
(* The arithmetic of a trade.                                                      *)

\* Rounding to the nearest quantum: a natural number for a nonnegative fraction,
\* at most half a quantum from it.
LEMMA HalfUpNat ==
  ASSUME NEW n \in Nat, NEW d \in Nat \ {0}
  PROVE  /\ HalfUp(n, d) \in Nat
         /\ 2 * d * HalfUp(n, d) <= 2 * n + d
         /\ 2 * n < 2 * d * HalfUp(n, d) + d
<1> DEFINE m == 2 * n + d
           k == 2 * d
<1>1. m \in Nat /\ k \in Nat /\ k > 0
  OBVIOUS
<1>2. m \div k \in Nat /\ m = (k * (m \div k)) + (m % k) /\ m % k \in 0 .. k - 1
  BY <1>1
<1>3. HalfUp(n, d) = m \div k
  BY DEF HalfUp
<1>4. k * HalfUp(n, d) <= m /\ m < k * HalfUp(n, d) + k
  BY <1>1, <1>2, <1>3
<1>5. k * HalfUp(n, d) = 2 * d * HalfUp(n, d)
  OBVIOUS
<1> QED
  BY <1>2, <1>3, <1>4, <1>5

\* The size of a position is a positive number of quanta.
LEMMA TradeAmountNat ==
  ASSUME NEW usdt \in Nat
  PROVE  calculate_trade_amount(usdt) \in Nat \ {0}
<1>1. HalfUp(usdt, 10 * Cent) \in Nat
  BY HalfUpNat DEF Cent
<1> QED
  BY <1>1 DEF calculate_trade_amount, Cent, Usd

\* Which balances trade: at least $100, a tenth that rounds down, and no more than
\* the maximum position. Half of all balances are refused for their last digits.
THEOREM TradableCharacterised ==
  \A usdt \in Nat : TradableExactly(usdt)
<1> SUFFICES ASSUME NEW usdt \in Nat
             PROVE  TradableExactly(usdt)
  OBVIOUS
<1> DEFINE q == usdt \div 1000
           r == usdt % 1000
<1>1. q \in Nat /\ r \in 0 .. 999 /\ usdt = 1000 * q + r
  OBVIOUS
<1>2. HalfUp(usdt, 10 * Cent) = IF r < 500 THEN q ELSE q + 1
  <2>1. HalfUp(usdt, 10 * Cent) = (2 * usdt + 1000) \div 2000
    BY DEF HalfUp, Cent
  <2> HIDE DEF q, r
  <2>2. 2 * usdt + 1000 = 2000 * q + (2 * r + 1000)
    BY <1>1
  <2>3. CASE r < 500
    <3>1. (2000 * q + (2 * r + 1000)) \div 2000 = q
      BY ONLY <1>1, <2>3
    <3> QED
      BY <2>1, <2>2, <2>3, <3>1
  <2>4. CASE ~(r < 500)
    <3>1. (2000 * q + (2 * r + 1000)) \div 2000 = q + 1
      BY ONLY <1>1, <2>4
    <3> QED
      BY <2>1, <2>2, <2>4, <3>1
  <2> QED
    BY <2>3, <2>4
<1>3. calculate_trade_amount(usdt) =
        IF 100 * HalfUp(usdt, 10 * Cent) < 100000
          THEN 100000 ELSE 100 * HalfUp(usdt, 10 * Cent)
  BY DEF calculate_trade_amount, Cent, Usd
<1> HIDE DEF q, r
<1>4. Tradable(usdt) <=>
        /\ usdt > 0
        /\ calculate_trade_amount(usdt) >= 100000
        /\ calculate_trade_amount(usdt) <= 1000000000
        /\ calculate_trade_amount(usdt) <= usdt
        /\ 10 * calculate_trade_amount(usdt) <= usdt
  BY DEF Tradable, validate_trade_amount, check_max_position, Usd,
         MIN_TRADE_AMOUNT_USDT, MAX_TRADE_AMOUNT_USDT
<1>5. Tradable(usdt) <=> usdt >= 1000000 /\ r < 500 /\ q <= 10000000
  BY <1>1, <1>2, <1>3, <1>4
<1> QED
  BY <1>5 DEF TradableExactly, MAX_TRADE_AMOUNT_USDT, Usd, Cent, q, r
-----------------------------------------------------------------------------------
(* Lemmas about the data. *)

\* Percentages of amounts are amounts.
LEMMA PercentNat ==
  ASSUME NEW amount \in Nat, NEW bp \in Nat
  PROVE  Percent(amount, bp) \in Nat
<1>1. amount * bp \in Nat
  OBVIOUS
<1> QED
  BY <1>1, HalfUpNat DEF Percent

\* calculate_pnl returns a trade for every opportunity that passes validation.
LEMMA PnlType ==
  ASSUME NEW o \in Opportunity, validate_opportunity(o),
         NEW amount \in Nat, NEW slippage \in Slippage
  PROVE  /\ calculate_pnl(o, amount, slippage) \in Trades
         /\ calculate_pnl(o, amount, slippage).amount = amount
<1> DEFINE crypto == HalfUp(amount * CryptoScale, o.buyPrice)
<1>1. /\ o.buyPrice \in Nat \ {0} /\ o.sellPrice - o.buyPrice \in Nat
      /\ o.buyFee \in Nat /\ o.sellFee \in Nat /\ o.withdrawal \in Nat
  BY ExecutorAssumption DEF validate_opportunity
<1>2. amount * CryptoScale \in Nat
  BY CryptoScaleAssumption
<1>3. crypto \in Nat
  BY <1>1, <1>2, HalfUpNat
<1>4. (o.sellPrice - o.buyPrice) * crypto \in Nat
  BY <1>1, <1>3
<1>5. HalfUp((o.sellPrice - o.buyPrice) * crypto, CryptoScale) \in Nat
  BY <1>4, HalfUpNat, CryptoScaleAssumption
<1>6. slippage \in Nat
  BY ExecutorAssumption DEF SLIPPAGE
<1>7. /\ Percent(amount, o.buyFee) \in Nat
      /\ Percent(amount, o.sellFee) \in Nat
      /\ Percent(amount, slippage) \in Nat
  BY <1>1, <1>6, PercentNat
<1> QED
  BY <1>1, <1>3, <1>5, <1>7 DEF calculate_pnl, Trades

\* A sequence of trades stays ordered when a later entry is appended.
LEMMA AppendIncreasing ==
  ASSUME NEW s \in Seq(Booked), NEW e \in Booked, Increasing(s),
         \A i \in DOMAIN s : s[i].id < e.id
  PROVE  Increasing(Append(s, e))
<1>1. /\ DOMAIN Append(s, e) = 1 .. Len(s) + 1
      /\ DOMAIN s = 1 .. Len(s)
      /\ \A i \in DOMAIN s : Append(s, e)[i] = s[i]
      /\ Append(s, e)[Len(s) + 1] = e
  OBVIOUS
<1>2. Len(s) \in Nat
  OBVIOUS
<1> SUFFICES ASSUME NEW i \in 1 .. Len(s) + 1, NEW j \in 1 .. Len(s) + 1, i < j
             PROVE  Append(s, e)[i].id < Append(s, e)[j].id
  BY <1>1 DEF Increasing
<1>3. CASE j = Len(s) + 1
  BY <1>1, <1>2, <1>3
<1>4. CASE j # Len(s) + 1
  BY <1>1, <1>2, <1>4 DEF Increasing
<1> QED
  BY <1>3, <1>4
-----------------------------------------------------------------------------------
(* Type correctness. *)

LEMMA EmptyTypes == NoTrade \in Trades /\ Nothing \in Holding
BY DEF NoTrade, Trades, Nothing, Holding

\* Booking two integers keeps a holding a holding.
LEMMA HoldingUpdate ==
  ASSUME NEW h \in Holding, NEW x \in Int, NEW a, NEW y, a \in {USDT} \cup Assets => y \in Int
  PROVE  [h EXCEPT ![USDT] = x, ![a] = y] \in Holding
<1>1. CASE a \in Assets
  BY <1>1 DEF Holding
<1>2. CASE a \notin Assets /\ a # USDT
  BY <1>2 DEF Holding
<1>3. CASE a = USDT
  BY <1>3 DEF Holding
<1> QED
  BY <1>1, <1>2, <1>3

LEMMA AfterReadBounds ==
  ASSUME StoreType
  PROVE  /\ group \in Nat /\ Len(stream) \in Nat
         /\ AfterRead \in group .. Len(stream)
         /\ AfterRead <= group + ReadCount
<1>1. group \in Nat /\ Len(stream) \in Nat /\ group <= Len(stream)
  BY DEF StoreType
<1>2. ReadCount \in Nat
  BY ExecutorAssumption
<1> QED
  BY <1>1, <1>2 DEF AfterRead, Least

\* A booked trade leaves every balance a holding.
LEMMA WriteBalancesType ==
  ASSUME TypeOK, WriteBalances
  PROVE  balance' \in [Exchanges -> Holding]
<1>1. /\ seen.buy \in Holding /\ seen.sell \in Holding
      /\ balance \in [Exchanges -> Holding]
  BY DEF TypeOK, StoreType, TaskType
<1>2. /\ trade.crypto \in Int
      /\ BuyerPays(trade) \in Int /\ SellerGets(trade) \in Int
  BY DEF TypeOK, TaskType, Trades, BuyerPays, SellerGets
<1>3. \A h \in Holding : \A a \in {USDT} \cup Assets : h[a] \in Int
  BY DEF Holding
<1>4. /\ seen.buy[USDT] - BuyerPays(trade) \in Int
      /\ seen.sell[USDT] + SellerGets(trade) \in Int
  BY <1>1, <1>2, <1>3
<1>5. Here.symbol \in {USDT} \cup Assets => /\ seen.buy[Here.symbol] + trade.crypto \in Int
                                            /\ seen.sell[Here.symbol] - trade.crypto \in Int
  BY <1>1, <1>2, <1>3
<1>6. \A h \in Holding :
        /\ [h EXCEPT ![USDT] = seen.buy[USDT] - BuyerPays(trade),
                     ![Here.symbol] = seen.buy[Here.symbol] + trade.crypto] \in Holding
        /\ [h EXCEPT ![USDT] = seen.sell[USDT] + SellerGets(trade),
                     ![Here.symbol] = seen.sell[Here.symbol] - trade.crypto] \in Holding
  BY <1>4, <1>5, HoldingUpdate
<1> QED
  BY <1>1, <1>6 DEF WriteBalances

LEMMA StoreTypeStep ==
  ASSUME TypeOK, [Next]_vars
  PROVE  StoreType'
<1> USE DEF TypeOK, StoreType, TaskType
<1>1. CASE Boot
  <2>1. PICK done \in SUBSET (Exchanges \ funded) :
          /\ funded' = funded \cup done
          /\ balance' = [e \in Exchanges |->
               IF e \in done THEN [Nothing EXCEPT ![USDT] = InitialBalance[e]]
                             ELSE balance[e]]
    BY <1>1 DEF Boot
  <2>2. \A e \in Exchanges : [Nothing EXCEPT ![USDT] = InitialBalance[e]] \in Holding
    BY EmptyTypes, ExecutorAssumption DEF Holding
  <2>3. balance' \in [Exchanges -> Holding]
    BY <2>1, <2>2
  <2>4. UNCHANGED <<stream, group, deadLetters>>
    BY <1>1 DEF Boot
  <2> QED
    BY <2>1, <2>3, <2>4
<1>2. CASE CreateGroup
  BY <1>2 DEF CreateGroup, redis
<1>3. CASE Read \/ ReadFails
  <2>1. AfterRead \in group .. Len(stream)
    BY AfterReadBounds
  <2>2. /\ group' \in {group, AfterRead}
        /\ UNCHANGED <<stream, funded, balance, deadLetters>>
    BY <1>3 DEF Read, ReadFails
  <2> QED
    BY <2>1, <2>2
<1>4. CASE DeadLetter \/ DeadLetterFails
  <2>1. /\ deadLetters' = deadLetters \/ deadLetters' = Append(deadLetters, at)
        /\ UNCHANGED <<stream, group, funded, balance>>
    BY <1>4 DEF DeadLetter, DeadLetterFails
  <2>2. at \in Nat \ {0} /\ deadLetters \in Seq(Nat \ {0})
    OBVIOUS
  <2>3. Append(deadLetters, at) \in Seq(Nat \ {0})
    BY <2>2, AppendProperties
  <2>4. deadLetters' \in Seq(Nat \ {0})
    BY <2>1, <2>2, <2>3
  <2> QED
    BY <2>1, <2>4
<1>5. CASE Publish
  <2>1. PICK o \in Opportunity : stream' = Append(stream, o)
    BY <1>5 DEF Publish
  <2>2. UNCHANGED <<group, funded, balance, deadLetters>>
    BY <1>5 DEF Publish
  <2> QED
    BY <2>1, <2>2
<1>6. CASE UpdateBalances \/ UpdateBalancesFails
  <2>1. /\ WriteBalances \/ UNCHANGED balance
        /\ UNCHANGED <<stream, group, funded, deadLetters>>
    BY <1>6 DEF UpdateBalances, UpdateBalancesFails
  <2>2. WriteBalances => balance' \in [Exchanges -> Holding]
    BY WriteBalancesType
  <2> QED
    BY <2>1, <2>2
<1>7. CASE UNCHANGED redis
  BY <1>7 DEF redis
<1> QED
  BY <1>1, <1>2, <1>3, <1>4, <1>5, <1>6, <1>7
  DEF Next, EngineStep, Fault, Environment, Crash, CreateGroupFails, Kill,
      Reset, Poll, Validate, GetBalance, GetBalanceFails, PublishTrade,
      PublishTradeFails, SaveTrade, SaveTradeFails, ReadBalances, ReadBalancesFails, vars

LEMMA LedgerTypeStep ==
  ASSUME TypeOK, [Next]_vars
  PROVE  LedgerType'
<1>1. /\ trades \in Seq(Booked) /\ applied \in Seq(Booked) /\ saved \subseteq Nat \ {0}
      /\ at \in Nat \ {0} /\ [id |-> at, trade |-> trade] \in Booked
  BY DEF TypeOK, StoreType, LedgerType, TaskType, Booked
<1>2. /\ Append(trades, [id |-> at, trade |-> trade]) \in Seq(Booked)
      /\ Append(applied, [id |-> at, trade |-> trade]) \in Seq(Booked)
  BY <1>1, AppendProperties
<1>3. CASE PublishTrade \/ PublishTradeFails
  BY <1>1, <1>2, <1>3 DEF LedgerType, PublishTrade, PublishTradeFails, AppendTrade
<1>4. CASE SaveTrade \/ SaveTradeFails
  BY <1>1, <1>4 DEF LedgerType, SaveTrade, SaveTradeFails
<1>5. CASE UpdateBalances \/ UpdateBalancesFails
  BY <1>1, <1>2, <1>5 DEF LedgerType, UpdateBalances, UpdateBalancesFails, WriteBalances
<1>6. CASE UNCHANGED ledger
  BY <1>1, <1>6 DEF ledger, LedgerType
<1> QED
  BY <1>3, <1>4, <1>5, <1>6
  DEF Next, EngineStep, Fault, Environment, Boot, Crash, CreateGroup, CreateGroupFails,
      Publish, Kill, Reset, Poll, Read, ReadFails, Validate, DeadLetter,
      DeadLetterFails, GetBalance, GetBalanceFails, ReadBalances, ReadBalancesFails, vars

\* Only the producer changes the stream.
LEMMA StreamGrows ==
  ASSUME [Next]_vars
  PROVE  Publish \/ UNCHANGED stream
BY DEF Next, EngineStep, Fault, Environment, Boot, Crash, CreateGroup, CreateGroupFails,
       Kill, Reset, Poll, Read, ReadFails, Validate, DeadLetter, DeadLetterFails,
       GetBalance, GetBalanceFails, PublishTrade, PublishTradeFails, SaveTrade,
       SaveTradeFails, ReadBalances, ReadBalancesFails, UpdateBalances,
       UpdateBalancesFails, redis, vars

\* Delivered entries do not change while the stream grows.
LEMMA StreamStable ==
  ASSUME TypeOK, [Next]_vars
  PROVE  /\ Len(stream) \in Nat /\ Len(stream') \in Nat /\ Len(stream') >= Len(stream)
         /\ \A n \in 1 .. Len(stream) : stream'[n] = stream[n]
<1>1. stream \in Seq(Opportunity)
  BY DEF TypeOK, StoreType
<1>2. CASE Publish
  BY <1>1, <1>2 DEF Publish
<1>3. CASE UNCHANGED stream
  BY <1>1, <1>3
<1> QED
  BY <1>2, <1>3, StreamGrows

\* The opportunity being traded passed validation.
LEMMA HereValid ==
  ASSUME TypeOK, Trading
  PROVE  /\ at \in 1 .. group /\ at \in 1 .. Len(stream)
         /\ Here \in Opportunity /\ validate_opportunity(Here)
         /\ Here.buy \in Exchanges /\ Here.sell \in Exchanges /\ Here.buy # Here.sell
         /\ Here.symbol \in Assets
<1>1. at \in 1 .. group /\ at \in 1 .. Len(stream) /\ validate_opportunity(Here)
  BY DEF TypeOK, StoreType, TaskType
<1>2. Here \in Opportunity
  BY <1>1 DEF TypeOK, StoreType, Here
<1>3. /\ Here.symbol \in Assets \cup {NoSymbol}
      /\ Here.buy \in Exchanges \cup {NoExchange}
      /\ Here.sell \in Exchanges \cup {NoExchange}
  BY <1>2, ExecutorAssumption
<1> QED
  BY <1>1, <1>2, <1>3 DEF validate_opportunity

\* Finishing an entry leaves the task well typed.
LEMMA DoneType ==
  ASSUME TypeOK, Done, at <= group, group' = group,
         tradesExecuted' \in Nat, totalPnl' \in Int
  PROVE  TaskType'
<1>1. group \in Nat /\ at \in 1 .. group
  BY DEF TypeOK, StoreType, TaskType
<1>2. at' \in 1 .. group' + 1
  BY <1>1 DEF Done
<1>3. pc' = "loop" /\ trade' \in Trades /\ seen' \in [buy : Holding, sell : Holding]
  BY EmptyTypes DEF Done
<1> QED
  BY <1>2, <1>3 DEF TaskType, Trading, States

LEMMA TaskTypeStep ==
  ASSUME TypeOK, [Next]_vars
  PROVE  TaskType'
<1> USE DEF TypeOK, TaskType, States, Trading
<1>t. group \in Nat /\ at \in 1 .. group + 1 /\ at \in Nat
  BY DEF StoreType
<1>1. CASE Boot \/ CreateGroup \/ CreateGroupFails \/ Poll
  BY <1>1 DEF Boot, CreateGroup, CreateGroupFails, Poll, engine, redis
<1>2. CASE Crash
  BY <1>t, <1>2, EmptyTypes DEF Crash, redis
<1>3. CASE Publish \/ Kill \/ Reset \/ UNCHANGED vars
  <2>1. UNCHANGED <<group, pc, engine>>
    BY <1>3 DEF Publish, Kill, Reset, vars, redis
  <2>2. at <= group => Here' = Here
    BY <2>1, StreamStable DEF Here, engine, StoreType
  <2> QED
    BY <2>1, <2>2 DEF engine
<1>4. CASE Read \/ ReadFails
  <2>1. /\ at' = group' + 1 \/ at' = group + 1
        /\ pc' = "loop"
        /\ UNCHANGED <<trade, seen, tradesExecuted, totalPnl>>
    BY <1>4 DEF Read, ReadFails
  <2>2. group' \in Nat /\ group' >= group
    BY <1>4, AfterReadBounds DEF Read, ReadFails
  <2> QED
    BY <1>t, <2>1, <2>2
<1>5. CASE Validate
  <2>1. /\ at <= group /\ group' = group
        /\ UNCHANGED <<stream, tradesExecuted, totalPnl>>
    BY <1>5 DEF Validate, redis
  <2>2. \/ Done
        \/ /\ pc' \in {"dlq", "balance"}
           /\ pc' = "balance" => validate_opportunity(Here)
           /\ UNCHANGED <<at, trade, seen>>
    BY <1>5 DEF Validate
  <2>3. CASE Done
    BY <2>1, <2>3, DoneType
  <2> QED
    BY <2>1, <2>2, <2>3 DEF Here
<1>6. CASE DeadLetter \/ DeadLetterFails \/ GetBalanceFails \/ PublishTradeFails
             \/ ReadBalancesFails \/ UpdateBalancesFails
  <2>1. Done /\ UNCHANGED <<group, tradesExecuted, totalPnl>>
    BY <1>6 DEF DeadLetter, DeadLetterFails, GetBalanceFails, PublishTradeFails,
                ReadBalancesFails, UpdateBalancesFails, Abandon, redis
  <2>2. at <= group
    BY <1>6 DEF DeadLetter, DeadLetterFails, GetBalanceFails, PublishTradeFails,
                ReadBalancesFails, UpdateBalancesFails
  <2> QED
    BY <2>1, <2>2, DoneType
<1>7. CASE GetBalance
  <2>1. /\ pc = "balance" /\ UNCHANGED <<stream, group, tradesExecuted, totalPnl>>
    BY <1>7 DEF GetBalance, redis
  <2>2. CASE Done
    BY <2>1, <2>2, DoneType
  <2>3. CASE ~Done
    <3>1. PICK slippage \in Slippage :
            trade' = calculate_pnl(Here, calculate_trade_amount(balance[Here.buy][USDT]),
                                   slippage)
      BY <1>7, <2>3 DEF GetBalance
    <3>2. /\ Tradable(balance[Here.buy][USDT])
          /\ pc' = "publish" /\ UNCHANGED <<at, seen>>
      BY <1>7, <2>3 DEF GetBalance
    <3>3. Here \in Opportunity /\ validate_opportunity(Here) /\ Here.buy \in Exchanges
      BY <2>1, HereValid
    <3>4. balance[Here.buy][USDT] \in Nat
      BY <3>2, <3>3 DEF StoreType, Holding, Tradable
    <3>5. trade' \in Trades
      BY <3>1, <3>3, <3>4, TradeAmountNat, PnlType
    <3> QED
      BY <2>1, <3>2, <3>5 DEF Here
  <2> QED
    BY <2>2, <2>3
<1>8. CASE PublishTrade \/ SaveTrade \/ SaveTradeFails
  BY <1>8 DEF PublishTrade, SaveTrade, SaveTradeFails, redis, engine, Here
<1>9. CASE ReadBalances
  <2>1. /\ pc = "update" /\ pc' = "write"
        /\ UNCHANGED <<stream, group, at, trade, tradesExecuted, totalPnl>>
        /\ seen' = [buy |-> balance[Here.buy], sell |-> balance[Here.sell]]
    BY <1>9 DEF ReadBalances, redis
  <2>2. Here \in Opportunity /\ Here.buy \in Exchanges /\ Here.sell \in Exchanges
    BY <2>1, HereValid
  <2>3. seen' \in [buy : Holding, sell : Holding]
    BY <2>1, <2>2 DEF StoreType
  <2> QED
    BY <2>1, <2>3 DEF Here
<1>10. CASE UpdateBalances
  <2>1. /\ pc = "write" /\ group' = group /\ Done
        /\ tradesExecuted' \in Nat /\ totalPnl' \in Int
    BY <1>10 DEF UpdateBalances, Trades
  <2> QED
    BY <2>1, DoneType
<1> QED
  BY <1>1, <1>2, <1>3, <1>4, <1>5, <1>6, <1>7, <1>8, <1>9, <1>10
  DEF Next, EngineStep, Fault, Environment

LEMMA ControlTypeStep ==
  ASSUME TypeOK, [Next]_vars
  PROVE  ControlType'
<1>1. ControlType
  BY DEF TypeOK
<1>4. /\ errors' \in {errors, errors + 1} /\ crashes' \in {crashes, crashes + 1}
      /\ kills' \in {kills, kills + 1} /\ sinceKill' \in {0, sinceKill, sinceKill + 1}
  BY DEF Next, EngineStep, Fault, Environment, Boot, Crash, CreateGroup, CreateGroupFails,
       Publish, Kill, Reset, Poll, Read, ReadFails, Validate, DeadLetter,
       DeadLetterFails, GetBalance, GetBalanceFails, PublishTrade, PublishTradeFails,
       SaveTrade, SaveTradeFails, ReadBalances, ReadBalancesFails, UpdateBalances,
       UpdateBalancesFails, Abandon, AppendTrade, operator, vars
<1>5. killSwitch' \in {killSwitch, TRUE, FALSE} /\ ordered' \in {ordered, TRUE, FALSE}
  BY DEF Next, EngineStep, Fault, Environment, Boot, Crash, CreateGroup, CreateGroupFails,
       Publish, Kill, Reset, Poll, Read, ReadFails, Validate, DeadLetter,
       DeadLetterFails, GetBalance, GetBalanceFails, PublishTrade, PublishTradeFails,
       SaveTrade, SaveTradeFails, ReadBalances, ReadBalancesFails, UpdateBalances,
       UpdateBalancesFails, operator, vars
<1>6. killSwitch' \in BOOLEAN /\ ordered' \in BOOLEAN
  BY <1>1, <1>5 DEF ControlType
<1>7. /\ errors' \in Nat /\ crashes' \in Nat /\ kills' \in Nat /\ sinceKill' \in Nat
  BY <1>1, <1>4 DEF ControlType
<1> QED
  BY <1>6, <1>7 DEF ControlType

LEMMA InitTyped == Init => TypeOK
<1> SUFFICES ASSUME Init PROVE TypeOK
  OBVIOUS
<1>1. StoreType
  <2>1. stream \in Seq(Opportunity) /\ deadLetters \in Seq(Nat \ {0})
    BY DEF Init
  <2>2. funded \subseteq Exchanges
    BY DEF Init
  <2>3. balance \in [Exchanges -> Holding] /\ group \in 0 .. Len(stream)
    BY EmptyTypes DEF Init
  <2> QED
    BY <2>1, <2>2, <2>3 DEF StoreType
<1>2. LedgerType
  BY DEF Init, LedgerType
<1>3. TaskType
  BY EmptyTypes DEF Init, TaskType, States, Trading
<1>4. ControlType
  <2>1. killSwitch \in BOOLEAN /\ ordered \in BOOLEAN
    BY DEF Init
  <2>2. /\ sinceKill \in Nat
        /\ errors \in Nat /\ crashes \in Nat /\ kills \in Nat
    BY DEF Init
  <2> QED
    BY <2>1, <2>2 DEF ControlType
<1> QED
  BY <1>1, <1>2, <1>3, <1>4 DEF TypeOK

\* Executor: in every reachable state every variable has its type, the entry in
\* progress is one the consumer group delivered, and one being traded is valid.
THEOREM TypeCorrect == Spec => []TypeOK
<1>1. TypeOK /\ [Next]_vars => TypeOK'
  BY StoreTypeStep, LedgerTypeStep, TaskTypeStep, ControlTypeStep DEF TypeOK
<1> QED
  BY InitTyped, <1>1, PTL DEF Spec
-----------------------------------------------------------------------------------
(* Safety: what a step can do to each part of the state. *)

LEMMA Progress ==
  ASSUME TypeOK, [Next]_vars
  PROVE  /\ at \in Nat /\ at' \in Nat /\ group \in Nat /\ group' \in Nat
         /\ at' >= at /\ group' >= group
         /\ Published => \/ at' > at
                         \/ at' = at /\ Published' /\ UNCHANGED trade
<1>1. /\ group \in Nat /\ at \in Nat /\ at <= group + 1
      /\ Trading => at <= group
      /\ group' \in Nat /\ at' \in Nat
  <2>1. TypeOK'
    BY StoreTypeStep, LedgerTypeStep, TaskTypeStep, ControlTypeStep DEF TypeOK
  <2> QED
    BY <2>1, StreamStable DEF TypeOK, StoreType, TaskType
<1> USE <1>1 DEF Published, Trading
<1>2. CASE Boot \/ CreateGroup \/ CreateGroupFails \/ Poll
  BY <1>2 DEF Boot, CreateGroup, CreateGroupFails, Poll, redis, engine
<1>3. CASE Crash
  BY <1>3 DEF Crash, redis
<1>4. CASE Publish \/ Kill \/ Reset \/ UNCHANGED vars
  BY <1>4 DEF Publish, Kill, Reset, redis, engine, vars
<1>5. CASE Read \/ ReadFails
  <2>1. /\ pc = "read" /\ (at' = group + 1 \/ at' = group' + 1)
        /\ group' = group \/ group' = AfterRead
    BY <1>5 DEF Read, ReadFails
  <2>2. group' >= group
    BY <2>1, AfterReadBounds DEF TypeOK
  <2>3. ~Published
    BY <2>1
  <2>4. at' = group + 1 \/ at' = group' + 1
    BY <2>1
  <2>5. \A x, y, z \in Nat : x <= y + 1 /\ z >= y => z + 1 >= x /\ y + 1 >= x
    OBVIOUS
  <2>6. at' >= at
    BY <2>2, <2>4, <2>5
  <2> QED
    BY <2>2, <2>3, <2>6
<1>6. CASE Validate \/ DeadLetter \/ DeadLetterFails \/ GetBalance \/ GetBalanceFails
  <2>1. pc \in {"loop", "dlq", "balance"} /\ (at' = at \/ at' = at + 1) /\ group' = group
    BY <1>6 DEF Validate, DeadLetter, DeadLetterFails, GetBalance, GetBalanceFails,
                Abandon, Done, redis
  <2> QED
    BY <2>1
<1>7. CASE PublishTrade \/ PublishTradeFails \/ SaveTrade \/ SaveTradeFails
  BY <1>7 DEF PublishTrade, PublishTradeFails, SaveTrade, SaveTradeFails, Abandon, Done,
              redis, engine
<1>8. CASE ReadBalances \/ ReadBalancesFails
  BY <1>8 DEF ReadBalances, ReadBalancesFails, Abandon, Done, redis
<1>9. CASE UpdateBalances \/ UpdateBalancesFails
  <2>1. Done /\ group' = group
    BY <1>9 DEF UpdateBalances, UpdateBalancesFails, Abandon
  <2> QED
    BY <2>1 DEF Done
<1> QED
  BY <1>2, <1>3, <1>4, <1>5, <1>6, <1>7, <1>8, <1>9 DEF Next, EngineStep, Fault, Environment

\* A trade is published by the entry in progress, which is then passed or marked so.
LEMMA TradesStep ==
  ASSUME [Next]_vars
  PROVE  \/ UNCHANGED trades
         \/ /\ pc = "publish" /\ AppendTrade
            /\ \/ at' = at /\ pc' = "save" /\ UNCHANGED trade
               \/ at' = at + 1 /\ pc' = "loop"
BY DEF Next, EngineStep, Fault, Environment, Boot, Crash, CreateGroup, CreateGroupFails,
       Publish, Kill, Reset, Poll, Read, ReadFails, Validate, DeadLetter,
       DeadLetterFails, GetBalance, GetBalanceFails, PublishTrade, PublishTradeFails,
       SaveTrade, SaveTradeFails, ReadBalances, ReadBalancesFails, UpdateBalances,
       UpdateBalancesFails, Abandon, Done, ledger, engine, vars

\* A balance update is booked by the entry in progress, which is then passed.
LEMMA AppliedStep ==
  ASSUME [Next]_vars
  PROVE  \/ UNCHANGED applied
         \/ pc = "write" /\ WriteBalances /\ at' = at + 1
BY DEF Next, EngineStep, Fault, Environment, Boot, Crash, CreateGroup, CreateGroupFails,
       Publish, Kill, Reset, Poll, Read, ReadFails, Validate, DeadLetter,
       DeadLetterFails, GetBalance, GetBalanceFails, PublishTrade, PublishTradeFails,
       SaveTrade, SaveTradeFails, ReadBalances, ReadBalancesFails, UpdateBalances,
       UpdateBalancesFails, Abandon, Done, ledger, engine, vars

LEMMA SavedStep ==
  ASSUME [Next]_vars
  PROVE  \/ UNCHANGED saved
         \/ pc = "save" /\ saved' = saved \cup {at}
BY DEF Next, EngineStep, Fault, Environment, Boot, Crash, CreateGroup, CreateGroupFails,
       Publish, Kill, Reset, Poll, Read, ReadFails, Validate, DeadLetter,
       DeadLetterFails, GetBalance, GetBalanceFails, PublishTrade, PublishTradeFails,
       SaveTrade, SaveTradeFails, ReadBalances, ReadBalancesFails, UpdateBalances,
       UpdateBalancesFails, ledger, vars

LEMMA DeadLettersStep ==
  ASSUME [Next]_vars
  PROVE  /\ \/ UNCHANGED deadLetters
            \/ pc = "dlq" /\ deadLetters' = Append(deadLetters, at) /\ at' = at + 1
         /\ pc' = "dlq" => \/ pc = "dlq" /\ at' = at
                           \/ at <= group /\ at' = at /\ ~validate_opportunity(Here)
BY DEF Next, EngineStep, Fault, Environment, Boot, Crash, CreateGroup, CreateGroupFails,
       Publish, Kill, Reset, Poll, Read, ReadFails, Validate, DeadLetter,
       DeadLetterFails, GetBalance, GetBalanceFails, PublishTrade, PublishTradeFails,
       SaveTrade, SaveTradeFails, ReadBalances, ReadBalancesFails, UpdateBalances,
       UpdateBalancesFails, Abandon, Done, redis, engine, vars
-----------------------------------------------------------------------------------
(* The order of trades. *)

LEMMA PassedEntriesStep ==
  ASSUME TypeOK, Safety, [Next]_vars
  PROVE  PassedEntries'
<1>1. /\ \A i \in DOMAIN trades' :
           /\ trades'[i].id <= group'
           /\ trades'[i].id < at' \/ (trades'[i].id = at' /\ Published')
           /\ validate_opportunity(stream'[trades'[i].id])
  <2> DEFINE new == [id |-> at, trade |-> trade]
             Passed(n) == /\ n <= group'
                          /\ n < at' \/ (n = at' /\ Published')
                          /\ validate_opportunity(stream'[n])
  <2>1. /\ trades \in Seq(Booked) /\ group <= Len(stream) /\ new \in Booked
        /\ DOMAIN trades = 1 .. Len(trades)
    BY DEF TypeOK, StoreType, LedgerType, TaskType, Booked
  <2>2. ASSUME NEW i \in DOMAIN trades
        PROVE  Passed(trades[i].id)
    <3>1. trades[i].id \in Nat \ {0}
      <4>1. trades[i] \in Booked
        BY <2>1
      <4> QED
        BY <4>1 DEF Booked
    <3>2. /\ trades[i].id <= group /\ validate_opportunity(stream[trades[i].id])
          /\ trades[i].id < at \/ (trades[i].id = at /\ Published)
      BY DEF Safety, PassedEntries
    <3>3. validate_opportunity(stream'[trades[i].id])
      BY <2>1, <3>1, <3>2, StreamStable, Progress
    <3> QED
      BY <3>1, <3>2, <3>3, Progress
  <2>3. CASE UNCHANGED trades
    BY <2>2, <2>3
  <2>4. CASE pc = "publish" /\ AppendTrade
    <3>1. Passed(at)
      <4>1. at \in 1 .. group /\ validate_opportunity(Here)
        BY <2>4, HereValid DEF Trading
      <4>2. stream'[at] = Here
        BY <2>1, <4>1, StreamStable, Progress DEF Here
      <4>3. at < at' \/ (at = at' /\ Published')
        BY <2>4, Progress, TradesStep DEF Published, AppendTrade
      <4> QED
        BY <4>1, <4>2, <4>3, Progress
    <3>2. /\ DOMAIN trades' = 1 .. Len(trades) + 1
          /\ \A i \in 1 .. Len(trades) : trades'[i] = trades[i]
          /\ trades'[Len(trades) + 1] = new
      BY <2>1, <2>4 DEF AppendTrade
    <3>3. Len(trades) \in Nat
      BY <2>1
    <3> HIDE DEF Passed
    <3>4. \A i \in DOMAIN trades' : Passed(trades'[i].id)
      BY <2>1, <2>2, <3>1, <3>2, <3>3
    <3> QED
      BY <3>4 DEF Passed
  <2> QED
    BY <2>3, <2>4, TradesStep
<1>2. \A k \in DOMAIN applied' : applied'[k].id < at'
  <2>1. applied \in Seq(Booked) /\ Len(applied) \in Nat
    BY DEF TypeOK, LedgerType
  <2>2. \A k \in 1 .. Len(applied) : applied[k] \in Booked
    BY <2>1
  <2>3. \A k \in 1 .. Len(applied) : applied[k].id < at /\ applied[k].id \in Nat
    BY <2>1, <2>2 DEF Safety, PassedEntries, Booked
  <2>4. CASE UNCHANGED applied
    BY <2>1, <2>3, <2>4, Progress
  <2>5. CASE pc = "write" /\ WriteBalances /\ at' = at + 1
    <3>1. /\ DOMAIN applied' = 1 .. Len(applied) + 1
          /\ \A k \in 1 .. Len(applied) : applied'[k] = applied[k]
          /\ applied'[Len(applied) + 1].id = at
      BY <2>1, <2>5 DEF WriteBalances
    <3> QED
      BY <2>1, <2>3, <2>5, <3>1, Progress
  <2> QED
    BY <2>4, <2>5, AppliedStep
<1>3. \A k \in DOMAIN deadLetters' :
        /\ deadLetters'[k] <= group' /\ deadLetters'[k] < at'
        /\ ~validate_opportunity(stream'[deadLetters'[k]])
  <2> DEFINE Refused(n) == n <= group' /\ n < at' /\ ~validate_opportunity(stream'[n])
  <2>1. /\ deadLetters \in Seq(Nat \ {0}) /\ Len(deadLetters) \in Nat
        /\ group <= Len(stream) /\ at \in 1 .. group + 1
        /\ \A k \in 1 .. Len(deadLetters) : deadLetters[k] \in Nat \ {0}
    BY DEF TypeOK, StoreType, TaskType
  <2>2. ASSUME NEW k \in 1 .. Len(deadLetters)
        PROVE  Refused(deadLetters[k])
    <3>1. /\ deadLetters[k] \in 1 .. Len(stream)
          /\ deadLetters[k] <= group /\ deadLetters[k] < at
          /\ ~validate_opportunity(stream[deadLetters[k]])
      BY <2>1, Progress, StreamStable DEF Safety, PassedEntries
    <3> QED
      BY <3>1, Progress, StreamStable
  <2>3. CASE UNCHANGED deadLetters
    BY <2>1, <2>2, <2>3
  <2>4. CASE pc = "dlq" /\ deadLetters' = Append(deadLetters, at) /\ at' = at + 1
    <3>1. Refused(at)
      <4>1. at \in 1 .. group /\ ~validate_opportunity(Here)
        BY <2>4 DEF TypeOK, TaskType, Safety, PassedEntries
      <4> QED
        BY <2>1, <2>4, <4>1, Progress, StreamStable DEF Here
    <3>2. /\ DOMAIN deadLetters' = 1 .. Len(deadLetters) + 1
          /\ \A k \in 1 .. Len(deadLetters) : deadLetters'[k] = deadLetters[k]
          /\ deadLetters'[Len(deadLetters) + 1] = at
      BY <2>1, <2>4
    <3> HIDE DEF Refused
    <3>3. \A k \in DOMAIN deadLetters' : Refused(deadLetters'[k])
      BY <2>1, <2>2, <3>1, <3>2
    <3> QED
      BY <3>3 DEF Refused
  <2> QED
    BY <2>3, <2>4, DeadLettersStep
<1>4. pc' = "dlq" => ~validate_opportunity(Here')
  <2>1. pc = "dlq" => at \in 1 .. group /\ ~validate_opportunity(Here)
    BY DEF TypeOK, TaskType, Safety, PassedEntries
  <2>2. /\ at \in Nat \ {0} /\ group \in Nat /\ group <= Len(stream)
    BY DEF TypeOK, StoreType, TaskType
  <2> QED
    BY <2>1, <2>2, DeadLettersStep, StreamStable DEF Here
<1> QED
  BY <1>1, <1>2, <1>3, <1>4 DEF PassedEntries

\* Executor: an appended trade is later than those before it.
LEMMA TradedAtMostOnceStep ==
  ASSUME TypeOK, Safety, [Next]_vars
  PROVE  TradedAtMostOnce'
<1>1. CASE UNCHANGED trades
  BY <1>1 DEF Safety, TradedAtMostOnce, Increasing
<1>2. CASE pc = "publish" /\ AppendTrade
  <2>1. trades \in Seq(Booked) /\ [id |-> at, trade |-> trade] \in Booked
    BY DEF TypeOK, StoreType, LedgerType, TaskType, Booked
  <2>2. \A i \in DOMAIN trades : trades[i].id < at
    BY <1>2 DEF Safety, PassedEntries, Published
  <2>3. Increasing(Append(trades, [id |-> at, trade |-> trade]))
    BY <2>1, <2>2, AppendIncreasing DEF Safety, TradedAtMostOnce
  <2> QED
    BY <1>2, <2>3 DEF AppendTrade, TradedAtMostOnce, Increasing
<1> QED
  BY <1>1, <1>2, TradesStep
LEMMA BookedStep ==
  ASSUME TypeOK, Safety, [Next]_vars
  PROVE  BookedOnlyIfPublished'
<1> DEFINE here == [id |-> at, trade |-> trade]
<1>1. /\ trades \in Seq(Booked) /\ applied \in Seq(Booked) /\ here \in Booked
  BY DEF TypeOK, StoreType, LedgerType, TaskType, Booked
<1>2. \A i \in DOMAIN trades : i \in DOMAIN trades' /\ trades'[i] = trades[i]
  BY <1>1, TradesStep DEF AppendTrade
<1>3. ASSUME Published
      PROVE  \E i \in DOMAIN trades' : trades'[i] = here
  BY <1>2, <1>3 DEF Safety, InProgress
<1>4. CASE UNCHANGED applied
  <2>1. /\ Increasing(applied')
        /\ \A k \in DOMAIN applied' : \E i \in DOMAIN trades' : trades'[i] = applied'[k]
    BY <1>2, <1>4 DEF Safety, BookedOnlyIfPublished, Increasing
  <2>2. \A n \in saved' : \E i \in DOMAIN trades' : trades'[i].id = n
    <3>1. CASE UNCHANGED saved
      BY <1>2, <3>1 DEF Safety, BookedOnlyIfPublished
    <3>2. CASE pc = "save" /\ saved' = saved \cup {at}
      <4>1. \E i \in DOMAIN trades' : trades'[i].id = at
        BY <1>3, <3>2 DEF Published
      <4> QED
        BY <1>2, <3>2, <4>1 DEF Safety, BookedOnlyIfPublished
    <3> QED
      BY <3>1, <3>2, SavedStep
  <2> QED
    BY <2>1, <2>2 DEF BookedOnlyIfPublished
<1>5. CASE pc = "write" /\ WriteBalances
  <2>1. \A k \in DOMAIN applied : applied[k].id < at
    BY DEF Safety, PassedEntries
  <2>2. Increasing(applied')
    <3>1. Increasing(Append(applied, here))
      BY <1>1, <2>1, AppendIncreasing DEF Safety, BookedOnlyIfPublished
    <3> QED
      BY <1>5, <3>1 DEF WriteBalances, Increasing
  <2>3. \A k \in DOMAIN applied' : \E i \in DOMAIN trades' : trades'[i] = applied'[k]
    <3>1. /\ DOMAIN applied' = 1 .. Len(applied) + 1
          /\ DOMAIN applied = 1 .. Len(applied) /\ Len(applied) \in Nat
          /\ \A k \in 1 .. Len(applied) : applied'[k] = applied[k]
          /\ applied'[Len(applied) + 1] = here
      BY <1>1, <1>5 DEF WriteBalances
    <3>2. \A k \in 1 .. Len(applied) : \E i \in DOMAIN trades' : trades'[i] = applied[k]
      BY <1>2, <3>1 DEF Safety, BookedOnlyIfPublished
    <3>3. \E i \in DOMAIN trades' : trades'[i] = here
      BY <1>3, <1>5 DEF Published
    <3> QED
      BY <3>1, <3>2, <3>3
  <2>4. \A n \in saved' : \E i \in DOMAIN trades' : trades'[i].id = n
    <3>1. saved' = saved
      BY <1>5, SavedStep
    <3> QED
      BY <1>2, <3>1 DEF Safety, BookedOnlyIfPublished
  <2> QED
    BY <2>2, <2>3, <2>4 DEF BookedOnlyIfPublished
<1> QED
  BY <1>4, <1>5, AppliedStep

LEMMA InProgressStep ==
  ASSUME TypeOK, Safety, [Next]_vars
  PROVE  InProgress'
<1>1. trades \in Seq(Booked)
  BY DEF TypeOK, LedgerType
<1>2. \A i \in DOMAIN trades : i \in DOMAIN trades' /\ trades'[i] = trades[i]
  BY <1>1, TradesStep DEF AppendTrade
<1>3. Published' => /\ at' = at /\ UNCHANGED trade
                    /\ Published \/ AppendTrade
  BY DEF Published, Next, EngineStep, Fault, Environment, Boot, Crash, CreateGroup,
       CreateGroupFails,
       Publish, Kill, Reset, Poll, Read, ReadFails, Validate, DeadLetter,
       DeadLetterFails, GetBalance, GetBalanceFails, PublishTrade, PublishTradeFails,
       SaveTrade, SaveTradeFails, ReadBalances, ReadBalancesFails, UpdateBalances,
       UpdateBalancesFails, Abandon, Done, engine, vars
<1>4. CASE Published' /\ Published
  BY <1>2, <1>3, <1>4 DEF Safety, InProgress
<1>5. CASE Published' /\ AppendTrade
  <2>1. Len(trades) + 1 \in DOMAIN trades' /\
        trades'[Len(trades) + 1] = [id |-> at, trade |-> trade]
    BY <1>1, <1>5 DEF AppendTrade
  <2> QED
    BY <1>3, <1>5, <2>1 DEF InProgress
<1> QED
  BY <1>3, <1>4, <1>5 DEF InProgress
-----------------------------------------------------------------------------------
(* Money. *)

\* A percentage of at most 1 % is, to half a quantum, at most a hundredth.
LEMMA PercentBound ==
  ASSUME NEW amount \in Nat, NEW bp \in Nat, bp <= 100
  PROVE  /\ Percent(amount, bp) \in Nat
         /\ 200 * Percent(amount, bp) <= 2 * amount + 100
<1>1. amount * bp \in Nat /\ amount * bp <= amount * 100
  OBVIOUS
<1>2. /\ HalfUp(amount * bp, 10000) \in Nat
      /\ 2 * 10000 * HalfUp(amount * bp, 10000) <= 2 * (amount * bp) + 10000
  BY <1>1, HalfUpNat
<1> QED
  BY <1>1, <1>2 DEF Percent

\* Fees and slippage never eat up the proceeds of a trade of $10 or more.
LEMMA PnlProceeds ==
  ASSUME NEW o \in Opportunity, validate_opportunity(o),
         NEW amount \in Nat, amount >= 100000, NEW slippage \in Slippage
  PROVE  /\ calculate_pnl(o, amount, slippage).buyFee <= amount
         /\ SellerGets(calculate_pnl(o, amount, slippage)) >= 0
<1> DEFINE crypto == HalfUp(amount * CryptoScale, o.buyPrice)
           gross == HalfUp((o.sellPrice - o.buyPrice) * crypto, CryptoScale)
           b == Percent(amount, o.buyFee)
           s == Percent(amount, o.sellFee)
           l == Percent(amount, slippage)
           w == o.withdrawal
           pnl == calculate_pnl(o, amount, slippage)
<1>1. /\ o.buyPrice \in Nat \ {0} /\ o.sellPrice - o.buyPrice \in Nat
      /\ o.buyFee \in Nat /\ o.sellFee \in Nat /\ w \in Nat
  BY ExecutorAssumption DEF validate_opportunity
<1>2. o.buyFee <= 100 /\ o.sellFee <= 100 /\ w <= 10000
  BY FeeAssumption DEF Usd
<1>3. slippage \in Nat /\ slippage <= 100
  BY ExecutorAssumption DEF SLIPPAGE
<1>4. amount * CryptoScale \in Nat
  BY CryptoScaleAssumption
<1>5. crypto \in Nat
  BY <1>1, <1>4, HalfUpNat
<1>6. (o.sellPrice - o.buyPrice) * crypto \in Nat
  BY <1>1, <1>5
<1>7. gross \in Nat
  BY <1>6, CryptoScaleAssumption, HalfUpNat
<1>8. /\ pnl.amount = amount /\ pnl.buyFee = b /\ pnl.sellFee = s
      /\ pnl.net = gross - (b + s + w + l)
  BY DEF calculate_pnl
<1> HIDE DEF gross, crypto, pnl
<1>9. /\ b \in Nat /\ 200 * b <= 2 * amount + 100
      /\ s \in Nat /\ 200 * s <= 2 * amount + 100
      /\ l \in Nat /\ 200 * l <= 2 * amount + 100
  <2>1. \A bp \in Nat : bp <= 100 => /\ Percent(amount, bp) \in Nat
                                     /\ 200 * Percent(amount, bp) <= 2 * amount + 100
    BY PercentBound
  <2>2. ASSUME NEW bp \in Nat, bp <= 100
        PROVE  /\ Percent(amount, bp) \in Nat
               /\ 200 * Percent(amount, bp) <= 2 * amount + 100
    BY ONLY <2>1, <2>2, Zenon
  <2>3. b \in Nat /\ 200 * b <= 2 * amount + 100
    <3>1. o.buyFee \in Nat /\ o.buyFee <= 100
      BY <1>1, <1>2
    <3> QED
      BY ONLY <2>2, <3>1, Zenon DEF b
  <2>4. s \in Nat /\ 200 * s <= 2 * amount + 100
    <3>1. o.sellFee \in Nat /\ o.sellFee <= 100
      BY <1>1, <1>2
    <3> QED
      BY ONLY <2>2, <3>1, Zenon DEF s
  <2>5. l \in Nat /\ 200 * l <= 2 * amount + 100
    BY ONLY <1>3, <2>1, Zenon DEF l
  <2> QED
    BY <2>3, <2>4, <2>5
<1> HIDE DEF b, s, l, w
<1>10. amount + (gross - (b + s + w + l)) - s >= 0 /\ b <= amount
  BY <1>1, <1>2, <1>7, <1>9
<1>11. pnl.buyFee <= amount /\ SellerGets(pnl) >= 0
  BY <1>8, <1>10 DEF SellerGets
<1> QED
  BY <1>11 DEF pnl

\* A valid opportunity at a balance that trades gives an affordable trade.
LEMMA PnlAffordable ==
  ASSUME NEW o \in Opportunity, validate_opportunity(o),
         NEW usdt \in Nat, Tradable(usdt), NEW slippage \in Slippage
  PROVE  Affordable(calculate_pnl(o, calculate_trade_amount(usdt), slippage), usdt)
<1>1. PICK amount \in Nat : amount = calculate_trade_amount(usdt)
  BY TradeAmountNat
<1>2. amount >= 100000 /\ 10 * amount <= usdt
  BY <1>1
  DEF Tradable, validate_trade_amount, check_max_position, MIN_TRADE_AMOUNT_USDT, Usd
<1>3. calculate_pnl(o, amount, slippage).amount = amount
  BY PnlType
<1> QED
  BY <1>1, <1>2, <1>3, PnlProceeds DEF Affordable

\* Balances change when start-up funds exchanges and when a trade is written.
LEMMA BalanceStep ==
  ASSUME [Next]_vars
  PROVE  \/ UNCHANGED balance
         \/ \A e \in Exchanges :
              balance'[e] = balance[e] \/ balance'[e][USDT] = InitialBalance[e]
         \/ pc = "write" /\ WriteBalances
<1>1. CASE Boot
  <2>1. PICK done \in SUBSET (Exchanges \ funded) :
          balance' = [e \in Exchanges |->
            IF e \in done THEN [Nothing EXCEPT ![USDT] = InitialBalance[e]]
                          ELSE balance[e]]
    BY <1>1 DEF Boot
  <2>2. \A e \in Exchanges : [Nothing EXCEPT ![USDT] = InitialBalance[e]][USDT]
                                = InitialBalance[e]
    BY DEF Nothing
  <2> QED
    BY <2>1, <2>2
<1>2. CASE ~Boot
  BY <1>2 DEF Next, EngineStep, Fault, Environment, Crash, CreateGroup, CreateGroupFails,
       Publish, Kill, Reset, Poll, Read, ReadFails, Validate, DeadLetter,
       DeadLetterFails, GetBalance, GetBalanceFails, PublishTrade, PublishTradeFails,
       SaveTrade, SaveTradeFails, ReadBalances, ReadBalancesFails, UpdateBalances,
       UpdateBalancesFails, Abandon, Done, redis, vars
<1> QED
  BY <1>1, <1>2

\* A trade in hand comes from get_balance and stays as it is until it is written.
LEMMA TradeInHandStep ==
  ASSUME [Next]_vars, pc' = "publish" \/ Published'
  PROVE  /\ UNCHANGED <<at, balance>>
         /\ \/ (pc = "publish" \/ Published) /\ UNCHANGED trade
            \/ GetBalance /\ pc = "balance" /\ pc' = "publish"
         /\ pc' = "write" =>
              \/ pc = "write" /\ UNCHANGED seen
              \/ pc = "update" /\ seen' = [buy |-> balance[Here.buy],
                                           sell |-> balance[Here.sell]]
BY DEF Published, Next, EngineStep, Fault, Environment, Boot, Crash, CreateGroup,
       CreateGroupFails, Publish, Kill, Reset, Poll, Read, ReadFails, Validate,
       DeadLetter, DeadLetterFails, GetBalance, GetBalanceFails, PublishTrade,
       PublishTradeFails, SaveTrade, SaveTradeFails, ReadBalances, ReadBalancesFails,
       UpdateBalances, UpdateBalancesFails, Abandon, Done, redis, engine, vars

LEMMA SizedStep ==
  ASSUME TypeOK, Safety, [Next]_vars
  PROVE  Sized'
<1> SUFFICES ASSUME pc' = "publish" \/ Published'
             PROVE  Sized'
  BY DEF Sized, Published
<1>1. UNCHANGED <<at, balance>> /\ at \in 1 .. group /\ Trading
  BY TradeInHandStep, HereValid DEF Published, Trading
<1>2. Here' = Here
  BY <1>1, StreamStable DEF Here, TypeOK, StoreType
<1>3. Affordable(trade', balance[Here.buy][USDT])
  <2>1. CASE (pc = "publish" \/ Published) /\ UNCHANGED trade
    BY <2>1 DEF Safety, Sized
  <2>2. CASE GetBalance /\ pc = "balance" /\ pc' = "publish"
    <3>1. /\ Tradable(balance[Here.buy][USDT])
          /\ \E slippage \in Slippage :
               trade' = calculate_pnl(Here, calculate_trade_amount(balance[Here.buy][USDT]),
                                      slippage)
      BY <2>2 DEF GetBalance, Done
    <3>2. PICK slippage \in Slippage :
            trade' = calculate_pnl(Here, calculate_trade_amount(balance[Here.buy][USDT]),
                                   slippage)
      BY <3>1
    <3>3. Here \in Opportunity /\ validate_opportunity(Here) /\ Here.buy \in Exchanges
      BY <1>1, HereValid
    <3>4. balance[Here.buy][USDT] \in Nat
      BY <3>1, <3>3 DEF TypeOK, StoreType, Holding, Tradable
    <3> QED
      BY <3>1, <3>2, <3>3, <3>4, PnlAffordable
  <2> QED
    BY <2>1, <2>2, TradeInHandStep
<1>4. pc' = "write" => seen' = [buy |-> balance[Here.buy], sell |-> balance[Here.sell]]
  BY TradeInHandStep DEF Safety, Sized
<1> QED
  BY <1>1, <1>2, <1>3, <1>4 DEF Sized

\* What update_balance_after_trade writes, from balances that are not stale.
LEMMA SolventStep ==
  ASSUME TypeOK, Safety, [Next]_vars
  PROVE  SolventInUsdt'
<1>1. CASE UNCHANGED balance
  BY <1>1 DEF Safety, SolventInUsdt
<1>2. CASE \A e \in Exchanges :
             balance'[e] = balance[e] \/ balance'[e][USDT] = InitialBalance[e]
  <2>1. \A e \in Exchanges : InitialBalance[e] >= 0
    BY ExecutorAssumption
  <2> QED
    BY <1>2, <2>1 DEF Safety, SolventInUsdt
<1>3. CASE pc = "write" /\ WriteBalances
  <2>1. /\ Here.buy \in Exchanges /\ Here.sell \in Exchanges /\ Here.buy # Here.sell
        /\ Here.symbol # USDT
    BY <1>3, HereValid, ExecutorAssumption DEF Trading
  <2>2. /\ seen = [buy |-> balance[Here.buy], sell |-> balance[Here.sell]]
        /\ Affordable(trade, balance[Here.buy][USDT])
    BY <1>3 DEF Safety, Sized, Published
  <2>3. /\ balance \in [Exchanges -> Holding]
        /\ \A e \in Exchanges : balance[e][USDT] \in Int /\ balance[e][USDT] >= 0
    BY DEF TypeOK, StoreType, Holding, Safety, SolventInUsdt
  <2>4. \A e \in Exchanges : balance'[e][USDT] =
          CASE e = Here.buy  -> balance[e][USDT] - BuyerPays(trade)
            [] e = Here.sell -> balance[e][USDT] + SellerGets(trade)
            [] OTHER         -> balance[e][USDT]
    BY <1>3, <2>1, <2>2, <2>3 DEF WriteBalances, Holding
  <2>5. trade.amount \in Nat /\ trade.buyFee \in Nat /\ SellerGets(trade) \in Int
    BY DEF TypeOK, TaskType, Trades, SellerGets
  <2>6. balance[Here.buy][USDT] - BuyerPays(trade) >= 0
    BY <2>1, <2>2, <2>3, <2>5 DEF Affordable, BuyerPays
  <2>7. balance[Here.sell][USDT] + SellerGets(trade) >= 0
    BY <2>1, <2>2, <2>3, <2>5 DEF Affordable
  <2> QED
    BY <2>1, <2>3, <2>4, <2>6, <2>7 DEF SolventInUsdt
<1> QED
  BY <1>1, <1>2, <1>3, BalanceStep
-----------------------------------------------------------------------------------
(* The kill switch. *)

LEMMA PendingCases ==
  ASSUME TypeOK
  PROVE  /\ Pending \in Nat
         /\ pc = "read" => Pending = ReadCount
         /\ Published => Pending = group - at
         /\ pc # "read" /\ ~Published => Pending = group + 1 - at
<1>1. /\ group \in Nat /\ at \in Nat /\ at <= group + 1 /\ ReadCount \in Nat
      /\ Published => at <= group
  BY ExecutorAssumption DEF TypeOK, StoreType, TaskType, Trading, Published
<1>2. CASE pc = "read"
  BY <1>1, <1>2 DEF Pending, Published
<1>3. CASE Published
  <2>1. Pending = group - at /\ pc # "read"
    BY <1>3 DEF Pending, Published
  <2> QED
    BY <1>1, <1>3, <2>1
<1>4. CASE pc # "read" /\ ~Published
  <2>1. Pending = group + 1 - at
    BY <1>4 DEF Pending, Published
  <2> QED
    BY <1>1, <1>4, <2>1
<1> QED
  BY <1>2, <1>3, <1>4

\* An engine that goes to the next entry, having published the current one or not.
LEMMA BoundedDone ==
  ASSUME TypeOK, Safety, Done, at <= group, group' = group,
         UNCHANGED <<killSwitch, ordered>>,
         \/ UNCHANGED sinceKill
         \/ ~Published /\ pc # "read" /\ AppendTrade
  PROVE  Bounded'
<1>1. /\ group \in Nat /\ at \in Nat /\ sinceKill \in Nat /\ ReadCount \in Nat
      /\ group + 1 - at <= ReadCount
      /\ killSwitch => ordered
  BY ExecutorAssumption DEF TypeOK, StoreType, TaskType, ControlType, Safety, Bounded
<1>2. Pending' = group' + 1 - at' /\ at' = at + 1
  BY DEF Pending, Published, Done
<1>3. killSwitch => sinceKill' + (group - at) <= ReadCount
  <2>1. CASE Published
    <3>1. killSwitch => sinceKill + (group - at) <= ReadCount
      BY <2>1 DEF Safety, Bounded, Pending, Published
    <3> QED
      BY <2>1, <3>1
  <2>2. CASE pc = "read"
    <3>1. killSwitch => sinceKill + ReadCount <= ReadCount
      BY <2>2 DEF Safety, Bounded, Pending, Published
    <3> QED
      BY <1>1, <2>2, <3>1
  <2>3. CASE ~Published /\ pc # "read"
    <3>1. killSwitch => sinceKill + (group + 1 - at) <= ReadCount
      BY <2>3 DEF Safety, Bounded, Pending, Published
    <3>2. sinceKill' = sinceKill \/ sinceKill' = sinceKill + 1
      BY DEF AppendTrade
    <3> QED
      BY <1>1, <3>1, <3>2
  <2> QED
    BY <2>1, <2>2, <2>3
<1>4. group' + 1 - at' <= ReadCount
  BY <1>1, <1>2
<1>5. killSwitch' => sinceKill' + Pending' <= ReadCount
  <2>1. group' + 1 - at' = group - at
    BY <1>1, <1>2
  <2> QED
    BY <1>2, <1>3, <2>1
<1> QED
  BY <1>1, <1>4, <1>5 DEF Bounded

LEMMA BoundedStep ==
  ASSUME TypeOK, Safety, [Next]_vars
  PROVE  Bounded'
<1>1. /\ group \in Nat /\ at \in Nat /\ at <= group + 1 /\ sinceKill \in Nat
      /\ ReadCount \in Nat \ {0}
  BY ExecutorAssumption DEF TypeOK, StoreType, TaskType, ControlType
<1>2. /\ group + 1 - at <= ReadCount
      /\ killSwitch => ordered
      /\ killSwitch => sinceKill + Pending <= ReadCount
  BY DEF Safety, Bounded
<1>3. CASE \/ Boot \/ CreateGroup \/ CreateGroupFails \/ Publish
           \/ SaveTrade \/ SaveTradeFails \/ ReadBalances
           \/ Validate /\ ~Done
           \/ GetBalance /\ ~Done
           \/ UNCHANGED vars
  <2>1. UNCHANGED <<group, at, killSwitch, ordered, sinceKill>>
    BY <1>3 DEF Boot, CreateGroup, CreateGroupFails, Publish, Validate, SaveTrade,
                SaveTradeFails, ReadBalances, GetBalance, redis, engine, operator, vars
  <2>2. Pending' = Pending
    BY <1>3, <2>1 DEF Boot, CreateGroup, CreateGroupFails, Publish, Validate,
                SaveTrade, SaveTradeFails, ReadBalances, GetBalance, vars, Pending, Published
  <2> QED
    BY <1>2, <2>1, <2>2 DEF Bounded
<1>4. CASE Crash
  <2>1. group' = group /\ at' = group + 1 /\ ~killSwitch'
    BY <1>4 DEF Crash, redis
  <2> QED
    BY <1>1, <2>1 DEF Bounded
<1>5. CASE Kill
  <2>1. UNCHANGED <<group, at, pc>> /\ ordered' /\ sinceKill' = 0
    BY <1>5 DEF Kill, redis, engine
  <2>2. Pending \in Int /\ Pending <= ReadCount
    BY <1>1, <1>2 DEF Pending
  <2>3. Pending' = Pending
    BY <2>1 DEF Pending, Published
  <2> QED
    BY <1>2, <2>1, <2>2, <2>3 DEF Bounded
<1>6. CASE Reset
  <2>1. UNCHANGED <<group, at>> /\ ~killSwitch'
    BY <1>6 DEF Reset, redis, engine
  <2> QED
    BY <1>2, <2>1 DEF Bounded
<1>7. CASE Poll
  <2>1. UNCHANGED <<group, at>> /\ ~killSwitch'
    BY <1>7 DEF Poll, redis, engine, operator
  <2> QED
    BY <1>2, <2>1 DEF Bounded
<1>8. CASE Read \/ ReadFails
  <2>1. /\ pc = "read" /\ pc' = "loop"
        /\ group' \in Nat /\ group' <= group + ReadCount
        /\ at' = group + 1 \/ at' = group' + 1
        /\ UNCHANGED <<killSwitch, ordered, sinceKill>>
    BY <1>1, <1>8, AfterReadBounds DEF Read, ReadFails, operator, TypeOK
  <2>2. group' + 1 - at' <= ReadCount
    BY <1>1, <2>1
  <2>3. killSwitch => sinceKill + ReadCount <= ReadCount
    BY <1>2, <2>1, PendingCases
  <2>4. Pending' = group' + 1 - at'
    BY <2>1 DEF Pending, Published
  <2>5. at' \in Int
    BY <1>1, <2>1
  <2>6. \A s, r \in Nat : \A p \in Int : s + r <= r /\ p <= r => s + p <= r
    OBVIOUS
  <2>7. group' + 1 - at' \in Int
    BY <2>1, <2>5
  <2>8. killSwitch => sinceKill + (group' + 1 - at') <= ReadCount
    BY <1>1, <2>2, <2>3, <2>6, <2>7
  <2>9. killSwitch' => sinceKill' + Pending' <= ReadCount
    BY <2>1, <2>4, <2>8
  <2> QED
    BY <1>2, <2>1, <2>2, <2>9 DEF Bounded
<1>9. CASE \/ Validate /\ Done
           \/ GetBalance /\ Done
           \/ DeadLetter \/ DeadLetterFails \/ GetBalanceFails \/ PublishTradeFails
           \/ ReadBalancesFails \/ UpdateBalances \/ UpdateBalancesFails
  <2>1. /\ Done /\ UNCHANGED <<group, killSwitch, ordered>>
        /\ Trading \/ pc = "dlq" \/ at <= group
        /\ \/ UNCHANGED sinceKill
           \/ pc = "publish" /\ AppendTrade
    BY <1>9 DEF Validate, DeadLetter, DeadLetterFails, GetBalance, GetBalanceFails,
                ReadBalancesFails, UpdateBalances, UpdateBalancesFails, PublishTradeFails,
                Abandon, redis, operator, Trading
  <2>2. at <= group
    BY <2>1 DEF TypeOK, TaskType
  <2> QED
    BY <2>1, <2>2, BoundedDone DEF Published
<1>10. CASE PublishTrade
  <2>1. /\ pc = "publish" /\ pc' = "save"
        /\ UNCHANGED <<group, at, killSwitch, ordered>>
        /\ sinceKill' = sinceKill \/ sinceKill' = sinceKill + 1
    BY <1>10 DEF PublishTrade, AppendTrade, redis, engine, operator
  <2>2. Pending = group + 1 - at /\ Pending' = group - at
    BY <2>1 DEF Pending, Published
  <2>3. killSwitch' => sinceKill' + Pending' <= ReadCount
    BY <1>1, <1>2, <2>1, <2>2
  <2> QED
    BY <1>2, <2>1, <2>3 DEF Bounded
<1> QED
  BY <1>3, <1>4, <1>5, <1>6, <1>7, <1>8, <1>9, <1>10
  DEF Next, EngineStep, Fault, Environment
-----------------------------------------------------------------------------------
(* The theorems. *)

LEMMA InitSafe == Init => Safety
<1> SUFFICES ASSUME Init PROVE Safety
  OBVIOUS
<1>1. DOMAIN trades = {} /\ DOMAIN applied = {} /\ DOMAIN deadLetters = {} /\ saved = {}
  BY DEF Init
<1>2. PassedEntries /\ InProgress /\ Sized
  BY <1>1 DEF Init, PassedEntries, InProgress, Sized, Published
<1>3. TradedAtMostOnce /\ BookedOnlyIfPublished
  BY <1>1 DEF TradedAtMostOnce, BookedOnlyIfPublished, Increasing
<1>4. SolventInUsdt
  BY DEF Init, SolventInUsdt, Nothing
<1>5. Bounded
  BY ExecutorAssumption DEF Init, Bounded
<1> QED
  BY <1>2, <1>3, <1>4, <1>5 DEF Safety

\* The inductive invariant: it holds in every reachable state.
THEOREM Safe == Spec => [](TypeOK /\ Safety)
<1>1. TypeOK /\ Safety /\ [Next]_vars => (TypeOK /\ Safety)'
  <2> SUFFICES ASSUME TypeOK, Safety, [Next]_vars
               PROVE  TypeOK' /\ Safety'
    OBVIOUS
  <2>1. TypeOK'
    BY StoreTypeStep, LedgerTypeStep, TaskTypeStep, ControlTypeStep DEF TypeOK
  <2> QED
    BY <2>1, PassedEntriesStep, InProgressStep, SizedStep, BoundedStep,
       TradedAtMostOnceStep, BookedStep, SolventStep DEF Safety
<1> QED
  BY InitTyped, InitSafe, <1>1, PTL DEF Spec

\* Executor: whatever fails or crashes, no opportunity is traded twice, and trades
\* are in the order of the stream.
THEOREM AtMostOnce == Spec => []TradedAtMostOnce
<1>1. Safety => TradedAtMostOnce
  BY DEF Safety
<1> QED
  BY Safe, <1>1, PTL

\* Executor: balances and rows never show a trade that was not published.
THEOREM PublishedFirst == Spec => []BookedOnlyIfPublished
<1>1. Safety => BookedOnlyIfPublished
  BY DEF Safety
<1> QED
  BY Safe, <1>1, PTL

\* Executor: an opportunity is traded, once, or dead-lettered, never both, and only a
\* valid one is traded.
THEOREM OneOutcome == Spec => []TradedOrDeadLettered
<1>1. ASSUME Safety PROVE TradedOrDeadLettered
  <2>1. /\ \A i \in DOMAIN trades : validate_opportunity(stream[trades[i].id])
        /\ \A k \in DOMAIN deadLetters : ~validate_opportunity(stream[deadLetters[k]])
    BY <1>1 DEF Safety, PassedEntries
  <2>2. TradedAtMostOnce
    BY <1>1 DEF Safety
  <2> QED
    BY <2>1, <2>2 DEF TradedOrDeadLettered
<1> QED
  BY Safe, <1>1, PTL

\* Executor: no exchange goes into debt in USDT, for any balances, prices and fees
\* within FeeAssumption.
THEOREM Solvent == Spec => []SolventInUsdt
<1>1. Safety => SolventInUsdt
  BY DEF Safety
<1> QED
  BY Safe, <1>1, PTL

\* Executor: what trades is within 10 % of the balance it is taken from.
THEOREM WithinLimit == Spec => PositionLimit
<1>1. TypeOK /\ Safety /\ [Next]_vars =>
        [\A i \in DOMAIN trades' \ DOMAIN trades :
           10 * trades'[i].trade.amount <= balance[stream[trades'[i].id].buy][USDT]]_vars
  <2> SUFFICES ASSUME TypeOK, Safety, [Next]_vars, NEW i \in DOMAIN trades' \ DOMAIN trades
               PROVE  10 * trades'[i].trade.amount
                        <= balance[stream[trades'[i].id].buy][USDT]
    OBVIOUS
  <2>1. pc = "publish" /\ AppendTrade
    BY TradesStep
  <2>2. trades \in Seq(Booked)
    BY DEF TypeOK, LedgerType
  <2>3. trades'[i] = [id |-> at, trade |-> trade]
    BY <2>1, <2>2 DEF AppendTrade
  <2>4. 10 * trade.amount <= balance[Here.buy][USDT]
    BY <2>1 DEF Safety, Sized, Affordable
  <2> QED
    BY <2>3, <2>4 DEF Here
<1> QED
  BY Safe, <1>1, PTL DEF Spec, PositionLimit

\* Executor: at most ReadCount trades are published after the kill switch is on.
THEOREM KillBounded == Spec => []KillBound
<1>1. TypeOK /\ Safety => KillBound
  <2> SUFFICES ASSUME TypeOK, Safety, killSwitch
               PROVE  sinceKill <= ReadCount
    BY DEF KillBound
  <2>1. sinceKill \in Nat /\ ReadCount \in Nat
    BY ExecutorAssumption DEF TypeOK, ControlType
  <2>2. Pending \in Nat
    BY PendingCases
  <2>3. sinceKill + Pending <= ReadCount
    BY DEF Safety, Bounded
  <2> QED
    BY <2>1, <2>2, <2>3
<1> QED
  BY Safe, <1>1, PTL
-----------------------------------------------------------------------------------
(* The engine is a consumer of its stream. *)

LEMMA InAppended ==
  ASSUME NEW S, NEW s \in Seq(S), NEW x \in S
  PROVE  /\ DOMAIN s \subseteq DOMAIN Append(s, x)
         /\ \A i \in DOMAIN s : Append(s, x)[i] = s[i]
         /\ \A i \in DOMAIN Append(s, x) : i \in DOMAIN s \/ Append(s, x)[i] = x
OBVIOUS

\* What every step does to the outputs: none is taken back, and only the entry in
\* progress gets one.
LEMMA KeptStep ==
  ASSUME TypeOK, Safety, [Next]_vars, NEW n
  PROVE  /\ Kept(n) => Kept(n)'
         /\ Kept(n)' => Kept(n) \/ (n = at /\ at <= group)
<1> DEFINE new == [id |-> at, trade |-> trade]
           Traded == \E i \in DOMAIN trades : trades[i].id = n
           Dead == \E k \in DOMAIN deadLetters : deadLetters[k] = n
<1>1. trades \in Seq(Booked) /\ new \in Booked /\ deadLetters \in Seq(Nat \ {0})
  BY DEF TypeOK, StoreType, LedgerType, TaskType, Booked
<1>2. (Traded => Traded') /\ (Traded' => Traded \/ (n = at /\ at <= group))
  <2>1. CASE UNCHANGED trades
    BY <2>1
  <2>2. CASE pc = "publish" /\ AppendTrade
    <3>1. trades' = Append(trades, new) /\ at <= group /\ new.id = at
      BY <2>2 DEF AppendTrade, TypeOK, TaskType, Trading
    <3> HIDE DEF new
    <3> QED
      BY <1>1, <3>1, InAppended
  <2> QED
    BY <2>1, <2>2, TradesStep
<1>3. (Dead => Dead') /\ (Dead' => Dead \/ (n = at /\ at <= group))
  <2>1. CASE UNCHANGED deadLetters
    BY <2>1
  <2>2. CASE pc = "dlq" /\ deadLetters' = Append(deadLetters, at)
    <3>1. at <= group /\ at \in Nat \ {0}
      BY <2>2 DEF TypeOK, TaskType
    <3> QED
      BY <1>1, <2>2, <3>1, InAppended
  <2> QED
    BY <2>1, <2>2, DeadLettersStep
<1> QED
  BY <1>2, <1>3 DEF Kept

\* Executor: the engine implements Consumer, so no opportunity is taken twice, out of
\* order or after it was lost.
THEOREM Consumes == Spec => ConsumesOnce
<1> DEFINE fates == [n \in 1 .. MaxStream |-> Fate(n)]
<1>1. Init => Opportunities!Init
  <2> SUFFICES ASSUME Init, NEW n \in 1 .. MaxStream
               PROVE  Fate(n) = "waiting"
    BY DEF Opportunities!Init
  <2>1. ~Kept(n)
    BY DEF Init, Kept
  <2>2. n > group /\ ~(n <= group) /\ n \notin at .. group
    BY ExecutorAssumption DEF Init
  <2> QED
    BY <2>1, <2>2 DEF Fate
<1>2. TypeOK /\ TypeOK' /\ Safety /\ Safety' /\ [Next]_vars => [Opportunities!Next]_fates
  <2> SUFFICES ASSUME TypeOK, TypeOK', Safety, Safety', [Next]_vars
               PROVE  Opportunities!Next
    OBVIOUS
  <2>0. /\ at \in Nat /\ at' \in Nat /\ group \in Nat /\ group' \in Nat
        /\ at <= at' /\ group <= group' /\ MaxStream \in Nat
    BY Progress, ExecutorAssumption
  <2>1. ASSUME NEW n \in 1 .. MaxStream
        PROVE  /\ Fate(n)' \in Opportunities!Fates
               /\ Fate(n)' = Fate(n) \/ <<Fate(n), Fate(n)'>> \in Opportunities!Moves
               /\ Fate(n)' = "waiting" <=> n > group'
    <3>1. n \in Nat
      BY <2>0
    <3>2. (Kept(n) => n <= group) /\ (Kept(n)' => n <= group')
      BY DEF Safety, PassedEntries, Kept
    <3>3. (Kept(n) => Kept(n)') /\ (Kept(n)' => Kept(n) \/ (n = at /\ at <= group))
      BY KeptStep
    <3>4. CASE Kept(n)
      <4>1. Fate(n) = "kept" /\ Fate(n)' = "kept"
        BY <2>0, <3>1, <3>2, <3>3, <3>4 DEF Fate
      <4> QED
        BY <2>0, <3>1, <3>2, <3>3, <3>4, <4>1 DEF Opportunities!Fates
    <3>5. CASE ~Kept(n) /\ n > group
      <4>1. /\ Fate(n) = "waiting"
            /\ Fate(n)' = IF n > group' THEN "waiting"
                          ELSE IF n \in at' .. group' THEN "held" ELSE "dropped"
        BY <2>0, <3>1, <3>3, <3>5 DEF Fate
      <4> QED
        BY <2>0, <3>1, <4>1 DEF Opportunities!Fates, Opportunities!Moves
    <3>6. CASE ~Kept(n) /\ n <= group /\ at <= n
      <4>1. /\ Fate(n) = "held"
            /\ Fate(n)' \in {"kept", "held", "dropped"}
        BY <2>0, <3>1, <3>6 DEF Fate
      <4> QED
        BY <2>0, <3>1, <3>6, <4>1 DEF Opportunities!Fates, Opportunities!Moves
    <3>7. CASE ~Kept(n) /\ n < at /\ n <= group
      <4>1. Fate(n) = "dropped" /\ Fate(n)' = "dropped"
        BY <2>0, <3>1, <3>3, <3>7 DEF Fate
      <4> QED
        BY <2>0, <3>1, <3>7, <4>1 DEF Opportunities!Fates
    <3> QED
      BY <2>0, <3>1, <3>4, <3>5, <3>6, <3>7
  <2>2. \A n \in 1 .. MaxStream : fates[n] = Fate(n) /\ fates'[n] = Fate(n)'
    OBVIOUS
  <2>3. fates' \in [1 .. MaxStream -> Opportunities!Fates]
    BY <2>1
  <2> HIDE DEF fates
  <2>4. \A n \in 1 .. MaxStream :
          fates'[n] = fates[n] \/ <<fates[n], fates'[n]>> \in Opportunities!Moves
    BY <2>1, <2>2
  <2>5. \A m, n \in 1 .. MaxStream :
          m < n /\ fates'[m] = "waiting" => fates'[n] = "waiting"
    <3> SUFFICES ASSUME NEW m \in 1 .. MaxStream, NEW n \in 1 .. MaxStream,
                        m < n, fates'[m] = "waiting"
                 PROVE  fates'[n] = "waiting"
      OBVIOUS
    <3>1. m > group'
      BY <2>1, <2>2
    <3>2. n > group'
      BY <2>0, <3>1
    <3> QED
      BY <2>1, <2>2, <3>2
  <2> QED
    BY <2>3, <2>4, <2>5, Zenon DEF Opportunities!Next, fates
<1> QED
  BY <1>1, <1>2, TypeCorrect, Safe, PTL DEF Spec, ConsumesOnce, Opportunities!Spec
-----------------------------------------------------------------------------------
(* The ledger: balances, counters and booked trades. *)

\* A booked trade is one of a valid opportunity that the engine has passed.
LEMMA AppliedValid ==
  ASSUME TypeOK, Safety, NEW k \in DOMAIN applied
  PROVE  /\ applied[k] \in Booked /\ applied[k].trade \in Trades
         /\ applied[k].id \in 1 .. Len(stream)
         /\ stream[applied[k].id] \in Opportunity
         /\ validate_opportunity(stream[applied[k].id])
<1>1. PICK i \in DOMAIN trades : trades[i] = applied[k]
  BY DEF Safety, BookedOnlyIfPublished
<1>2. trades[i] \in Booked
  BY <1>1 DEF TypeOK, LedgerType
<1>3. /\ trades[i].id <= group /\ validate_opportunity(stream[trades[i].id])
      /\ trades[i].id \in Nat \ {0} /\ trades[i].trade \in Trades
  BY <1>2 DEF Safety, PassedEntries, Booked
<1>4. stream \in Seq(Opportunity) /\ group \in 0 .. Len(stream)
  BY DEF TypeOK, StoreType
<1>5. applied[k].id \in 1 .. Len(stream)
  BY <1>1, <1>3, <1>4
<1> QED
  BY <1>1, <1>2, <1>3, <1>4, <1>5

\* What a trade changes is a number, and the number does not change as the stream grows.
LEMMA ChangeType ==
  ASSUME NEW b, b.trade \in Trades, NEW e, NEW a
  PROVE  Change(b, e, a) \in Int
<1>1. /\ b.trade.crypto \in Int /\ BuyerPays(b.trade) \in Int /\ SellerGets(b.trade) \in Int
  BY DEF Trades, BuyerPays, SellerGets
<1> QED
  BY <1>1 DEF Change

LEMMA ChangeStable ==
  ASSUME TypeOK, Safety, [Next]_vars, NEW k \in DOMAIN applied, NEW e, NEW a
  PROVE  /\ Change(applied[k], e, a) \in Int
         /\ \A b : b = applied[k] => Change(b, e, a)' = Change(applied[k], e, a)
<1>1. applied[k].trade \in Trades /\ stream'[applied[k].id] = stream[applied[k].id]
  BY AppliedValid, StreamStable
<1> QED
  BY <1>1, ChangeType DEF Change

\* What the booked trades have changed in asset a of exchange e.
Moved(e, a) == SumFunction([k \in DOMAIN applied |-> Change(applied[k], e, a)])

LEMMA NothingMoved ==
  ASSUME applied = <<>>, NEW e, NEW a
  PROVE  Moved(e, a) = 0
<1>1. DOMAIN [k \in DOMAIN applied |-> Change(applied[k], e, a)] = {}
  OBVIOUS
<1> QED
  BY <1>1, SumEmpty DEF Moved

LEMMA MovedSame ==
  ASSUME TypeOK, Safety, [Next]_vars, UNCHANGED applied, NEW e, NEW a
  PROVE  Moved(e, a)' = Moved(e, a)
<1> DEFINE now == [k \in DOMAIN applied |-> Change(applied[k], e, a)]
<1>1. \A k \in DOMAIN applied' : k \in DOMAIN applied /\ applied'[k] = applied[k]
  OBVIOUS
<1>2. now' = now
  BY <1>1, ChangeStable
<1> QED
  BY <1>2 DEF Moved

LEMMA MovedOn ==
  ASSUME TypeOK, Safety, [Next]_vars, pc = "write", WriteBalances, NEW e, NEW a
  PROVE  /\ Moved(e, a) \in Int
         /\ Moved(e, a)' = Moved(e, a) + Change([id |-> at, trade |-> trade], e, a)
<1> SUFFICES ASSUME NEW new, new = [id |-> at, trade |-> trade],
                    NEW now, now = [k \in DOMAIN applied |-> Change(applied[k], e, a)],
                    NEW next, next = [k \in DOMAIN applied |-> Change(applied[k], e, a)]'
             PROVE  /\ SumFunction(now) \in Int
                    /\ SumFunction(next) = SumFunction(now) + Change(new, e, a)
  BY DEF Moved
<1> DEFINE n == Len(applied)
<1>1. /\ applied \in Seq(Booked) /\ new \in Booked /\ new.id = at /\ new.trade = trade
      /\ trade \in Trades
  BY DEF TypeOK, StoreType, LedgerType, TaskType, Booked
<1>2. /\ n \in Nat /\ DOMAIN applied = 1 .. n /\ DOMAIN applied' = 1 .. n + 1
      /\ \A k \in 1 .. n : applied'[k] = applied[k]
      /\ applied'[n + 1] = new
  BY <1>1 DEF WriteBalances
<1>3. stream'[at] = stream[at]
  BY HereValid, StreamStable DEF Trading
<1>4. Change(new, e, a) \in Int /\ Change(new, e, a)' = Change(new, e, a)
  <2>1. Change(new, e, a) \in Int
    BY <1>1, ChangeType
  <2>2. Change(new, e, a)' = Change(new, e, a)
    BY <1>1, <1>3 DEF Change
  <2> QED
    BY <2>1, <2>2
<1>5. \A k \in 1 .. n : next[k] = now[k] /\ next[k] \in Int
  BY <1>2, ChangeStable
<1>6. next[n + 1] = Change(new, e, a)
  BY <1>2, <1>4
<1> HIDE DEF n
<1>7. /\ DOMAIN now = 1 .. n /\ DOMAIN next = 1 .. n + 1
      /\ \A k \in 1 .. n + 1 : next[k] \in Int
  <2>1. DOMAIN now = 1 .. n /\ DOMAIN next = 1 .. n + 1
    BY <1>2
  <2>2. ASSUME NEW k \in 1 .. n + 1 PROVE k \in 1 .. n \/ k = n + 1
    BY <1>2
  <2> QED
    BY <1>4, <1>5, <1>6, <2>1, <2>2
<1>8. \A k \in 1 .. n : now[k] = next[k]
  BY <1>5
<1>9. SumFunction(next) = SumFunction(now) + next[n + 1] /\ SumFunction(now) \in Int
  BY ONLY <1>2, <1>7, <1>8, SumExtended
<1> QED
  BY ONLY <1>6, <1>9

\* Start-up funds exchanges only before the first trade, and trading waits for it.
LEMMA AllFundedStep ==
  ASSUME TypeOK, AllFunded, [Next]_vars
  PROVE  AllFunded'
<1>1. funded \subseteq Exchanges
  BY DEF TypeOK, StoreType
<1>2. CASE Boot
  BY <1>1, <1>2 DEF Boot, AllFunded, ledger
<1>3. CASE ~Boot
  <2>1. UNCHANGED funded /\ (pc' # "down" => pc # "down")
    BY <1>3 DEF Next, EngineStep, Fault, Environment, Crash, CreateGroup, CreateGroupFails,
       Publish, Kill, Reset, Poll, Read, ReadFails, Validate, DeadLetter,
       DeadLetterFails, GetBalance, GetBalanceFails, PublishTrade, PublishTradeFails,
       SaveTrade, SaveTradeFails, ReadBalances, ReadBalancesFails, UpdateBalances,
       UpdateBalancesFails, Abandon, Done, Serving, redis, vars
  <2>2. applied' = applied \/ pc = "write"
    BY AppliedStep
  <2> QED
    BY <2>1, <2>2 DEF AllFunded
<1> QED
  BY <1>2, <1>3

\* What a write does to each balance is the change that its trade books.
LEMMA WriteIsChange ==
  ASSUME TypeOK, Safety, pc = "write", WriteBalances,
         NEW e \in Exchanges, NEW a \in {USDT} \cup Assets
  PROVE  /\ balance[e][a] \in Int
         /\ balance'[e][a] = balance[e][a] + Change([id |-> at, trade |-> trade], e, a)
<1>1. /\ Here.buy \in Exchanges /\ Here.sell \in Exchanges /\ Here.buy # Here.sell
      /\ Here.symbol \in Assets /\ Here.symbol # USDT
  BY HereValid, ExecutorAssumption DEF Trading
<1>2. seen = [buy |-> balance[Here.buy], sell |-> balance[Here.sell]]
  BY DEF Safety, Sized
<1>3. /\ balance \in [Exchanges -> Holding]
      /\ \A x \in Exchanges : \A c \in {USDT} \cup Assets : balance[x][c] \in Int
      /\ \A x \in Exchanges : DOMAIN balance[x] = {USDT} \cup Assets
  BY DEF TypeOK, StoreType, Holding
<1>4. /\ BuyerPays(trade) \in Int /\ SellerGets(trade) \in Int /\ trade.crypto \in Int
  BY DEF TypeOK, TaskType, Trades, BuyerPays, SellerGets
<1>5. Change([id |-> at, trade |-> trade], e, a) =
        CASE e = Here.buy  /\ a = USDT        -> -BuyerPays(trade)
          [] e = Here.buy  /\ a = Here.symbol -> trade.crypto
          [] e = Here.sell /\ a = USDT        -> SellerGets(trade)
          [] e = Here.sell /\ a = Here.symbol -> -trade.crypto
          [] OTHER -> 0
  BY DEF Change, Here
<1>6. CASE e = Here.buy
  <2>1. balance'[e][a] = IF a = USDT THEN balance[e][USDT] - BuyerPays(trade)
                         ELSE IF a = Here.symbol THEN balance[e][a] + trade.crypto
                         ELSE balance[e][a]
    BY <1>1, <1>2, <1>3, <1>6 DEF WriteBalances
  <2> QED
    BY <1>1, <1>3, <1>4, <1>5, <1>6, <2>1
<1>7. CASE e = Here.sell
  <2>1. balance'[e][a] = IF a = USDT THEN balance[e][USDT] + SellerGets(trade)
                         ELSE IF a = Here.symbol THEN balance[e][a] - trade.crypto
                         ELSE balance[e][a]
    BY <1>1, <1>2, <1>3, <1>7 DEF WriteBalances
  <2> QED
    BY <1>1, <1>3, <1>4, <1>5, <1>7, <2>1
<1>8. CASE e # Here.buy /\ e # Here.sell
  <2>1. balance'[e][a] = balance[e][a]
    BY <1>3, <1>8 DEF WriteBalances
  <2> QED
    BY <1>1, <1>3, <1>5, <1>8, <2>1
<1> QED
  BY <1>6, <1>7, <1>8

\* Executor: no update of a balance is lost, and none starts from a stale balance.
LEMMA ExplainedStep ==
  ASSUME TypeOK, Safety, AllFunded, BalancesExplained, [Next]_vars
  PROVE  BalancesExplained'
<1> DEFINE Start(e, a) == IF a = USDT THEN InitialBalance[e] ELSE 0
<1>1. /\ \A e \in funded, a \in {USDT} \cup Assets : balance[e][a] = Start(e, a) + Moved(e, a)
      /\ funded \subseteq Exchanges /\ funded' \subseteq Exchanges
      /\ \A e \in Exchanges, a \in {USDT} \cup Assets : Start(e, a) \in Int
  <2>1. funded' \subseteq Exchanges
    BY StoreTypeStep DEF StoreType
  <2>2. \A e \in Exchanges : InitialBalance[e] \in Int
    BY ExecutorAssumption
  <2>3. \A e \in Exchanges, a \in {USDT} \cup Assets : Start(e, a) \in Int
    BY <2>2
  <2>4. \A e \in funded, a \in {USDT} \cup Assets :
          balance[e][a] = Start(e, a) + Moved(e, a)
    BY DEF BalancesExplained, Moved
  <2>5. funded \subseteq Exchanges
    BY DEF TypeOK, StoreType
  <2> QED
    BY <2>1, <2>3, <2>4, <2>5
<1> SUFFICES ASSUME NEW e \in funded', NEW a \in {USDT} \cup Assets
             PROVE  balance'[e][a] = Start(e, a) + Moved(e, a)'
  BY DEF BalancesExplained, Moved
<1>2. CASE Boot
  <2>1. UNCHANGED applied
    BY <1>2 DEF Boot, ledger
  <2>2. PICK done \in SUBSET (Exchanges \ funded) :
          /\ funded' = funded \cup done
          /\ balance' = [x \in Exchanges |->
               IF x \in done THEN [Nothing EXCEPT ![USDT] = InitialBalance[x]]
                             ELSE balance[x]]
    BY <1>2 DEF Boot
  <2>3. CASE e \in done
    <3>1. balance'[e][a] = Start(e, a)
      BY <1>1, <2>2, <2>3 DEF Nothing
    <3>2. applied' = <<>>
      BY <2>1, <2>2, <2>3 DEF AllFunded
    <3>3. Moved(e, a) = 0
      BY <2>1, <3>2, NothingMoved
    <3>4. Moved(e, a)' = 0
      BY <2>1, <3>3, MovedSame
    <3> QED
      BY <1>1, <3>1, <3>4
  <2>4. CASE e \notin done
    <3>1. e \in funded /\ balance'[e][a] = balance[e][a]
      BY <1>1, <2>2, <2>4
    <3> QED
      BY <1>1, <2>1, <3>1, MovedSame
  <2> QED
    BY <2>3, <2>4
<1>3. CASE ~Boot /\ UNCHANGED applied
  <2>1. UNCHANGED <<funded, balance>>
    BY <1>3 DEF Next, EngineStep, Fault, Environment, Crash, CreateGroup, CreateGroupFails,
       Publish, Kill, Reset, Poll, Read, ReadFails, Validate, DeadLetter,
       DeadLetterFails, GetBalance, GetBalanceFails, PublishTrade, PublishTradeFails,
       SaveTrade, SaveTradeFails, ReadBalances, ReadBalancesFails, UpdateBalances,
       UpdateBalancesFails, WriteBalances, Abandon, Done, redis, vars
  <2> QED
    BY <1>1, <1>3, <2>1, MovedSame
<1>4. CASE ~Boot /\ pc = "write" /\ WriteBalances
  <2>1. funded = Exchanges
    BY <1>4 DEF AllFunded
  <2>2. e \in Exchanges /\ balance[e][a] = Start(e, a) + Moved(e, a)
    BY <1>1, <2>1
  <2>3. Change([id |-> at, trade |-> trade], e, a) \in Int
    BY ChangeType DEF TypeOK, TaskType
  <2> QED
    BY <1>1, <1>4, <2>2, <2>3, WriteIsChange, MovedOn
<1> QED
  BY <1>2, <1>3, <1>4, AppliedStep

\* Without faults, entries are finished one by one, each with everything it needs.
LEMMA CompleteStep ==
  ASSUME TypeOK, Safety, SavedBeforeBooked, CompleteWithoutFaults, [Next]_vars
  PROVE  SavedBeforeBooked' /\ CompleteWithoutFaults'
<1> SUFFICES ASSUME errors' = 0, crashes' = 0
             PROVE  /\ pc' \in {"update", "write"} => at' \in saved'
                    /\ \A i \in DOMAIN trades' : trades'[i].id < at' =>
                         /\ trades'[i].id \in saved'
                         /\ \E k \in DOMAIN applied' : applied'[k] = trades'[i]
                    /\ tradesExecuted' = Len(applied')
                    /\ totalPnl' = SumFunction([k \in DOMAIN applied' |->
                                                  applied'[k].trade.net])
  BY DEF SavedBeforeBooked, CompleteWithoutFaults
<1>1. /\ ~Fault /\ ~Crash
      /\ errors = 0 /\ crashes = 0
  <2>1. errors \in Nat /\ crashes \in Nat
    BY DEF TypeOK, ControlType
  <2> QED
    BY <2>1 DEF Next, EngineStep, Fault, Environment, Boot, Crash, CreateGroup,
       CreateGroupFails,
       Publish, Kill, Reset, Poll, Read, ReadFails, Validate, DeadLetter,
       DeadLetterFails, GetBalance, GetBalanceFails, PublishTrade, PublishTradeFails,
       SaveTrade, SaveTradeFails, ReadBalances, ReadBalancesFails, UpdateBalances,
       UpdateBalancesFails, Abandon, Done, vars
<1>2. /\ pc \in {"update", "write"} => at \in saved
      /\ \A i \in DOMAIN trades : trades[i].id < at =>
           trades[i].id \in saved /\ \E k \in DOMAIN applied : applied[k] = trades[i]
      /\ tradesExecuted = Len(applied)
      /\ totalPnl = SumFunction([k \in DOMAIN applied |-> applied[k].trade.net])
  BY <1>1 DEF SavedBeforeBooked, CompleteWithoutFaults
<1>3. /\ trades \in Seq(Booked) /\ applied \in Seq(Booked)
      /\ at \in Nat /\ [id |-> at, trade |-> trade] \in Booked
      /\ \A i \in DOMAIN trades : trades[i].id \in Nat
  <2>1. /\ trades \in Seq(Booked) /\ applied \in Seq(Booked)
        /\ at \in Nat \ {0} /\ trade \in Trades
    BY DEF TypeOK, StoreType, LedgerType, TaskType
  <2>2. \A i \in DOMAIN trades : trades[i] \in Booked
    BY <2>1
  <2> QED
    BY <2>1, <2>2 DEF Booked
<1>4. CASE UNCHANGED <<at, trades, saved, applied, tradesExecuted, totalPnl>>
             /\ (pc' \in {"update", "write"} => pc \in {"update", "write"})
  BY <1>2, <1>4
<1>5. CASE UNCHANGED <<trades, saved, applied, tradesExecuted, totalPnl>>
             /\ ~Published /\ pc' \notin {"update", "write"}
  <2>1. \A i \in DOMAIN trades : trades[i].id < at
    BY <1>5 DEF Safety, PassedEntries
  <2> QED
    BY <1>2, <1>5, <2>1
<1>6. CASE PublishTrade
  <2>1. /\ UNCHANGED <<at, saved, applied, tradesExecuted, totalPnl>> /\ pc' = "save"
        /\ trades' = Append(trades, [id |-> at, trade |-> trade])
    BY <1>6 DEF PublishTrade, AppendTrade, engine
  <2>2. ASSUME NEW i \in DOMAIN trades', trades'[i].id < at'
        PROVE  i \in DOMAIN trades /\ trades'[i] = trades[i]
    BY <1>3, <2>1, <2>2, InAppended
  <2> QED
    BY <1>2, <2>1, <2>2
<1>7. CASE SaveTrade
  BY <1>2, <1>7 DEF SaveTrade, engine
<1>8. CASE UpdateBalances
  <2>1. /\ pc = "write" /\ pc' = "loop" /\ at' = at + 1 /\ UNCHANGED <<trades, saved>>
        /\ applied' = Append(applied, [id |-> at, trade |-> trade])
        /\ tradesExecuted' = tradesExecuted + 1
        /\ totalPnl' = totalPnl + trade.net
    BY <1>8 DEF UpdateBalances, WriteBalances, Done
  <2>2. ASSUME NEW i \in DOMAIN trades, trades[i].id < at + 1
        PROVE  trades[i].id \in saved /\ \E k \in DOMAIN applied' : applied'[k] = trades[i]
    <3>1. CASE trades[i].id < at
      <4>1. PICK k \in DOMAIN applied : applied[k] = trades[i]
        BY <1>2, <3>1
      <4>2. k \in DOMAIN applied' /\ applied'[k] = applied[k]
        BY <1>3, <2>1, InAppended
      <4> QED
        BY <1>2, <3>1, <4>1, <4>2
    <3>2. CASE trades[i].id = at
      <4>1. PICK j \in DOMAIN trades : trades[j] = [id |-> at, trade |-> trade]
        BY <2>1 DEF Safety, InProgress, Published
      <4>2. i = j
        <5>1. ~(i < j) /\ ~(j < i)
          BY <1>3, <3>2, <4>1 DEF Safety, TradedAtMostOnce, Increasing
        <5> QED
          BY <1>3, <5>1
      <4>3. Len(applied) + 1 \in DOMAIN applied' /\
            applied'[Len(applied) + 1] = [id |-> at, trade |-> trade]
        BY <1>3, <2>1
      <4> QED
        BY <1>2, <2>1, <3>2, <4>1, <4>2, <4>3
    <3> QED
      BY <1>3, <2>2, <3>1, <3>2
  <2>3. totalPnl' = SumFunction([k \in DOMAIN applied' |-> applied'[k].trade.net])
    <3> SUFFICES ASSUME NEW old, old = [k \in DOMAIN applied |-> applied[k].trade.net],
                        NEW new, new = [k \in DOMAIN applied' |-> applied'[k].trade.net],
                        NEW n, n = Len(applied)
                 PROVE  totalPnl' = SumFunction(new)
      OBVIOUS
    <3>1. /\ n \in Nat /\ DOMAIN old = 1 .. n /\ DOMAIN new = 1 .. n + 1
          /\ \A k \in 1 .. n : old[k] = new[k]
          /\ new[n + 1] = trade.net
      BY <1>3, <2>1
    <3>2. \A k \in 1 .. n + 1 : new[k] \in Int
      <4>1. \A k \in 1 .. n + 1 : applied'[k] \in Booked
        BY <1>3, <2>1
      <4> QED
        BY <3>1, <4>1 DEF Booked, Trades
    <3>3. SumFunction(new) = SumFunction(old) + new[n + 1]
      BY ONLY <3>1, <3>2, SumExtended
    <3> QED
      BY <1>2, <2>1, <3>1, <3>3
  <2>4. tradesExecuted' = Len(applied')
    BY <1>2, <1>3, <2>1
  <2> QED
    BY <2>1, <2>2, <2>3, <2>4
<1>9. CASE \/ Boot \/ CreateGroup \/ Poll \/ Read \/ Validate \/ DeadLetter \/ GetBalance
           \/ ReadBalances \/ Publish \/ Kill \/ Reset \/ UNCHANGED vars
  BY <1>4, <1>5, <1>9
  DEF Published, Boot, CreateGroup, Poll, Read, Validate, DeadLetter, GetBalance,
      ReadBalances, Publish, Kill, Reset, Done, ledger, engine, vars
<1> QED
  BY <1>1, <1>6, <1>7, <1>8, <1>9 DEF Next, EngineStep, Environment

LEMMA InitLedger == Init => Ledger
<1> SUFFICES ASSUME Init PROVE Ledger
  OBVIOUS
<1>1. DOMAIN applied = {} /\ DOMAIN trades = {} /\ applied = <<>> /\ Len(applied) = 0
  BY DEF Init
<1>2. DOMAIN [k \in DOMAIN applied |-> applied[k].trade.net] = {}
  BY <1>1
<1>3. SumFunction([k \in DOMAIN applied |-> applied[k].trade.net]) = 0
  BY <1>2, SumEmpty
<1>4. CompleteWithoutFaults
  BY <1>1, <1>3 DEF Init, CompleteWithoutFaults
<1>5. AllFunded /\ BalancesExplained /\ SavedBeforeBooked
  BY <1>1 DEF Init, AllFunded, BalancesExplained, SavedBeforeBooked
<1> QED
  BY <1>4, <1>5 DEF Ledger

\* Executor: the ledger is inductive on top of the other safety properties.
LEMMA LedgerKept == Spec => []Ledger
<1>1. TypeOK /\ Safety /\ Ledger /\ [Next]_vars => Ledger'
  BY AllFundedStep, ExplainedStep, CompleteStep DEF Ledger
<1> QED
  BY InitLedger, Safe, <1>1, PTL DEF Spec

\* Executor: whatever fails or crashes, each balance of Redis is what start-up put there
\* and the sum of the trades booked since: update_balance_after_trade, which reads in one
\* pipeline and writes in another, loses no update.
THEOREM BalancesAreSums == Spec => []BalancesExplained
<1>1. Ledger => BalancesExplained
  BY DEF Ledger
<1> QED
  BY LedgerKept, <1>1, PTL

\* Executor: until something fails, a published trade that the engine has left is saved
\* and booked, and trades_executed and total_pnl count exactly the booked trades.
THEOREM AllOrNothing == Spec => []CompleteWithoutFaults
<1>1. Ledger => CompleteWithoutFaults
  BY DEF Ledger
<1> QED
  BY LedgerKept, <1>1, PTL
===================================================================================
