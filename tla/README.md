# A verification project for the arbitrage paper-trading system

TLA+ models of the services in this repository, TLC configurations that check
them on small instances, and TLAPS proofs of the properties that matter most.

## 1. The system

Five services and a gateway for the browser exchange data through Redis streams and a
TimescaleDB database.

| component | state it keeps | operations | talks to |
|---|---|---|---|
| collector (`collector/`) | one WebSocket task per exchange, a metrics table, the batch writer's buffer | watch tickers, fall back to REST, reconnect, publish, flush | writes stream `prices`, table `prices` |
| scanner (`scanner/`) | price cache (50 symbols, 20 exchanges each, 5 s), deduplication map (5 s) | read `prices`, compute spreads, publish, save | reads `prices`, writes stream `opportunities` and a table |
| executor (`executor/`) | virtual balances in Redis, kill switch and counters in memory | read `opportunities`, validate, size, compute P&L, publish, save, book; kill switch on and off | writes streams `trades` and `dead_letter_trades`, table `trades`, keys `balance:*` |
| notifier (`notifier/`) | the entries read, a queue that nothing fills | read `opportunities` and `trades`, send to each chat; Telegram commands | Telegram; the set of chats in Redis; the executor |
| api-gateway (`api-gateway/`) | circuit breaker, set of WebSocket clients, rate limiter | proxy, query, broadcast | reads every stream and table |
| frontend, session and connection (`lib/api.ts`, `authStore.ts`, `useWebSocket.ts`, `Layout.tsx`) | a token, sockets and reconnect timers, the flag behind "Live" | sign in and out, 401 interceptor, mount and unmount, reconnect | api-gateway |
| frontend, lists and pages (`dashboardStore.ts`, `pages/`) | latest prices, opportunities, trades; filters | apply messages and answers, compute figures | session and connection |
| frontend, settings page (`pages/Settings.tsx`) | the form, what Reset restores | load, edit, save, reset, kill switch | the gateway's settings table |
| frontend, component library (`components/ui/`, `use-mobile.ts`) | sidebar, carousel; else none | toggle, resize, scroll; render | imported by no page yet |
| shared (`shared/`) | the connection pool | create, close | all services |

Every service is one asyncio process (and the frontend one event loop of the browser,
where a callback takes the part of the code after an await): a task runs undisturbed from one `await`
to the next, and everything else (HTTP handlers, other tasks, other services,
faults) happens in between. That is the grain of the models: **one action is one
await**, the effect of the awaited call together with the code after it up to the
next await.

### What makes each part correct, and what is hard about it

* **executor**: an opportunity is traded at most once and ends in one place
  (traded, refused, dead-lettered); a trade is published before it is saved and
  booked; balances are the sum of the booked trades and never negative in USDT;
  a position is at most 10 % of the balance; the kill switch bounds what still
  happens. Hard: three stores written one after the other, each of which may fail
  with or without effect; crashes between any two awaits; balances read awaits
  before they are used; the kill switch looked at between batches only; decimal
  rounding against exact limits.
* **scanner**: no opportunity from a price older than 5 s; one opportunity per key
  and time to live, published if at all. Hard: the mark set before the publication
  it stands for; errors in the middle of a list; eviction while iterating.
* **collector**: a feed brings ticks again after any failure until it is stopped, and
  loses no client it opened; a record is written at least once, or counted as lost.
  Hard: `start()` and `stop()` closing one client; counters reset before the success
  they count; a flush awaiting the database while records arrive; stopping during a
  flush.
* **api-gateway**: a breaker that is open admits nothing until its timeout, then a
  probe; the settings table holds what a page believes it saved. Hard: calls begun in
  one state that end in another, cancellation, keys written one by one.
* **notifier**: a chat hears of each due entry once and in stream order; a failed message
  costs no other. Hard: two streams in one loop, a failure or the end of the process
  between two chats.
* **frontend**: connections neither vanish nor multiply within one run of the hook's
  effect, and "Live" is said of one that is open; no request without a token, no session
  ended without a 401; each list shows the latest rows once; the pages agree on their
  figures. Hard: timers and callbacks of sockets that are no longer current, answers of
  an earlier session, a clean-up that stops less than the effect started, edits during
  a save, two flags for one sidebar.

## 2. Plan

In the order of importance; a * marks modules with theorems.

1. `TradeMath`*, the arithmetic, with its theorem in `ExecutorProofs`. Done.
2. `Executor`*, `ExecutorInvariants`, `ExecutorProofs`, the engine. Done.
3. `CircuitBreaker`*, under concurrent calls, cancellation and time. Done.
4. `BatchWriter`*: buffer, flush, failed flush, stop. Done.
5. `Consumer`, what a reader of a Redis stream promises; `Executor`* and `BatchWriter`*
   implement it. Done. The scanner does not: a tick has no output of its own there, it goes
   into the cache and is compared with others.
6. `PriceCache`, `Scanner`*: cache, deduplication and the scanner loop. Done.
7. `WsClient`*: watch, fallback, reconnect and stop of a feed. Done.
8. `Session`, `UseWebSocket`, composed in `Console`*: sign-in and connection of a tab. Done.
9. `DashboardStore`* and `Pages`*: lists, and what the pages compute from them. Done.
10. `SettingsPage`*, the page with the handlers it calls. Done.
11. `UiSidebar`*, `UiCarousel`*, `UiChart`*, `UiInputs`*, the components that have
    state or compute something; `UiShown`*, those without state together. Done.
    `MCScreens` runs these and 9 and 10.
12. `Notifier`*: the loop over two streams and the messages to each chat. Done.
    `MCServices` runs it and 3.
13. Not done, with the reasons in section 6: the WebSocket hub, the rate limiter, the
    pools; compositions of two services over one stream.

Every invariant and action property of the passing runs is proved (section 5). What is left is
breadth: item 13, and the parts of the notifier and the gateway that section 6 lists.

## 3. Modules

### TradeMath

`validate_opportunity`, `validate_trade_amount`, `calculate_trade_amount`,
`check_max_position`, `calculate_pnl` and the two amounts that
`update_balance_after_trade` books, in integers. The code computes with `Decimal` and
quantizes each result, so an integer count of quanta is exact: money in 1/10000
USDT, percentages in basis points, crypto in 1/`CryptoScale` of a coin (10^8 in the
code; a parameter, because TLC's integers have 32 bits). `HalfUp` is
`quantize(..., ROUND_HALF_UP)`. The random slippage is an argument, because
`Executor` chooses it from the set `calculate_slippage` can return.

### Executor

| variable | in the code |
|---|---|
| `stream`, `group` | Redis stream `opportunities` and the last entry delivered to `executor-cg` |
| `funded`, `balance` | keys `balance:<exchange>` and their hashes |
| `trades`, `saved`, `deadLetters` | stream `trades`, table `trades`, stream `dead_letter_trades` |
| `pc`, `at` | the await the engine task is in, and the entry it is at; `at .. group` is the batch it holds |
| `trade`, `seen` | `pnl_result` of the entry; the balances `update_balance_after_trade` read |
| `killSwitch` | `engine.kill_switch` and `app_status["kill_switch_active"]`, set together |
| `tradesExecuted`, `totalPnl` | counters of the engine |
| `applied`, `ordered`, `sinceKill` | history, read by no action |
| `errors`, `crashes`, `kills` | bounds |

| action | in the code |
|---|---|
| `Boot` | `lifespan` up to `create_task`; an exception leaves some balances set |
| `CreateGroup`, `CreateGroupFails` | `xgroup_create`; an error other than "already exists" ends the task |
| `Poll` | top of the loop, with the kill switch consulted |
| `Read`, `ReadFails` | `xreadgroup`: up to `ReadCount` new entries; a failed call may have delivered them |
| `Validate`, `DeadLetter` | parsing, `validate_opportunity`, `dlq.add` |
| `GetBalance` | `get_balance`, the three checks, `calculate_pnl` |
| `PublishTrade`, `SaveTrade` | the `xadd`; `_save_trade`, which swallows its errors |
| `ReadBalances`, `UpdateBalances` | the two pipelines; the second is a MULTI transaction |
| `...Fails` | the awaited call raises, with or without its effect; `except Exception` ends the entry |
| `Crash` | the process ends at any await: a crash, or the cancellation by `lifespan` |
| `Publish`, `Kill`, `Reset` | the scanner, the two HTTP handlers |

Redis is durable (`appendonly` in docker-compose) and outlives the process; the
memory of the engine does not. Nothing is ever acknowledged (`XACK`) and only new
entries are read, so the pending list of the group plays no part.

`ExecutorInvariants` adds the assumption on fees that `shared/config.py` and
`spread_calculator.py` justify, and `Safety`, the inductive invariant.

### Consumer

The abstract specification of a service that reads a stream through a consumer group
with `">"` and never acknowledges: each entry is *waiting*, then *held* in memory, then
*kept* (its output is written) or *dropped*; kept and dropped are final, and entries
leave *waiting* in stream order. `Executor` and `BatchWriter` implement it under the
refinement mapping `Fate`: for the engine, an entry is kept when it has a trade or a
dead letter, held in `at .. group`, dropped when it lies before `at` without an output
(refused, unparsable, failed, or lost in a crash); for the writer, an entry is held
in the buffer or a batch and kept when it has a row.

### PriceCache and Scanner

`PriceCache` is the pure part: `_data`, an `OrderedDict` of dicts, is a sequence of
symbols, least recently updated first, each with its ticks in insertion order (the order
decides which pair a list of opportunities begins with). An opportunity keeps its two
ticks and the time it was detected; fees and the net spread are left out.

| variable | in the code |
|---|---|
| `now` | `time.time()`, of the collector that stamps ticks and of the scanner |
| `prices`, `group`, `out`, `saved` | stream `prices` and the last entry delivered to `scanner-cg`, stream `opportunities`, table `opportunities` |
| `pc` | the await `scanner_loop` is in |
| `cache`, `seen` | `price_cache._data`, `dedup._seen` |
| `opp`, `todo` | `opp` and the rest of the list of the `for` loop |
| `marked` | history: `_seen` if it were never cleaned |

| action | in the code |
|---|---|
| `CreateGroup`, `CreateGroupFails` | `xgroup_create` |
| `Read` | `xreadgroup`, the updates of the cache, `calculate_all_spreads`, and `Offer` |
| `Offer` (operator) | `for opp in opportunities` up to its next await: duplicates are skipped, the first that is none is marked |
| `PublishOpportunity`, `SaveOpportunity` | the two awaits of the loop body; the second goes on with `Offer` |
| `SaveOpportunityFails` | `save_opportunity_to_db` swallows its exceptions |
| `ReadFails`, `PublishOpportunityFails`, `Wake` | the handler of the loop: the rest of the list is dropped, `sleep(1)` |
| `Crash`, `Boot`, `Publish`, `Advance` | the process, the collector, the clock |

An entry of `out` carries, as history, the process that added it and the time at which
that process marked its key.

### CircuitBreaker

`call` has one await, the protected function, so a call is two actions, `Start` and an
end, in any order with those of other callers. No service calls the class yet; the
callers are arbitrary tasks.

| variable, action | in the code |
|---|---|
| `state`, `failure_count`, `half_open_calls` | the fields of those names |
| `cooled` | `now - last_failure_time >= recovery_timeout`; `Elapse` makes it true |
| `running` | callers awaiting the protected function |
| `probes` | history: the test calls under way, let in since the breaker became half-open |
| `kept`, `strays` | history, since then: slots kept by cancelled test calls; slots given back by failures of calls that never had one |
| `StartClosed`, `StartFirstProbe`, `StartProbe` | `call` up to the await, by the state it finds |
| `Succeed`, `Fail` | `_on_success`; `except Exception` and `_on_failure` |
| `Cancel` | `CancelledError`, which is not an `Exception`: neither handler runs |

A refused call (`CircuitBreakerOpen`) changes nothing and is no step. `SlotsHeld` says how
far the counter of slots and the test calls come apart: more of these are under way than
there are slots by the strays only, and a slot that is taken is a test call's or was kept.

### BatchWriter

| variable | in the code |
|---|---|
| `published`, `group` | length of Redis stream `prices`, last entry delivered to `writer-cg` |
| `rows` | rows of each tick in table `prices`, which has no unique key |
| `reader`, `stopper` | the await the task `start()` and the shutdown's `stop()` are in |
| `running`, `buffer` | the fields of those names |
| `batch`, `lastBatch` | the local `batch` of `_flush` in the reader and in the shutdown |

| action | in the code |
|---|---|
| `Boot`, `BootWithoutWriter` | `lifespan`: the writer is created only when Redis and the database are connected |
| `CreateGroup`, `CreateGroupFails` | `xgroup_create` |
| `Read` | `xreadgroup` and the code up to the next await: a full buffer starts a flush, so does a read that times out with ticks in the buffer |
| `ReadFails`, `Wake` | the exception handler of the loop and its `sleep(1)` |
| `Flush`, `FlushFails` | the INSERT of the reader's `_flush`; on failure at most 100 ticks (`Requeue`) go back in front of the buffer |
| `Stop`, `StopFlush`, `StopFlushFails` | `stop()` and its own `_flush` |
| `Exit` | the pools are closed and the process ends; `Pool.close` waits for a flush the reader is in |
| `Crash`, `Publish` | the end of the process; the WebSocket tasks of the same service |

### Notifier

| variable | in the code |
|---|---|
| `stream`, `group` | the two Redis streams and the last entry of each delivered to `notifier-cg` |
| `authorized` | the set `telegram:authorized_chats`, which the code only reads: any set, filled beforehand |
| `received` | what Telegram has delivered to each chat |
| `pc`, `todo`, `left` | the await of `redis_consumer_loop`, the entries its `for` loops still hold, from a due one on, the chats of `notify_all` |
| `unsent` | history: how often `send_message` raised |

| action | in the code |
|---|---|
| `CreateGroup`, `CreateGroupFails` | the two calls of `xgroup_create` |
| `Read`, `ReadFails`, `Wake` | `xreadgroup` of both streams; the handler of the loop |
| `Members`, `MembersFails` | `smembers` |
| `Send`, `SendFails` | `send_message` to one chat; the message may have arrived although it raised |
| `Handle`, `NotifyAll` (operators) | the two loops up to their next await |
| `Crash`, `Boot`, `Publish` | the process, the other services |

### WsClient

One feed. `start()` is a task of its own and `stop()` runs in the task that shuts the
service down. Time passes in the awaits of `start()`, in tenths of a second, and is
remembered as two ages: of `ws_fallback_since`, and (history) of the first failure since
the last book.

| variable | in the code |
|---|---|
| `pc` | the await `start()` is in: `watch_order_book`, `on_tick`, `fetch_ticker`, a sleep or a `close` |
| `running`, `connected`, `exchange`, `reconnect_attempt`, `ws_fallback_since` | the fields of those names; a client is a number |
| `clients` | the clients that were made and not closed |
| `stopping`, `stopClosing`, `closing` | where `stop()` is; the client each side is closing |

| action | in the code |
|---|---|
| `Leave`, `Connect`, `ConnectFails` | the head of the loop; `_run_ws` up to its first await |
| `Book`, `BookEmpty`, `Handed`, `WatchFails` | the body of `_watch_loop`; an error with its handler (`Except`) |
| `Woken`, `Finally`, `Closed`, `CloseFails` | the sleep of `_reconnect`, and `finally` |
| `RestLeave`, `RestAsk`, `Ticker`, `RestHanded`, `RestFails`, `RestClosed` | `_run_rest` |
| `Stop`, `StopCloses`, `StopCloseFails` | `stop()` |

### UseWebSocket, Session, Console

`UseWebSocket` is the hook that `Layout` calls. A call of `connect` lives on as a
socket, then as the timer its `onclose` starts, then as the socket that timer opens; a
*handle* is whichever of them exists. `Mount` is the effect (twice, with a clean-up in
between, under StrictMode), `Unmount` its clean-up, `Opened`, `Closed` and `Fire` the
callbacks, `Unload` the end of the page.

`Session` is the auth store, the login form, the routes and the two interceptors of
`lib/api.ts`. A request under way is the token it carries (`asking`; 0 for none), so
requests of earlier sessions are answered late. `Unauthorized` is what a 401 does, to
any request: sign out and load `/login`; the page goes on running (`unloading`) until
`LeavePage`. `Expire` is the gateway's clock.

`Console` joins the two: `Rendered` mounts Layout when a step of the session shows one
of its routes and unmounts it when it shows the form.

### DashboardStore and Pages

The store's lists under live messages (`Receive`) and answers (`FetchAll`), with a
history of all rows heard since the answer shown. Each page is an operator over them:
`Dashboard`, `Analytics`, `Opportunities`, `Trades`, `Exchanges`, with its filters as
parameters, money in integers, and the two roundings (`Math.round`, `toFixed`) as they
are on halves and on negative amounts. `Lists` has what JavaScript's `filter` leaves
of a list (`RowsAt`): the rows at some places, in their order. `Pages` also has the navigation (`routes`,
`navItems`, `pageTitles`, `menuItems`): four lists in `App`, `Layout` and
`components/Sidebar` that nothing keeps in step, of which `NavigationAgrees` asks one entry
and one heading for each page.

### SettingsPage

The page through several visits, together with `GET` and `PUT /settings`: a PUT writes
one key after another (`Write`), may be refused, fail half way or go on after the page
gave up (`SaveFails`, `Forgotten`). `Saved` sets what Reset restores from what the form
held when Save was pressed. `Kill` is the confirmed kill switch. `CsrfChecked` says
whether the gateway runs `csrf_middleware`, as `api-gateway/main.py` installs it.

### UiSidebar, UiCarousel, UiChart, UiInputs

`UiSidebar`: the flag of wide windows and the one of narrow ones, the width the style
sheet sees at once and the one `useIsMobile` hears of later, a caller that keeps the
flag or not. `contextValue`, `InSight`, `IconsOnly` and `SidebarMenuButton` say what is on
the screen; two properties are about them: text or tooltip of a button
(`SidebarStates`), and a toggle reaches the flag of the layout that is shown
(`TogglesShow`).

`UiCarousel`: the component's two flags over the Embla engine, which is external and
stands in as a number of slides and the one selected; and the two ways of the
orientation, into the engine's options (`engineOptions`) and into the layout
(`CarouselContent`, `CarouselItem`).

`UiChart`: how the style, the tooltip and the legend find the entry of a series. An item
that Recharts hands over has texts of its own (`own`) and those of its row of data
(`row`), any number of either; `getPayloadConfigFromPayload` looks a key up in the one,
then in the other, and falls back to the key itself. The tooltip goes by `tooltipKey`, the
legend by `legendKey`, with items and a `nameKey` each. `Means` says which entry a key
stands for without looking at that order: the property is silent where two fields of one
name hold different entries.

`UiInputs`: form, field, slider, toggle group and calendar. `FieldError` shows what the
caller put inside instead of the errors, and without it each message once.

`UiShown` joins `UiChart` and `UiInputs`: one component and its input, which `Given`
restricts to what its types allow.

### MCScreens and MCServices

`MCScreens` checks the frontend's lists, pages, settings and components, one screen per
behaviour, and `MCServices` the notifier or the breaker, because they share no state: a
variable chosen at the start says which of them moves.

## 4. Runs

| run | expects | what it asks |
|---|---|---|
| `safety` | pass | the engine under faults, a restart and the kill switch: at most once, published before booked, balances explained and never a debt, one outcome per entry, the position limit, the bound of the kill switch, `Consumer` |
| `live` | pass | the engine comes to rest under the kill switch; every entry is handled without it |
| `scanner` | pass | the scanner under a fault and the passing of time: only current prices, the cache's evictions, one publication per time to live, the clean-up unnoticed, a failed call costs one key, nothing missed without a fault |
| `writer` | pass | the batch writer under faults, a crash and a shutdown: bounded memory, no duplicate without a failed call, no loss without a fault, `Consumer`, nothing stuck in the buffer |
| `feed` | pass | a feed under faults and a stop at any await: no open client lost from sight, ticks again after recovery, an end after `stop()` |
| `console` | pass | a tab under late answers, expiring tokens, lost connections and page loads: one handle per run of the effect, an honest "Live", no request without a token, no session ended without a 401, "Live" in the end |
| `screens` | pass | lists that show the latest rows, pages that agree, what Reset restores, the navigation, the sidebar, the carousel, the names in a chart, the inputs |
| `services` | pass | the notifier under failed calls and a restart: each chat told once and in order, every entry of both streams handled; the breaker under concurrent, late, failing and cancelled calls: threshold, passage through half-open, slots, recovery |
| `double_fees` | violation | "net P&L with all fees" (models.py:72): the balances are charged the fees again |
| `stop` | violation | "stop with a flush of the remaining data" (db_writer.py:211): the reader's last ticks are not flushed |
| `half_open` | violation | "HALF_OPEN: on success to CLOSED, on an error to OPEN" (circuit_breaker.py:25): the success of a call from before resets `failure_count`, and the test call that fails leaves the breaker half-open |
| `fallback` | violation | "if the WebSocket does not work for more than 30 s, fall back to REST" (ws_client.py:74): `_watch_loop` resets the time at each attempt, so the feed reconnects for ever |

**Bounds.**
*Executor*: three exchanges, so that a trade has a buyer, a seller and a bystander;
balances of $100, $0 and $10000: the first trades once and then has too little, the
second cannot buy until it has sold, the third trades three times until its rounded
position is refused. Batches of 2 (1 in `live`) out of 2 or 3 entries make a full batch
and a partial one. One crash can hit every await, and two failed calls can hit two
steps of one trade or of two. Two activations of the kill switch let the second arrive in
a batch the first was already on for. One slippage, 0.3 %, is enough: it only scales the
proceeds, and the proofs cover every set of them.
*Scanner*: three symbols for a cache of two and three exchanges for two, so that both
evictions happen; two symbols with a spread, so that a list has two opportunities; reads
of 2 out of 4 ticks; `max_age` 1, `ttl` 2 and a clock to 3, so that prices and keys
expire, keys are cleaned (`MaxSeen` 1) and opportunities return; one fault, at any await.
*Breaker*: three callers (a late one, and two for the slots), threshold 2, two slots,
five failures (enough to open, to give slots back in half-open and to reopen), two
cancellations. In `half_open` the defaults of the code, threshold 5 and one slot, and no
cancellation.
*Writer*: batches of 2 and a `Requeue` of 2 as in the code, where both are 100; six
ticks, so that a failed batch, a read in between and a truncated one fit; two failed
calls, so that both tasks may fail; a crash and a shutdown, in either order.
*Feed*: a failure takes 0.1 s or 10 s, so that the limit of 30 s is passed within a few
or not at all; eight faults, enough for all delays of `_reconnect`, for REST and for a
failure of each `close`. Four do for `fallback`.
*Notifier*: two entries of each stream, read one by one so that a batch has one of each;
two chats, of which any are authorised; two failed calls and one restart, at any await.
*Console*: two submissions (a session after a session), two mounts in one load of the
page, three handles (two of a doubled effect and one of the next mount, or the reverse),
two dropped connections.
*Screens*: lists of 2 and 3 rows, answers of at most 2 and histories of 4, so that rows
are cut off, come back and repeat under a new value; the answers and the rows differ in
every field a page computes with, with an amount on each side of a rounding. Two visits
and two saves of values 0 (falsy), 1 (a fraction, refused for the timeout) and 2. Three
slides: both ends and a middle. Series with a name of their own and without, hidden, and
of a pie whose rows name the entry; keys that are a field of the data, of the items or of
both. Fields with and without content of the caller's, with up to three messages, absent,
blank, equal or different. `CsrfChecked` is FALSE: as deployed, the middleware
refuses every PUT of the page, and those behaviours are among the ones without it, where a
PUT may be refused, too.
The proofs remove these bounds for the safety properties.

**Deadlock** is checked in every `MCExecutor` run, where a service that is up can always
be asked to reset the kill switch and one that is down can boot, in `console`, where the
user can always act or the page loads, and in `stop`. The other runs say
`CHECK_DEADLOCK FALSE`: a scanner that has read every tick, or has died in
`xgroup_create`, waits for more; a breaker whose slots were all kept by cancelled probes
refuses every call; a collector without a writer, or with a reader that died in
`xgroup_create`, makes no step once its bounds are used up; a feed that was stopped has
ended; a notifier whose group could not be created, or that has sent everything, waits;
a component without state does nothing, and a screen ends with its bounds.

**Fairness.**
*Executor*: weak fairness of the engine's own steps, because the event loop runs a task
whose await has finished (the awaits time out or fail, never hang), and of `Boot`,
because docker-compose restarts the service (`on-failure:5`, more often than
`MaxCrashes`). Nothing is assumed of the scanner, the operator or faults.
`EntriesHandled` is conditional on the engine task being alive: `CreateGroupFails`
ends it for good while `/health` goes on answering "healthy".
*Breaker*: time passes, every caller keeps calling and every call ends in a success or a
failure; failures are bounded, that is, the protected service gets well. `Recovers` is
conditional on no call having been cancelled: a cancelled probe keeps its slot, and with
all slots kept the breaker never closes.
*Writer*: the steps of the reader and of a shutdown, and the restart, as for the
executor. `TicksHandled` is conditional on a live writer, which a collector started
without its database never has.
*Feed*: the task runs and its awaits end, in an answer or an error; faults are bounded,
that is, the exchange recovers.
*Notifier*: the loop's steps and the restart, as for the executor; `NoticesHandled` excepts
a loop that could not create its groups.
*Console*: a connection that is not refused opens, the end of a closed socket is
reported, timers fire; losses are bounded. Nothing is assumed of the user or of answers.

## 5. Proofs

Every invariant and every action property of the passing runs is stated by a theorem, for every
value of the constants that the named assumptions allow. Liveness is not (see the end of
this section). One module of proofs per component, and `DataLemmas` for what they share.

### DataLemmas

The library states induction over numbers and finite sets with an operator as a parameter,
which no installed prover can instantiate. `NatInduct` and `SetInduct` say the same with
the *set* of those that have the property, and are proved from the least element of a set
of numbers. On them rest: greatest elements and numbers of elements; sequences, removal and
flattened sequences (`FlattenUnfold`); that the recursive function behind a fold exists
(`FoldExists`), hence that a sum over a finite set may be taken from any of its terms on
(`AnyTerm`), splits over a disjoint union, moves along an injection and is shared out by
keys (`SumParts`).

### ExecutorProofs

Rounding is within half a quantum (`HalfUpNat`), and `TradableCharacterised`: a balance
trades exactly when it is at least $100, a tenth of it rounds down to the cent, and the
position is within the maximum.

For every value allowed by `ExecutorAssumption`, `CryptoScaleAssumption` and
`FeeAssumption`:

* `TypeCorrect`: `Spec => []TypeOK`. `TypeOK` is inductive: it carries that the entry in
  progress was delivered and, while it is traded, valid.
* `Safe`: `Spec => [](TypeOK /\ Safety)`, the inductive invariant, and from it
  `AtMostOnce`, `PublishedFirst`, `OneOutcome`, `Solvent`, `KillBounded` and
  `WithinLimit` (an action property).
* `BalancesAreSums` (`BalancesExplained`) and `AllOrNothing` (`CompleteWithoutFaults`).
* `Consumes`: the engine implements `Consumer`; by `KeptStep` a step takes no output back
  and gives one to the entry in progress only, which is held.

The properties are not inductive alone; `Safety` adds four parts.
`PassedEntries`: a traded entry lies before `at`, or is `at` and marked by `pc` as
published (so the next append is later than all before it, after a crash too,
because `Crash` moves `at` past the group). `InProgress`: what is about to be saved
and booked is in the stream `trades`. `Sized`: the trade in hand is affordable at the
*current* balance of the buyer and, in the write step, `seen` is the current
balances — nobody else writes them. `Bounded`: the trades since the kill switch plus
the entries still to come (`Pending`) are at most one batch.
The proof has a lemma per part of `Safety` that says what a step does to it; the
frame lemmas (`TradesStep`, `AppliedStep`, `BalanceStep`, ...) say which actions touch
each variable. `Solvent` rests on `PnlProceeds`: with fees of at most 1 %, a
withdrawal of at most 1 USDT and a slippage of at most 0.3 %, a position of $10 or
more always returns something to the seller.

The sums of the ledger need two more parts. `AllFunded`: trading waits until start-up
has funded every exchange, so no balance is set anew after a trade moved it.
`SavedBeforeBooked`: without a fault, the trade about to be booked has its row. A
booking then adds one term to each sum, whatever the order in which the sum is taken.

### ScannerProofs

For any stream, batches, limits of the cache and of `_seen`, times to live and faults:

* `PublishedOnce` (`NotRepeated`) and `CleaningChangesNothing` (`CleaningIsInvisible`),
  which need nothing of the cache. The invariant `Dedup` relates `_seen` to `marked`
  (`Uncleaned`: the same times, and a key missing from `_seen` is past its time to live)
  and the stream to `marked` (`Published`: an entry of this process was marked no later
  than its key was last; `Offering`: what is about to be published was marked a time to
  live after all entries with its key).
* `TypeCorrect`, `Fed`, `OnlyActivePrices` (`FromActivePrices`). The loops over the cache
  are first replaced by what they compute: `Offered` says of a cache, without its loops,
  which opportunities it holds at a time, and `AllSpreads` that the loops return these. The
  invariant: the cache holds ticks that were delivered (`Feed`), and everything in the
  list, in hand and in the stream was two of them, active and worth it (`Offers`).
* `CacheLatest` (`CacheIsLatest`). A read folds any number of updates over the cache;
  `Recent` describes the cache after *n* ticks of the stream and is kept by one more:
  entries are in the order of their last ticks, a symbol without an entry is older than
  all of a full cache, and each tick is the last one of its exchange (`Newest`). It holds
  while there is no fault (`Fresh`).
* `MarksPublished` (`MarkedIsPublished`): the marked keys without a publication are at most
  as many as the errors, the published without a row at most as many as errors and
  crashes (`Marks`). Each step adds one element at most to either set, and only a fault
  adds any.
* `CompleteScan` (`NothingMissed`). The invariant `Complete`: without a fault, each marked
  key is published or about to be, and each pair of ticks in the cache that pays now is
  published, in hand, or still in the list (`Handled`).

### CircuitBreakerProofs

`TypeCorrect`, `Threshold` (both inductive), `PassageHolds` and `SlotsAccounted`
(`SlotsHeld`), for any number of callers, failures and cancellations. The invariant of the
last, `Accounted`, compares the test calls, and the slots kept by cancelled ones, with the
counter `half_open_calls`, which moves with them: never below the counter, above it by
the strays at most. The cardinality of `probes` moves by one element; its finiteness comes
with the invariant, which starts at the empty set.

### BatchWriterProofs

For every batch size and every `Requeue` no smaller than it:

* `TypeCorrect`; `MemoryBound` (`MemoryBounded`), whose inductive strengthening is
  `Bounded`: when the reader is about to read it holds at most `Requeue` ticks together
  with the shutdown, since a failed flush puts at most that many back and only a
  running loop reads again, and a read adds at most a batch;
* `Written` (`WrittenOnce`), from the invariant `Once`: no tick has rows or is held
  before it is delivered, ticks in the buffer and in both batches are pairwise
  different, and the rows of a tick, one more if it is held, are at most one more than the
  failed calls. `OnceKept` and `OnceFlushed` are the two kinds of step;
* `NoneLost` (`NothingLost`), from `Intact`: while nothing failed, crashed or stopped, no
  second task flushes and each delivered tick is held or has its row;
* `Consumes`: the writer implements `Consumer`. `Progress` says what a step does to the
  ticks (rows are added only to held ones, only newly delivered ones come into memory).

### WsClientProofs

`ClientsInSight` (`ClientsClosed`) for any durations and any number of faults. The
inductive invariant `Hold` says where the two tasks stand with the client: there is none at
the head of the loop, the one being closed is the one the feed holds if it holds any, and
no other comes once `stop()` has begun; so that setting `exchange` to None afterwards drops
nothing that is open.

### NotifierProofs

`TypeCorrect` and `Told` (`ToldOnce`), for any chats, streams and batches. The invariant
has three parts. `Place`: the loop has entries in hand, the first of them due, exactly while
it tells the chats. `Order`: what a chat received and the entries in hand are delivered
ones, each once and in order, and a chat that is still to be told has received nothing
from the entry in hand on. `Costs`: unless another call failed or the process ended, the
due entries that chats were not told of, summed over the chats, are at most as many as the
sends that failed; the sum moves by one term of one chat.

### FrontendProofs

*Session and connection*, for any number of handles, mounts, drops and submissions:
`ConsoleTypeCorrect`; `HandlesCounted` (`OneHandlePerEffect`), since each callback turns
one handle of a mount into one of the same mount (`Owned`: a handle in use belongs to a
mount of this page); `FlagHonest` (`LiveFlagHonest`), inductive together with those;
`RequestsCarryToken` (`NoAnonymousRequests`) from the fact that a route of Layout is shown
to a session only (`SessionInv`); `SessionEndExplained` (`SessionEndsForReason`), an
action property.

*Settings page, sidebar, carousel*, for any values, visits, saves and slides:
`OriginalStored` (`OriginalIsStored`; the invariant: the page waits for at most one PUT,
undisturbed there is no other, the keys that PUT has written are as the form had them, and
the original holds for the rest); `SidebarIsCoherent` (`SidebarCoherent`: a state invariant
over the flags and the cookie, and an action property that rests on `ToggleSeen`, by the
layout that is shown); `ButtonsAgree` (`CarouselAgrees`).

*Lists and pages*, for any rows, limits and number of messages:

* `Latest` (`ListsAreLatest`), which is inductive. What `filter` leaves is characterised
  by the enumeration of its places, and there is one such list (`ListedOnce`, by counting).
  `NewestBehind`: with one more row, the most recent of the different rows are that row and
  the others without its id. `CutOnce`: cutting a list before a row moves to its front and
  cutting it afterwards leave the same, which is why the store may forget what it cut off.
* `Agree` (`PagesAgree`): totals are one sum, the bars share it out by symbol (`SumParts`),
  each rounding is within half a cent, the best spread is that of a row, a filter
  leaves the rows at their places, and each page has its entry (`EntriesAgree`). Nothing is
  assumed of `exchangeInfo`.

*Components without state*: `Shown` (`ShownAsGiven`) for every input that `Given` allows,
which is what the types of the components and the libraries that call them guarantee: any
configuration, and items with any texts of their own and of their rows. `EntryFound`: the
entry that a key means is the one the look-up finds, whichever of an item's fields it goes
by; `EntriesNameSeries` takes it to the rows drawn, which are as many as the items that
are not hidden (`AsManyDrawn`). The messages of a field are the rows at the first places of
each (`ErrorsLeft`).

### Only model-checked

The liveness properties (`KillQuiesces`, `EntriesHandled`, `Recovers`, `TicksHandled`,
`NoticesHandled`, `FeedReturns`, `EventuallyLive`), because liveness under fairness is out
of the prover's reach, and the four violations, which are single behaviours.

### Seen on the way

What the code does and no property asks, because nothing in the repository says
otherwise or because it can be read off one line:

* The kill switch is in memory: a restart begins with it off (`executor/main.py:101`).
* `ttl_seconds` of an opportunity is looked at nowhere; what waits longer is traded.
* Only opportunities that fail their validation become dead letters; a refused position
  and a failed call are logged.
* A position is a tenth of the balance rounded half up to the cent and then compared
  with the exact tenth: a balance whose tenth rounds up trades nothing
  (`TradableCharacterised`).
* Nothing adds a chat to `telegram:authorized_chats`: the answer to `/start`, which the code
  calls a registration (`bot.py:38`), promises notifications that do not come. Those that
  would come are not limited in rate, although `notifier/main.py:4` says so.
* The kill switch of the settings page is refused by `csrf_middleware`, as is every save,
  and the gateway has no such route.
* A cancelled test call keeps its slot of the half-open breaker, and a failure gives a
  slot back to it that its own call may never have had: `half_open_calls` counts neither
  the calls under way nor those let in. `SlotsHeld` says by how much.
* A feed once in REST never returns to the WebSocket; one whose `close` raises in
  `finally` ends silently; `stop_collectors` gives up at the first feed whose `close`
  raises.
* The gateway's hub sends `price_tick` messages only, and the parameter of its endpoint
  has no annotation, so that FastAPI does not take it for the connection.
* The clean-up of `useWebSocket` stops neither timers nor the `onclose` of the socket it
  closes: each visit to Layout without a page load adds a connection.
* A 401 to a token of an earlier session, come late, ends the new one.
* The settings page shows the defaults as if they were stored when loading fails; no
  service reads the table that it writes.
* The carousel's clean-up removes one of its two listeners, and its arrow keys are left
  and right when it is vertical, too.
* Two kinds of empty messages make an empty alert in `FieldError`; what the caller puts
  inside hides every error.
* The tooltip asks by the name of a series first and the legend by its data key, so a
  series with a name of its own that is no key of the configuration has its entry's label
  in the legend only.

## 6. Not modelled

* **WebSocket hub** (`api-gateway/websocket.py`): see above; which of its states are ever
  reached cannot be read from the code. What clients do with its messages is in
  `DashboardStore`.
* **Notifier**: `TelegramQueue`, whose `enqueue` has no caller, so that its task waits on
  an empty list; the commands that only read. `/killswitch` calls the executor's handler,
  which is `Kill`.
* **Rate limiter**, `exchange_pool.py`, `reconnect.py`, the store's setters and other
  helpers without a caller: nothing says in which states they would run.
* **Other routers**: read-only SQL; their answers are inputs of `DashboardStore` and
  `Pages`.
* **Shared**: the creation of the connection pool under a lock, configuration and models;
  the collector's tables of names, metrics and status counters.
* **Wrappers of the component library**: they pass properties on and add classes, and so
  do the parts of the sidebar that group and nest its menus. Of the pages, layout, wording,
  colours and the export to CSV; of `components/Sidebar`, which nothing imports, only its
  entries are in the model.
* **Scanner and executor over one stream**: the executor reads any stream of
  opportunities, so its properties hold of the scanner's.
* Details: the trimming of streams (10000 entries, 100000 for `prices`); trade ids that
  coincide within a millisecond; the parsing of ticks, which cannot fail on what
  `publish_price` writes; read-only handlers; a second executor on the same Redis.

`PROJECT.json` lists every component with its status and every hazard with the
properties about it.
