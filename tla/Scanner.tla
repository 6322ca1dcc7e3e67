------------------------------- MODULE Scanner -------------------------------
(****************************************************************************)
(* The scanner service: scanner_loop of scanner/main.py with the price      *)
(* cache (PriceCache) and the deduplication of scanner/dedup.py.            *)
(*                                                                          *)
(* As in Executor, an action performs the call the loop awaits and the code *)
(* up to its next await; the clock moves in between.                        *)
(****************************************************************************)
EXTENDS PriceCache

CONSTANTS
  Quote,         \* what ws_client.py may publish, without its time: of a configured
                 \* exchange and with positive prices, so scanner_loop drops none
  ttl,           \* DEDUP_TTL_SECONDS, in units of the clock
  MaxSeen,       \* keys that _seen may have before it is cleaned (1000)
  ReadCount,     \* count= of the xreadgroup call (100)
  MaxStream,     \* bound on the ticks ever published
  MaxTime,       \* bound on the clock
  MaxFaults      \* bound on failed calls and ends of the process together

ASSUME ScannerAssumption ==
  /\ \A q \in Quote : q.bid \in Nat \ {0} /\ q.ask \in Nat \ {0} /\ q.bid <= q.ask
  /\ ttl \in Nat \ {0} /\ MaxSeen \in Nat /\ ReadCount \in Nat \ {0}
  /\ {MaxStream, MaxTime, MaxFaults} \subseteq Nat

VARIABLES
  now,        \* the clock, of the collector and of the scanner
  (* Redis and TimescaleDB. *)
  prices,     \* the stream "prices"
  group,      \* last entry delivered to group scanner-cg
  out,        \* the stream "opportunities"
  saved,      \* opportunities (positions in out) with a row in table opportunities
  (* The process. *)
  pc,         \* where scanner_loop waits
  cache,      \* price_cache._data
  seen,       \* dedup._seen
  opp,        \* the opportunity being published
  todo,       \* the rest of its list
  (* History: read by no action. *)
  marked,     \* _seen without any cleaning
  (* Bounds. *)
  errors, crashes

redis  == <<prices, group, out, saved>>
memory == <<cache, seen, opp, todo, marked>>
vars   == <<now, redis, pc, memory, errors, crashes>>

NoKeys == [k \in {} |-> 0]
NoOpp  == [buy |-> 0, sell |-> 0, detected |-> 0]

Init ==
  /\ now = 0 /\ prices = <<>> /\ group = 0 /\ out = <<>> /\ saved = {}
  /\ pc = "down" /\ cache = <<>> /\ seen = NoKeys /\ marked = NoKeys
  /\ opp = NoOpp /\ todo = <<>>
  /\ errors = 0 /\ crashes = 0

Error == errors + crashes < MaxFaults /\ errors' = errors + 1

\* External: the clock.
Advance ==
  /\ now < MaxTime /\ now' = now + 1
  /\ UNCHANGED <<redis, pc, memory, errors, crashes>>

\* External: the collector publishes a tick, stamped with the time.
Publish ==
  /\ Len(prices) < MaxStream
  /\ \E q \in Quote :
       prices' = Append(prices, [symbol |-> q.symbol, exchange |-> q.exchange,
                                 bid |-> q.bid, ask |-> q.ask, at |-> now])
  /\ UNCHANGED <<now, group, out, saved, pc, memory, errors, crashes>>
------------------------------------------------------------------------------
(* lifespan, and the first call of scanner_loop. *)

Boot ==
  /\ pc = "down" /\ pc' = "group"
  /\ UNCHANGED <<now, redis, memory, errors, crashes>>

\* A crash, or the shutdown that cancels the loop at the await it is in.
Crash ==
  /\ pc # "down" /\ pc' = "down"
  /\ errors + crashes < MaxFaults /\ crashes' = crashes + 1
  /\ cache' = <<>> /\ seen' = NoKeys /\ marked' = NoKeys /\ opp' = NoOpp /\ todo' = <<>>
  /\ UNCHANGED <<now, redis, errors>>

CreateGroup ==
  /\ pc = "group" /\ pc' = "read"
  /\ UNCHANGED <<now, redis, memory, errors, crashes>>

\* An exception other than "already exists" ends the task, unobserved.
CreateGroupFails ==
  /\ pc = "group" /\ pc' = "dead"
  /\ Error
  /\ UNCHANGED <<now, redis, memory, crashes>>
------------------------------------------------------------------------------
(* OpportunityDedup *)

Key(o) == <<o.buy.symbol, o.buy.exchange, o.sell.exchange>>

\* Mutant of Cleaned: keys that still suppress are removed.
Cleaned_TooMany(keys) ==
  IF Cardinality(DOMAIN keys) > MaxSeen
    THEN Restrict(keys, {k \in DOMAIN keys : keys[k] >= now}) ELSE keys

\* _cleanup, once there are too many keys.
Cleaned(keys) ==
  IF Cardinality(DOMAIN keys) > MaxSeen
    THEN Restrict(keys, {k \in DOMAIN keys : keys[k] >= now - ttl}) ELSE keys

\* Mutant of Duplicate: a key suppresses for less than its time to live.
Duplicate_Short(keys, k) == k \in DOMAIN keys /\ now - keys[k] < ttl - 1

Duplicate(keys, k) == k \in DOMAIN keys /\ now - keys[k] < ttl

Mark(keys, k) == [x \in DOMAIN keys \cup {k} |-> IF x = k THEN now ELSE keys[x]]

\* At the end of a list, and after an error, the loop has no opportunity.
NoneLeft == opp' = NoOpp /\ todo' = <<>>

Take(list, i) == opp' = list[i] /\ todo' = SubSeq(list, i + 1, Len(list))

\* The `for opp in opportunities' loop up to its next await: duplicates are skipped,
\* the first opportunity that is none is marked and will be published.
Offer(list) ==
  LET keys == IF list = <<>> THEN seen ELSE Cleaned(seen)
      dup(i) == Duplicate(keys, Key(list[i]))
  IN  \/ /\ \A i \in DOMAIN list : dup(i)
         /\ pc' = "read" /\ NoneLeft /\ seen' = keys /\ UNCHANGED marked
      \/ \E i \in DOMAIN list :
           /\ ~dup(i) /\ \A j \in 1 .. (i - 1) : dup(j)
           /\ pc' = "publish" /\ Take(list, i)
           /\ seen' = Mark(keys, Key(list[i])) /\ marked' = Mark(marked, Key(list[i]))
------------------------------------------------------------------------------
(* scanner_loop *)

Least(a, b) == IF a <= b THEN a ELSE b
AfterRead == Least(group + ReadCount, Len(prices))

\* xreadgroup returns ticks: all of them update the cache, then the spreads are computed.
Read ==
  /\ pc = "read" /\ group < Len(prices)
  /\ group' = AfterRead
  /\ cache' = FoldLeft(update, cache, SubSeq(prices, group + 1, AfterRead))
  /\ \E list \in {calculate_all_spreads(cache', now)} : Offer(list)
  /\ UNCHANGED <<now, prices, out, saved, errors, crashes>>

\* `except Exception': the rest of the list is dropped.
GiveUp == Error /\ pc' = "sleep" /\ NoneLeft

\* xreadgroup raises; the server may have delivered ticks all the same.
ReadFails ==
  /\ pc = "read"
  /\ group' \in {group, AfterRead}
  /\ GiveUp
  /\ UNCHANGED <<now, prices, out, saved, cache, seen, marked, crashes>>

Wake ==
  /\ pc = "sleep" /\ pc' = "read"
  /\ UNCHANGED <<now, redis, memory, errors, crashes>>

\* The new entry, with the process that adds it and the time at which it marked its key.
Added == Append(out, [opp |-> opp, life |-> crashes, mark |-> marked[Key(opp)]])

\* Mutant of PublishOpportunity: it is not saved.
PublishOpportunity_SkipsSave ==
  /\ pc = "publish"
  /\ out' = Added
  /\ Offer(todo)
  /\ UNCHANGED <<now, prices, group, saved, cache, errors, crashes>>

\* publish_opportunity
PublishOpportunity ==
  /\ pc = "publish" /\ pc' = "save"
  /\ out' = Added
  /\ UNCHANGED <<now, prices, group, saved, memory, errors, crashes>>

PublishOpportunityFails ==
  /\ pc = "publish"
  /\ out' \in {out, Added}
  /\ GiveUp
  /\ UNCHANGED <<now, prices, group, saved, cache, seen, marked, crashes>>

\* Mutant of SaveOpportunity: the rest of the list is dropped.
SaveOpportunity_OnlyFirst ==
  /\ pc = "save" /\ pc' = "read" /\ NoneLeft
  /\ saved' = saved \cup {Len(out)}
  /\ UNCHANGED <<now, prices, group, out, cache, seen, marked, errors, crashes>>

\* save_opportunity_to_db, then the next opportunity of the list.
SaveOpportunity ==
  /\ pc = "save"
  /\ saved' = saved \cup {Len(out)}
  /\ Offer(todo)
  /\ UNCHANGED <<now, prices, group, out, cache, errors, crashes>>

\* It swallows its exceptions: the loop goes on.
SaveOpportunityFails ==
  /\ pc = "save"
  /\ Error
  /\ saved' \in {saved, saved \cup {Len(out)}}
  /\ Offer(todo)
  /\ UNCHANGED <<now, prices, group, out, cache, crashes>>
------------------------------------------------------------------------------
ScannerStep == CreateGroup \/ Read \/ Wake \/ PublishOpportunity \/ SaveOpportunity
Fault == CreateGroupFails \/ ReadFails \/ PublishOpportunityFails \/ SaveOpportunityFails

Next == Advance \/ Publish \/ Boot \/ Crash \/ ScannerStep \/ Fault

Spec == Init /\ [][Next]_vars
------------------------------------------------------------------------------
(* Properties. *)

SymbolsOf(s) == {s[i].symbol : i \in DOMAIN s}
Delivered == SubSeq(prices, 1, group)
InHand == (IF pc \in {"publish", "save"} THEN <<opp>> ELSE <<>>) \o todo

\* Every variable keeps its type, and the cache its limits.
TypeOK ==
  /\ now \in 0 .. MaxTime /\ group \in 0 .. Len(prices) /\ saved \subseteq DOMAIN out
  /\ pc \in {"down", "dead", "group", "read", "sleep", "publish", "save"}
  /\ pc \in {"publish", "save"} \/ (opp = NoOpp /\ todo = <<>>)
  /\ Len(cache) <= MAX_CACHE_SYMBOLS
  /\ \A c \in DOMAIN cache : Len(cache[c].ticks) \in 1 .. MAX_CACHE_EXCHANGES

\* Nothing stale or invented is offered: an opportunity has two delivered ticks of one
\* symbol on two exchanges, neither older than max_age when it is detected, and the
\* spread between the ask of one and the bid of the other is enough.
FromActivePrices ==
  \A o \in ToSet(InHand) \cup {out[i].opp : i \in DOMAIN out} :
    /\ {o.buy, o.sell} \subseteq ToSet(Delivered)
    /\ o.buy.symbol = o.sell.symbol /\ o.buy.exchange # o.sell.exchange
    /\ o.detected - o.buy.at <= max_age /\ o.detected - o.sell.at <= max_age
    /\ 1000000 * (o.sell.bid - o.buy.ask) > (min_spread_pct - 1) * o.buy.ask

LastOf(s) == Max({0} \cup {n \in 1 .. group : prices[n].symbol = s})

\* Without faults the cache has the most recently updated symbols, as many as fit, and
\* no tick in it is older than the last one of its exchange.
CacheIsLatest ==
  errors = 0 /\ crashes = 0 =>
    /\ SymbolsOf(cache) =
         {s \in SymbolsOf(Delivered) :
            Cardinality({r \in SymbolsOf(Delivered) : LastOf(r) > LastOf(s)}) < MAX_CACHE_SYMBOLS}
    /\ \A c \in DOMAIN cache : \A i \in DOMAIN cache[c].ticks :
         LET n == Max({n \in 1 .. group : prices[n].symbol = cache[c].symbol
                          /\ prices[n].exchange = cache[c].ticks[i].exchange})
         IN  cache[c].ticks[i] = prices[n]

\* One process publishes an opportunity again only when its key was marked ttl before.
NotRepeated ==
  \A i, j \in DOMAIN out :
    i < j /\ out[i].life = out[j].life /\ Key(out[i].opp) = Key(out[j].opp) =>
      out[j].mark - out[i].mark >= ttl

\* _seen, cleaned whenever it is large, gives the answers it would give uncleaned.
CleaningIsInvisible ==
  \A k \in DOMAIN marked : Duplicate(seen, k) <=> Duplicate(marked, k)

MarkPublished(k) ==
  \/ pc = "publish" /\ Key(opp) = k
  \/ \E i \in DOMAIN out : Key(out[i].opp) = k /\ out[i].mark = seen[k]

\* A key stands for an opportunity that is published, but for one key for each failed
\* call; a published opportunity has its row, but for one for each fault.
MarkedIsPublished ==
  /\ Cardinality({k \in DOMAIN seen : ~MarkPublished(k)}) <= errors
  /\ Cardinality(DOMAIN out \ (saved \cup (IF pc = "save" THEN {Len(out)} ELSE {})))
       <= errors + crashes

\* Without faults nothing is missed: when the loop is back at its read, whatever spread
\* the cache still holds has been published, less than ttl before its last price came.
NothingMissed ==
  errors = 0 /\ crashes = 0 /\ pc = "read" =>
    \A o \in ToSet(calculate_all_spreads(cache, now)) :
      \E i \in DOMAIN out : /\ Key(out[i].opp) = Key(o)
                            /\ out[i].mark + ttl > Max({o.buy.at, o.sell.at})
==============================================================================
