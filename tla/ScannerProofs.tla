------------------------------ MODULE ScannerProofs ------------------------------
(* The scanner, for every stream, cache, time to live and limit of _seen, and       *)
(* whatever fails.  First its deduplication (Dedup); then what the functions of the *)
(* price cache compute, stated without their loops (Offered, Updated, Recent); then *)
(* what they make of the stream (Feed, Offers, Fresh), and that nothing is lost     *)
(* between a spread and its entry and row (Marks, Complete).                        *)
EXTENDS Scanner, DataLemmas

-----------------------------------------------------------------------------------
(* The deduplication: the inductive invariant. *)

\* Time passes in steps of one, and processes are counted.
Clocks == now \in Nat /\ crashes \in Nat

\* marked is what _seen would be if it was never cleaned: it has the keys of _seen with
\* their times, and the keys missing from _seen suppress nothing any more.
Uncleaned ==
  /\ \A k \in DOMAIN marked : marked[k] \in Nat /\ marked[k] <= now
  /\ \A k \in DOMAIN seen : k \in DOMAIN marked /\ seen[k] = marked[k]
  /\ \A k \in DOMAIN marked : k \in DOMAIN seen \/ marked[k] + ttl <= now

\* The entries of the stream are of this process or of earlier ones; those of this one
\* have been marked, their keys perhaps again since.
Published ==
  /\ \E S : out \in Seq(S)
  /\ \A i \in DOMAIN out : /\ out[i].life \in Nat /\ out[i].life <= crashes
                           /\ out[i].mark \in Nat
  /\ \A i \in DOMAIN out : out[i].life = crashes =>
       /\ Key(out[i].opp) \in DOMAIN marked
       /\ out[i].mark <= marked[Key(out[i].opp)]

\* The opportunity about to be published was marked, and not within ttl of the mark of
\* an entry with its key.
Offering ==
  pc = "publish" =>
    /\ Key(opp) \in DOMAIN marked
    /\ \A i \in DOMAIN out :
         out[i].life = crashes /\ Key(out[i].opp) = Key(opp) =>
           marked[Key(opp)] - out[i].mark >= ttl

Dedup == Clocks /\ Uncleaned /\ Published /\ Offering /\ NotRepeated

-----------------------------------------------------------------------------------
(* The deduplication: lemmas. *)

\* What a marked key map is.
LEMMA MarkMap ==
  ASSUME NEW keys, NEW k
  PROVE  /\ DOMAIN Mark(keys, k) = DOMAIN keys \cup {k}
         /\ Mark(keys, k)[k] = now
         /\ \A x \in DOMAIN keys : x # k => Mark(keys, k)[x] = keys[x]
BY DEF Mark

\* Cleaning takes away keys that are at least ttl old and leaves the others as they are.
LEMMA CleanedMap ==
  ASSUME NEW keys
  PROVE  /\ DOMAIN Cleaned(keys) \subseteq DOMAIN keys
         /\ \A k \in DOMAIN Cleaned(keys) : Cleaned(keys)[k] = keys[k]
         /\ \A k \in DOMAIN keys : k \in DOMAIN Cleaned(keys) \/ ~(keys[k] >= now - ttl)
BY DEF Cleaned, Restrict

\* What a duplicate is does not depend on the cleaning.
LEMMA SameDuplicates ==
  ASSUME Clocks, Uncleaned, NEW k
  PROVE  Duplicate(seen, k) <=> Duplicate(marked, k)
<1>1. ttl \in Nat \ {0}
  BY ScannerAssumption
<1>2. CASE k \in DOMAIN seen
  BY <1>2 DEF Uncleaned, Duplicate
<1>3. CASE k \in DOMAIN marked /\ k \notin DOMAIN seen
  <2>1. ~(now - marked[k] < ttl)
    BY <1>1, <1>3 DEF Uncleaned, Clocks
  <2> QED
    BY <1>3, <2>1 DEF Duplicate
<1>4. CASE k \notin DOMAIN marked
  BY <1>4 DEF Uncleaned, Duplicate
<1> QED
  BY <1>2, <1>3, <1>4

-----------------------------------------------------------------------------------
(* The deduplication: what the kinds of steps do to the invariant. *)

\* A step that neither marks nor publishes nor offers.
LEMMA QuietKeeps ==
  ASSUME Dedup, UNCHANGED <<now, out, seen, marked, crashes>>,
         pc' # "publish" \/ UNCHANGED <<pc, opp>>
  PROVE  Dedup'
<1>1. Clocks' /\ Uncleaned' /\ Published' /\ NotRepeated'
  BY DEF Dedup, Clocks, Uncleaned, Published, NotRepeated, Key
<1>2. Offering'
  BY DEF Dedup, Offering, Key
<1> QED
  BY <1>1, <1>2 DEF Dedup

\* Going through a list, from either place in the code that does.
LEMMA OfferKeeps ==
  ASSUME Dedup, NEW list, Offer(list), UNCHANGED <<now, out, crashes>>
  PROVE  Dedup'
<1> DEFINE keys == IF list = <<>> THEN seen ELSE Cleaned(seen)
<1>1. ttl \in Nat \ {0} /\ now \in Nat
  BY ScannerAssumption DEF Dedup, Clocks
\* Cleaned or not, the keys are related to marked as _seen is.
<1>2. /\ \A k \in DOMAIN keys : k \in DOMAIN marked /\ keys[k] = marked[k]
      /\ \A k \in DOMAIN marked : k \in DOMAIN keys \/ marked[k] + ttl <= now
  <2>1. CASE list = <<>>
    BY <2>1 DEF Dedup, Uncleaned
  <2>2. CASE list # <<>>
    <3>1. keys = Cleaned(seen)
      BY <2>2
    <3>2. \A k \in DOMAIN keys : k \in DOMAIN marked /\ keys[k] = marked[k]
      BY <3>1, CleanedMap DEF Dedup, Uncleaned
    <3>3. ASSUME NEW k \in DOMAIN marked, k \notin DOMAIN keys
          PROVE  marked[k] + ttl <= now
      <4>1. CASE k \in DOMAIN seen
        <5>1. ~(seen[k] >= now - ttl) /\ seen[k] = marked[k] /\ marked[k] \in Nat
          BY <3>1, <3>3, <4>1, CleanedMap DEF Dedup, Uncleaned
        <5> QED
          BY <5>1, <1>1
      <4>2. CASE k \notin DOMAIN seen
        BY <4>2 DEF Dedup, Uncleaned
      <4> QED
        BY <4>1, <4>2
    <3> QED
      BY <3>2, <3>3
  <2> QED
    BY <2>1, <2>2
<1>3. CASE /\ pc' = "read" /\ seen' = keys /\ UNCHANGED marked
  <2>1. Clocks' /\ Published' /\ NotRepeated'
    BY <1>3 DEF Dedup, Clocks, Published, NotRepeated, Key
  <2>2. Uncleaned'
    <3> HIDE DEF keys
    <3> QED
      BY <1>2, <1>3 DEF Dedup, Uncleaned
  <2>3. Offering'
    BY <1>3 DEF Offering
  <2> QED
    BY <2>1, <2>2, <2>3 DEF Dedup
<1>4. ASSUME NEW i \in DOMAIN list,
             ~Duplicate(keys, Key(list[i])), pc' = "publish", opp' = list[i],
             seen' = Mark(keys, Key(list[i])), marked' = Mark(marked, Key(list[i]))
      PROVE  Dedup'
  <2> DEFINE key == Key(list[i])
  <2>1. key \in DOMAIN marked => marked[key] \in Nat /\ marked[key] + ttl <= now
    <3>1. CASE key \in DOMAIN keys
      <4>1. marked[key] \in Nat /\ ~(now - marked[key] < ttl)
        BY <3>1, <1>2, <1>4 DEF Dedup, Uncleaned, Duplicate
      <4> QED
        BY <4>1, <1>1
    <3>2. CASE key \notin DOMAIN keys
      BY <3>2, <1>2 DEF Dedup, Uncleaned
    <3> QED
      BY <3>1, <3>2
  <2> HIDE DEF keys
  <2> HIDE DEF key
  <2>2. /\ DOMAIN seen' = DOMAIN keys \cup {key} /\ seen'[key] = now
        /\ \A x \in DOMAIN keys : x # key => seen'[x] = keys[x]
    BY <1>4, MarkMap DEF key
  <2>3. /\ DOMAIN marked' = DOMAIN marked \cup {key} /\ marked'[key] = now
        /\ \A x \in DOMAIN marked : x # key => marked'[x] = marked[x]
    BY <1>4, MarkMap DEF key
  <2>4. Clocks' /\ NotRepeated'
    BY DEF Dedup, Clocks, NotRepeated, Key
  <2>5. Uncleaned'
    <3>1. \A k \in DOMAIN marked' : marked'[k] \in Nat /\ marked'[k] <= now'
      BY <1>1, <2>3 DEF Dedup, Uncleaned
    <3>2. \A k \in DOMAIN seen' : k \in DOMAIN marked' /\ seen'[k] = marked'[k]
      BY <1>2, <2>2, <2>3
    <3>3. \A k \in DOMAIN marked' : k \in DOMAIN seen' \/ marked'[k] + ttl <= now'
      BY <1>2, <2>2, <2>3
    <3> QED
      BY <3>1, <3>2, <3>3 DEF Uncleaned
  <2>6. ASSUME NEW j \in DOMAIN out, out[j].life = crashes
        PROVE  /\ Key(out[j].opp) \in DOMAIN marked'
               /\ out[j].mark <= marked'[Key(out[j].opp)]
               /\ Key(out[j].opp) = key => marked'[key] - out[j].mark >= ttl
    <3>1. /\ Key(out[j].opp) \in DOMAIN marked /\ out[j].mark \in Nat
          /\ out[j].mark <= marked[Key(out[j].opp)]
      BY <2>6 DEF Dedup, Published
    <3>2. CASE Key(out[j].opp) = key
      <4>1. out[j].mark + ttl <= now
        BY <1>1, <2>1, <3>1, <3>2
      <4> QED
        BY <1>1, <2>3, <3>1, <3>2, <4>1
    <3>3. CASE Key(out[j].opp) # key
      BY <2>3, <3>1, <3>3
    <3> QED
      BY <3>2, <3>3
  <2>7. Published'
    <3>1. out' = out /\ crashes' = crashes
      OBVIOUS
    <3>2. (\E S : out' \in Seq(S)) /\ \A j \in DOMAIN out' :
            out'[j].life \in Nat /\ out'[j].life <= crashes' /\ out'[j].mark \in Nat
      BY <3>1 DEF Dedup, Published
    <3>3. \A j \in DOMAIN out' : out'[j].life = crashes' =>
            /\ Key(out'[j].opp) \in DOMAIN marked'
            /\ out'[j].mark <= marked'[Key(out'[j].opp)]
      BY <3>1, <2>6
    <3> QED
      BY <3>2, <3>3 DEF Published, Key
  <2>8. Offering'
    <3>1. Key(opp') = key /\ out' = out /\ crashes' = crashes
      BY <1>4 DEF key
    <3>2. key \in DOMAIN marked'
      BY <2>3
    <3>3. \A j \in DOMAIN out' : out'[j].life = crashes' /\ Key(out'[j].opp) = key =>
            marked'[key] - out'[j].mark >= ttl
      BY <3>1, <2>6
    <3> QED
      BY <3>1, <3>2, <3>3 DEF Offering, Key
  <2> QED
    BY <2>4, <2>5, <2>7, <2>8 DEF Dedup
<1> QED
  BY <1>3, <1>4 DEF Offer, Take

\* An entry is added to the stream.
LEMMA AddedKeeps ==
  ASSUME Dedup, pc = "publish", out' = Added, pc' # "publish",
         UNCHANGED <<now, seen, marked, crashes>>
  PROVE  Dedup'
<1> DEFINE n == Len(out) + 1
           e == [opp |-> opp, life |-> crashes, mark |-> marked[Key(opp)]]
<1>1. PICK S : out \in Seq(S)
  BY DEF Dedup, Published
<1>2. /\ out' \in Seq(S \cup {e}) /\ DOMAIN out' = DOMAIN out \cup {n}
      /\ \A i \in DOMAIN out : out'[i] = out[i] /\ i < n
      /\ out'[n] = e
  BY <1>1, AppendAny DEF Added
<1>3. /\ Key(opp) \in DOMAIN marked /\ marked[Key(opp)] \in Nat /\ crashes \in Nat
      /\ \A i \in DOMAIN out : out[i].life = crashes /\ Key(out[i].opp) = Key(opp) =>
           marked[Key(opp)] - out[i].mark >= ttl
  BY DEF Dedup, Offering, Uncleaned, Clocks
<1>4. e.opp = opp /\ e.life = crashes /\ e.mark = marked[Key(opp)]
  OBVIOUS
<1>5. DOMAIN out = 1 .. Len(out) /\ Len(out) \in Nat
  BY <1>1, LenProperties
<1> HIDE DEF e, n
<1>6. Clocks' /\ Uncleaned' /\ Offering'
  BY DEF Dedup, Clocks, Uncleaned, Offering
<1>7. Published'
  <2>1. \E T : out' \in Seq(T)
    BY <1>2
  <2>2. ASSUME NEW i \in DOMAIN out'
        PROVE  /\ out'[i].life \in Nat /\ out'[i].life <= crashes' /\ out'[i].mark \in Nat
               /\ out'[i].life = crashes' => /\ Key(out'[i].opp) \in DOMAIN marked'
                                             /\ out'[i].mark <= marked'[Key(out'[i].opp)]
    <3>1. CASE i = n
      BY <1>2, <1>3, <1>4, <3>1
    <3>2. CASE i \in DOMAIN out
      BY <1>2, <3>2 DEF Dedup, Published
    <3> QED
      BY <1>2, <3>1, <3>2
  <2> QED
    BY <2>1, <2>2 DEF Published, Key
<1>8. NotRepeated'
  <2> SUFFICES ASSUME NEW i \in DOMAIN out', NEW j \in DOMAIN out',
                      i < j, out'[i].life = out'[j].life, Key(out'[i].opp) = Key(out'[j].opp)
               PROVE  out'[j].mark - out'[i].mark >= ttl
    BY DEF NotRepeated, Key
  <2>1. i \in DOMAIN out
    <3>1. i = n => j \in DOMAIN out /\ j < n
      BY <1>2, <1>5 DEF n
    <3>2. i # n
      BY <3>1, <1>5 DEF n
    <3> QED
      BY <1>2, <3>2
  <2>2. CASE j \in DOMAIN out
    BY <1>2, <2>1, <2>2 DEF Dedup, NotRepeated
  <2>3. CASE j = n
    BY <1>2, <1>3, <1>4, <2>1, <2>3
  <2> QED
    BY <1>2, <2>2, <2>3
<1> QED
  BY <1>6, <1>7, <1>8 DEF Dedup

\* A new process has marked nothing, and every entry is of an earlier one.
LEMMA CrashKeeps ==
  ASSUME Dedup, Crash
  PROVE  Dedup'
<1>1. crashes' = crashes + 1 /\ crashes \in Nat
  BY DEF Dedup, Clocks, Crash
<1>2. /\ DOMAIN marked' = {} /\ DOMAIN seen' = {} /\ pc' # "publish"
      /\ now' = now /\ out' = out
  BY DEF Crash, NoKeys, redis
<1>3. Clocks' /\ Uncleaned' /\ Offering' /\ NotRepeated'
  BY <1>1, <1>2 DEF Dedup, Clocks, Uncleaned, Offering, NotRepeated, Key
<1>4. Published'
  <2>1. \A i \in DOMAIN out : out[i].life \in Nat /\ out[i].life <= crashes' /\ out[i].life # crashes'
    BY <1>1 DEF Dedup, Published
  <2> QED
    BY <1>2, <2>1 DEF Dedup, Published
<1> QED
  BY <1>3, <1>4 DEF Dedup

\* As time passes the keys that suppress become fewer, in _seen and in marked alike.
LEMMA AdvanceKeeps ==
  ASSUME Dedup, Advance
  PROVE  Dedup'
<1>1. now' = now + 1 /\ now \in Nat
  BY DEF Dedup, Clocks, Advance
<1>2. UNCHANGED <<out, seen, marked, crashes, pc, opp>>
  BY DEF Advance, redis, memory
<1>3. Clocks' /\ Published' /\ Offering' /\ NotRepeated'
  BY <1>1, <1>2 DEF Dedup, Clocks, Published, Offering, NotRepeated, Key
<1>4. Uncleaned'
  <2>1. ttl \in Nat
    BY ScannerAssumption
  <2> QED
    BY <1>1, <1>2, <2>1 DEF Dedup, Uncleaned
<1> QED
  BY <1>3, <1>4 DEF Dedup

-----------------------------------------------------------------------------------
(* The deduplication: theorems. *)

\* dedup.py, scanner/main.py:155-161: the inductive invariant of the deduplication.
THEOREM Deduplicated == Spec => []Dedup
<1>1. Init => Dedup
  <2> SUFFICES ASSUME Init PROVE Dedup
    OBVIOUS
  <2>1. DOMAIN marked = {} /\ DOMAIN seen = {} /\ pc # "publish" /\ now = 0 /\ crashes = 0
    BY DEF Init, NoKeys
  <2>2. out \in Seq({}) /\ DOMAIN out = {}
    BY EmptySeq DEF Init
  <2> QED
    BY <2>1, <2>2 DEF Dedup, Clocks, Uncleaned, Published, Offering, NotRepeated
<1>2. Dedup /\ [Next]_vars => Dedup'
  <2> SUFFICES ASSUME Dedup, [Next]_vars PROVE Dedup'
    OBVIOUS
  <2>1. CASE Advance
    BY <2>1, AdvanceKeeps
  <2>2. CASE Crash
    BY <2>2, CrashKeeps
  <2>3. CASE Publish \/ Boot \/ CreateGroup \/ CreateGroupFails \/ Wake
    <3>1. UNCHANGED <<now, out, seen, marked, crashes>>
      BY <2>3 DEF Publish, Boot, CreateGroup, CreateGroupFails, Wake, Error, redis, memory
    <3>2. pc' # "publish" \/ UNCHANGED <<pc, opp>>
      BY <2>3 DEF Publish, Boot, CreateGroup, CreateGroupFails, Wake, memory
    <3> QED
      BY <3>1, <3>2, QuietKeeps
  <2>4. CASE Read
    <3>1. PICK list : Offer(list)
      BY <2>4 DEF Read
    <3> QED
      BY <2>4, <3>1, OfferKeeps DEF Read
  <2>5. CASE SaveOpportunity
    BY <2>5, OfferKeeps DEF SaveOpportunity
  <2>6. CASE SaveOpportunityFails
    BY <2>6, OfferKeeps DEF SaveOpportunityFails
  <2>7. CASE ReadFails
    BY <2>7, QuietKeeps DEF ReadFails, GiveUp
  <2>8. CASE PublishOpportunity
    BY <2>8, AddedKeeps DEF PublishOpportunity, memory
  <2>9. CASE PublishOpportunityFails
    <3>1. CASE out' = out
      BY <2>9, <3>1, QuietKeeps DEF PublishOpportunityFails, GiveUp
    <3>2. CASE out' = Added
      BY <2>9, <3>2, AddedKeeps DEF PublishOpportunityFails, GiveUp
    <3> QED
      BY <2>9, <3>1, <3>2 DEF PublishOpportunityFails
  <2>10. CASE UNCHANGED vars
    BY <2>10, QuietKeeps DEF vars, redis, memory
  <2> QED
    BY <2>1, <2>2, <2>3, <2>4, <2>5, <2>6, <2>7, <2>8, <2>9, <2>10
    DEF Next, ScannerStep, Fault
<1> QED
  BY <1>1, <1>2, PTL DEF Spec

\* dedup.py:16: the same opportunity is not published again within its time to live, by
\* one process, whatever is cleaned, fails or is published by others meanwhile.
THEOREM PublishedOnce == Spec => []NotRepeated
<1>1. Dedup => NotRepeated
  BY DEF Dedup
<1> QED
  BY <1>1, Deduplicated, PTL

\* dedup.py:33-34, 49-55: cleaning _seen, whenever it is large, changes no answer of
\* is_duplicate.
THEOREM CleaningChangesNothing == Spec => []CleaningIsInvisible
<1>1. Dedup => CleaningIsInvisible
  BY SameDuplicates DEF Dedup, CleaningIsInvisible
<1> QED
  BY <1>1, Deduplicated, PTL

-----------------------------------------------------------------------------------
(* The spreads. *)

\* What the collector may publish.
Stamped == {[symbol |-> q.symbol, exchange |-> q.exchange, bid |-> q.bid, ask |-> q.ask,
             at |-> t] : q \in Quote, t \in Nat}
Opportunity == [buy : Stamped, sell : Stamped, detected : Nat]

\* The numbers of a tick.
LEMMA StampedTick ==
  ASSUME NEW t \in Stamped
  PROVE  t.bid \in Nat \ {0} /\ t.ask \in Nat \ {0} /\ t.at \in Nat
BY ScannerAssumption DEF Stamped

\* get_active_prices keeps the ticks that are not too old, each once.
LEMMA ActiveTicks ==
  ASSUME NEW ticks \in Seq(Stamped), NEW time \in Nat
  PROVE  /\ get_active_prices(ticks, time) \in Seq(Stamped)
         /\ ToSet(get_active_prices(ticks, time)) = {t \in ToSet(ticks) : time - t.at <= max_age}
         /\ IsInjective(ticks) => IsInjective(get_active_prices(ticks, time))
<1> DEFINE parts == [i \in DOMAIN ticks |->
                       IF time - ticks[i].at <= max_age THEN <<ticks[i]>> ELSE <<>>]
<1>1. \A i \in DOMAIN ticks : ticks[i] \in Stamped
  OBVIOUS
<1>2. ASSUME NEW i \in DOMAIN ticks
      PROVE  /\ parts[i] \in Seq(Stamped) /\ IsInjective(parts[i])
             /\ ToSet(parts[i]) = {t \in {ticks[i]} : time - t.at <= max_age}
  <2>1. CASE time - ticks[i].at <= max_age
    <3>1. parts[i] = <<ticks[i]>> /\ DOMAIN <<ticks[i]>> = {1} /\ <<ticks[i]>>[1] = ticks[i]
      BY <2>1
    <3>2. <<ticks[i]>> \in Seq(Stamped)
      BY <1>1
    <3> QED
      BY <2>1, <3>1, <3>2 DEF ToSet, IsInjective
  <2>2. CASE ~(time - ticks[i].at <= max_age)
    <3>1. parts[i] = <<>> /\ DOMAIN <<>> = {}
      BY <2>2
    <3> QED
      BY <2>2, <3>1 DEF ToSet, IsInjective
  <2> QED
    BY <2>1, <2>2
<1>3. parts \in Seq(Seq(Stamped)) /\ DOMAIN parts = DOMAIN ticks
  <2>1. DOMAIN ticks = 1 .. Len(ticks) /\ Len(ticks) \in Nat
    OBVIOUS
  <2>2. parts \in [1 .. Len(ticks) -> Seq(Stamped)]
    BY <1>2, <2>1
  <2> QED
    BY <2>1, <2>2, FunctionIsSeq
<1>4. get_active_prices(ticks, time) = FlattenSeq(parts)
  BY DEF get_active_prices
<1> HIDE DEF parts
<1>5. UNION {ToSet(parts[i]) : i \in DOMAIN parts} = {t \in ToSet(ticks) : time - t.at <= max_age}
  BY <1>2, <1>3 DEF ToSet
<1>6. IsInjective(ticks) => Separate(parts)
  BY <1>2, <1>3 DEF IsInjective, Separate
<1> QED
  BY <1>3, <1>4, <1>5, <1>6, SetOfFlat

Spread(a, b, time) == [buy |-> a, sell |-> b, detected |-> time]
Pays(a, b) == gross_spread_pct(a, b) >= min_spread_pct

\* calculate_spread has the spread, if it pays.
LEMMA OneSpread ==
  ASSUME NEW a \in Stamped, NEW b \in Stamped, NEW time \in Nat
  PROVE  /\ calculate_spread(a, b, time) \in Seq(Opportunity)
         /\ ToSet(calculate_spread(a, b, time)) = {o \in {Spread(a, b, time)} : Pays(a, b)}
<1>1. Spread(a, b, time) \in Opportunity
  BY DEF Spread, Opportunity
<1>2. CASE Pays(a, b)
  <2>1. calculate_spread(a, b, time) = <<Spread(a, b, time)>>
    BY <1>2 DEF calculate_spread, Pays, Spread
  <2>2. ToSet(<<Spread(a, b, time)>>) = {Spread(a, b, time)}
    BY DEF ToSet
  <2> QED
    BY <1>1, <1>2, <2>1, <2>2
<1>3. CASE ~Pays(a, b)
  <2>1. calculate_spread(a, b, time) = <<>>
    BY <1>3 DEF calculate_spread, Pays
  <2>2. ToSet(<<>>) = {}
    BY DEF ToSet
  <2> QED
    BY <1>3, <2>1, <2>2
<1> QED
  BY <1>2, <1>3

\* Spreads looks at every pair of ticks, in both directions.
LEMMA AllPairs ==
  ASSUME NEW ticks \in Seq(Stamped), NEW time \in Nat, IsInjective(ticks)
  PROVE  /\ Spreads(ticks, time) \in Seq(Opportunity)
         /\ \A o : o \in ToSet(Spreads(ticks, time)) <=>
              \E a, b \in ToSet(ticks) : a # b /\ Pays(a, b) /\ o = Spread(a, b, time)
<1> DEFINE n == Len(ticks)
           both(i, j) == calculate_spread(ticks[i], ticks[j], time)
                           \o calculate_spread(ticks[j], ticks[i], time)
           row(i) == [j \in 1 .. n - i |-> both(i, i + j)]
           rows == [i \in DOMAIN ticks |-> FlattenSeq(row(i))]
<1>1. n \in Nat /\ DOMAIN ticks = 1 .. n /\ \A i \in 1 .. n : ticks[i] \in Stamped
  OBVIOUS
<1>2. ASSUME NEW i \in 1 .. n, NEW j \in 1 .. n
      PROVE  /\ both(i, j) \in Seq(Opportunity)
             /\ \A o : o \in ToSet(both(i, j)) <=>
                  \/ Pays(ticks[i], ticks[j]) /\ o = Spread(ticks[i], ticks[j], time)
                  \/ Pays(ticks[j], ticks[i]) /\ o = Spread(ticks[j], ticks[i], time)
  <2>1. /\ calculate_spread(ticks[i], ticks[j], time) \in Seq(Opportunity)
        /\ calculate_spread(ticks[j], ticks[i], time) \in Seq(Opportunity)
        /\ ToSet(calculate_spread(ticks[i], ticks[j], time)) =
             {o \in {Spread(ticks[i], ticks[j], time)} : Pays(ticks[i], ticks[j])}
        /\ ToSet(calculate_spread(ticks[j], ticks[i], time)) =
             {o \in {Spread(ticks[j], ticks[i], time)} : Pays(ticks[j], ticks[i])}
    BY <1>1, OneSpread
  <2> QED
    BY <2>1, SetOfConcat
<1> HIDE DEF both
<1>3. ASSUME NEW i \in 1 .. n
      PROVE  /\ FlattenSeq(row(i)) \in Seq(Opportunity)
             /\ ToSet(FlattenSeq(row(i))) = UNION {ToSet(both(i, j)) : j \in (i + 1) .. n}
  <2>1. n - i \in Nat
    BY <1>1
  <2>2. \A j \in 1 .. n - i : i + j \in (i + 1) .. n /\ i + j \in 1 .. n
    BY <1>1
  <2>3. \A j \in (i + 1) .. n : j - i \in 1 .. n - i /\ i + (j - i) = j
    BY <1>1
  <2>4. row(i) \in [1 .. n - i -> Seq(Opportunity)]
    BY <1>2, <2>2
  <2>5. row(i) \in Seq(Seq(Opportunity)) /\ DOMAIN row(i) = 1 .. n - i
    BY <2>1, <2>4, FunctionIsSeq
  <2>6. \A j \in 1 .. n - i : row(i)[j] = both(i, i + j)
    OBVIOUS
  <2>7. UNION {ToSet(row(i)[j]) : j \in DOMAIN row(i)}
          = UNION {ToSet(both(i, j)) : j \in (i + 1) .. n}
    <3> HIDE DEF row
    <3>1. ASSUME NEW o, NEW j \in 1 .. n - i, o \in ToSet(row(i)[j])
          PROVE  o \in UNION {ToSet(both(i, k)) : k \in (i + 1) .. n}
      BY <2>2, <2>6, <3>1
    <3>2. ASSUME NEW o, NEW j \in (i + 1) .. n, o \in ToSet(both(i, j))
          PROVE  o \in UNION {ToSet(row(i)[k]) : k \in 1 .. n - i}
      <4>1. row(i)[j - i] = both(i, j) /\ j - i \in 1 .. n - i
        BY <2>3, <2>6
      <4> QED
        BY <3>2, <4>1
    <3> QED
      BY <2>5, <3>1, <3>2
  <2> HIDE DEF row
  <2> QED
    BY <2>5, <2>7, SetOfFlat
<1>4. Spreads(ticks, time) = FlattenSeq(rows)
  BY DEF Spreads, both
<1> HIDE DEF row
<1>5. rows \in Seq(Seq(Opportunity)) /\ DOMAIN rows = 1 .. n
  <2>1. rows \in [1 .. n -> Seq(Opportunity)]
    BY <1>1, <1>3
  <2> QED
    BY <1>1, <2>1, FunctionIsSeq
<1>6. ToSet(FlattenSeq(rows)) = UNION {ToSet(rows[i]) : i \in 1 .. n}
  BY <1>5, SetOfFlat
<1>7. \A i \in 1 .. n : rows[i] = FlattenSeq(row(i))
  BY <1>1
<1> HIDE DEF rows
<1>8. ASSUME NEW o, o \in ToSet(FlattenSeq(rows))
      PROVE  \E a, b \in ToSet(ticks) : a # b /\ Pays(a, b) /\ o = Spread(a, b, time)
  <2>0. PICK i \in 1 .. n : o \in ToSet(FlattenSeq(row(i)))
    BY <1>6, <1>7, <1>8
  <2>1. PICK j \in (i + 1) .. n : o \in ToSet(both(i, j))
    BY <1>3, <2>0
  <2>2. i \in 1 .. n /\ j \in 1 .. n /\ i # j
    BY <1>1, <2>1
  <2>3. ticks[i] \in ToSet(ticks) /\ ticks[j] \in ToSet(ticks) /\ ticks[i] # ticks[j]
    BY <1>1, <2>2 DEF ToSet, IsInjective
  <2> QED
    BY <1>2, <2>1, <2>2, <2>3
<1>9. ASSUME NEW a \in ToSet(ticks), NEW b \in ToSet(ticks), a # b, Pays(a, b)
      PROVE  Spread(a, b, time) \in ToSet(FlattenSeq(rows))
  <2>1. PICK i \in 1 .. n, j \in 1 .. n : a = ticks[i] /\ b = ticks[j]
    BY <1>1 DEF ToSet
  <2>2. CASE i < j
    <3>1. j \in (i + 1) .. n /\ Spread(a, b, time) \in ToSet(both(i, j))
      BY <1>1, <1>2, <1>9, <2>1, <2>2
    <3> QED
      BY <1>3, <1>6, <1>7, <3>1
  <2>3. CASE j < i
    <3>1. i \in (j + 1) .. n /\ Spread(a, b, time) \in ToSet(both(j, i))
      BY <1>1, <1>2, <1>9, <2>1, <2>3
    <3> QED
      BY <1>3, <1>6, <1>7, <3>1
  <2>4. i # j
    BY <1>9, <2>1
  <2> QED
    BY <1>1, <2>2, <2>3, <2>4
<1>10. FlattenSeq(rows) \in Seq(Opportunity)
  BY <1>5, SetOfFlat
<1> QED
  BY <1>4, <1>8, <1>9, <1>10

-----------------------------------------------------------------------------------
(* The cache. *)

Symbols == {q.symbol : q \in Quote}
Entries == [symbol : Symbols, ticks : Seq(Stamped)]

\* An entry of the cache has the ticks of its symbol, one for each exchange.
Filed(entry) ==
  /\ \A i \in DOMAIN entry.ticks : entry.ticks[i].symbol = entry.symbol
  /\ \A i, j \in DOMAIN entry.ticks :
       entry.ticks[i].exchange = entry.ticks[j].exchange => i = j
  /\ Len(entry.ticks) \in 1 .. MAX_CACHE_EXCHANGES

\* The cache has one entry for each symbol, and its limits.
Orderly(c) ==
  /\ \A i \in DOMAIN c : Filed(c[i])
  /\ \A i, j \in DOMAIN c : c[i].symbol = c[j].symbol => i = j
  /\ Len(c) <= MAX_CACHE_SYMBOLS

Caches == {c \in Seq(Entries) : Orderly(c)}

\* What a cache offers at a time, stated without the loops that compute it.
Offered(c, time, o) ==
  \E i \in DOMAIN c : \E a, b \in ToSet(c[i].ticks) :
    /\ a # b /\ time - a.at <= max_age /\ time - b.at <= max_age
    /\ Pays(a, b) /\ o = Spread(a, b, time)

\* The loops compute this.
LEMMA AllSpreads ==
  ASSUME NEW c \in Caches, NEW time \in Nat
  PROVE  /\ calculate_all_spreads(c, time) \in Seq(Opportunity)
         /\ \A o : o \in ToSet(calculate_all_spreads(c, time)) <=> Offered(c, time, o)
<1> DEFINE part(i) == Spreads(get_active_prices(c[i].ticks, time), time)
           parts == [i \in DOMAIN c |-> part(i)]
<1>1. c \in Seq(Entries) /\ DOMAIN c = 1 .. Len(c) /\ Len(c) \in Nat
  BY DEF Caches
<1>2. ASSUME NEW i \in DOMAIN c
      PROVE  /\ part(i) \in Seq(Opportunity)
             /\ \A o : o \in ToSet(part(i)) <=>
                  \E a, b \in ToSet(c[i].ticks) :
                    /\ a # b /\ time - a.at <= max_age /\ time - b.at <= max_age
                    /\ Pays(a, b) /\ o = Spread(a, b, time)
  <2>1. c[i].ticks \in Seq(Stamped)
    <3>1. c[i] \in Entries
      BY <1>1
    <3> QED
      BY <3>1 DEF Entries
  <2>2. IsInjective(c[i].ticks)
    BY DEF Caches, Orderly, Filed, IsInjective
  <2>3. /\ get_active_prices(c[i].ticks, time) \in Seq(Stamped)
        /\ IsInjective(get_active_prices(c[i].ticks, time))
        /\ ToSet(get_active_prices(c[i].ticks, time)) =
             {t \in ToSet(c[i].ticks) : time - t.at <= max_age}
    BY <2>1, <2>2, ActiveTicks
  <2> QED
    BY <2>3, AllPairs
<1> HIDE DEF part
<1>3. parts \in Seq(Seq(Opportunity))
  <2>1. parts \in [1 .. Len(c) -> Seq(Opportunity)]
    BY <1>1, <1>2
  <2> QED
    BY <1>1, <2>1, FunctionIsSeq
<1>4. calculate_all_spreads(c, time) = FlattenSeq(parts)
  BY DEF calculate_all_spreads, part
<1>5. DOMAIN parts = DOMAIN c /\ \A i \in DOMAIN c : parts[i] = part(i)
  OBVIOUS
<1> HIDE DEF parts
<1>6. /\ FlattenSeq(parts) \in Seq(Opportunity)
      /\ ToSet(FlattenSeq(parts)) = UNION {ToSet(parts[i]) : i \in DOMAIN parts}
  BY <1>3, SetOfFlat
<1>7. ASSUME NEW o
      PROVE  o \in ToSet(FlattenSeq(parts)) <=> \E i \in DOMAIN c : o \in ToSet(part(i))
  BY <1>5, <1>6
<1>8. ASSUME NEW o
      PROVE  (\E i \in DOMAIN c : o \in ToSet(part(i))) <=> Offered(c, time, o)
  BY <1>2 DEF Offered
<1> QED
  BY <1>4, <1>6, <1>7, <1>8

-----------------------------------------------------------------------------------
(* What update does. *)

\* There is an oldest tick.
LEMMA OldestTick ==
  ASSUME NEW ticks \in Seq(Stamped), ticks # <<>>
  PROVE  Oldest(ticks) \in 1 .. Len(ticks)
<1>1. /\ Len(ticks) \in Nat /\ DOMAIN ticks = 1 .. Len(ticks) /\ 1 \in DOMAIN ticks
      /\ \A i \in DOMAIN ticks : ticks[i] \in Stamped
  OBVIOUS
<1>2. \A i \in DOMAIN ticks : ticks[i].at \in Nat /\ i \in Nat
  BY <1>1, StampedTick
<1> DEFINE ats == {ticks[i].at : i \in DOMAIN ticks}
<1>3. ats \in SUBSET Nat /\ ats # {}
  BY <1>1, <1>2
<1>4. PICK a \in ats : \A b \in ats : a <= b
  <2> HIDE DEF ats
  <2> QED
    BY <1>3, LeastNat
<1> DEFINE oldest == {i \in DOMAIN ticks : ticks[i].at = a}
<1>5. oldest \in SUBSET Nat /\ oldest # {}
  BY <1>2, <1>4
<1>6. PICK m \in oldest : \A i \in oldest : m <= i
  <2> HIDE DEF oldest
  <2> QED
    BY <1>5, LeastNat
<1>7. \A j \in DOMAIN ticks : ticks[m].at < ticks[j].at \/ (ticks[m].at = ticks[j].at /\ m <= j)
  <2> SUFFICES ASSUME NEW j \in DOMAIN ticks
               PROVE  ticks[m].at < ticks[j].at \/ (ticks[m].at = ticks[j].at /\ m <= j)
    OBVIOUS
  <2>1. ticks[m].at = a /\ a <= ticks[j].at /\ m \in DOMAIN ticks
    BY <1>4
  <2>2. CASE ticks[j].at = a
    BY <1>6, <2>1, <2>2
  <2>3. CASE ticks[j].at # a
    BY <1>2, <2>1, <2>3
  <2> QED
    BY <2>2, <2>3
<1>8. m \in DOMAIN ticks
  OBVIOUS
<1>9. Oldest(ticks) \in DOMAIN ticks
  BY <1>7, <1>8 DEF Oldest
<1> QED
  BY <1>1, <1>9

Entry(symbol, ticks) == [symbol |-> symbol, ticks |-> ticks]

\* An updated entry has the new tick, and of the ticks it had some of other exchanges.
LEMMA TicksWith ==
  ASSUME NEW ticks \in Seq(Stamped), NEW tick \in Stamped, Filed(Entry(tick.symbol, ticks))
  PROVE  /\ WithTick(ticks, tick) \in Seq(Stamped)
         /\ Filed(Entry(tick.symbol, WithTick(ticks, tick)))
         /\ tick \in ToSet(WithTick(ticks, tick))
         /\ \A t \in ToSet(WithTick(ticks, tick)) :
              t = tick \/ (t \in ToSet(ticks) /\ t.exchange # tick.exchange)
<1> DEFINE same == {i \in DOMAIN ticks : ticks[i].exchange = tick.exchange}
           kept == IF Len(ticks) >= MAX_CACHE_EXCHANGES THEN RemoveAt(ticks, Oldest(ticks)) ELSE ticks
           new == WithTick(ticks, tick)
<1>1. /\ Len(ticks) \in Nat /\ DOMAIN ticks = 1 .. Len(ticks)
      /\ \A i \in DOMAIN ticks : ticks[i] \in Stamped
      /\ MAX_CACHE_EXCHANGES \in Nat \ {0}
  BY CacheAssumption
<1>2. /\ \A i \in DOMAIN ticks : ticks[i].symbol = tick.symbol
      /\ \A i, j \in DOMAIN ticks : ticks[i].exchange = ticks[j].exchange => i = j
      /\ Len(ticks) \in 1 .. MAX_CACHE_EXCHANGES
  BY DEF Filed, Entry
<1>3. CASE same # {}
  <2>1. new = [i \in DOMAIN ticks |-> IF i \in same THEN tick ELSE ticks[i]]
    BY <1>3 DEF WithTick
  <2>2. new \in Seq(Stamped) /\ Len(new) = Len(ticks) /\ DOMAIN new = DOMAIN ticks
    <3>1. [i \in DOMAIN ticks |-> IF i \in same THEN tick ELSE ticks[i]] \in [1 .. Len(ticks) -> Stamped]
      BY <1>1
    <3> QED
      BY <1>1, <2>1, <3>1, FunctionIsSeq
  <2>3. \A i \in DOMAIN ticks : /\ new[i] = IF i \in same THEN tick ELSE ticks[i]
                                /\ new[i].exchange = ticks[i].exchange /\ new[i].symbol = tick.symbol
    BY <1>2, <2>1
  <2> HIDE DEF new
  <2>4. Filed(Entry(tick.symbol, new))
    BY <1>2, <2>2, <2>3 DEF Filed, Entry
  <2>5. tick \in ToSet(new)
    <3>1. PICK i \in DOMAIN ticks : i \in same
      BY <1>3
    <3> QED
      BY <2>2, <2>3, <3>1 DEF ToSet
  <2>6. \A t \in ToSet(new) : t = tick \/ (t \in ToSet(ticks) /\ t.exchange # tick.exchange)
    BY <2>2, <2>3 DEF ToSet
  <2> QED
    BY <2>2, <2>4, <2>5, <2>6 DEF new
<1>4. CASE same = {}
  <2>1. new = Append(kept, tick)
    BY <1>4 DEF WithTick
  <2>2. /\ kept \in Seq(Stamped) /\ Len(kept) < MAX_CACHE_EXCHANGES
        /\ \E place \in [1 .. Len(kept) -> DOMAIN ticks] :
             /\ \A i \in 1 .. Len(kept) : kept[i] = ticks[place[i]]
             /\ \A i, j \in 1 .. Len(kept) : place[i] = place[j] => i = j
    <3>1. CASE Len(ticks) >= MAX_CACHE_EXCHANGES
      <4> DEFINE m == Oldest(ticks)
      <4>1. m \in 1 .. Len(ticks)
        BY <1>2, OldestTick
      <4>2. kept = RemoveAt(ticks, m)
        BY <3>1
      <4> HIDE DEF kept, m
      <4>3. /\ kept \in Seq(Stamped) /\ Len(kept) = Len(ticks) - 1
            /\ \A j \in 1 .. Len(ticks) - 1 : kept[j] = IF j < m THEN ticks[j] ELSE ticks[j + 1]
        BY <4>1, <4>2, Removed
      <4> DEFINE place == [j \in 1 .. Len(ticks) - 1 |-> IF j < m THEN j ELSE j + 1]
      <4>4. \A j \in 1 .. Len(ticks) - 1 : j \in DOMAIN ticks /\ j + 1 \in DOMAIN ticks
        BY <1>1
      <4>5. place \in [1 .. Len(kept) -> DOMAIN ticks]
        BY <4>3, <4>4
      <4>6. \A i, j \in 1 .. Len(kept) : place[i] = place[j] => i = j
        BY <1>1, <4>1, <4>3
      <4>7. \A i \in 1 .. Len(kept) : kept[i] = ticks[place[i]]
        BY <4>3
      <4>8. Len(kept) < MAX_CACHE_EXCHANGES
        BY <1>1, <1>2, <4>3
      <4> HIDE DEF place
      <4> QED
        BY <4>3, <4>5, <4>6, <4>7, <4>8
    <3>2. CASE ~(Len(ticks) >= MAX_CACHE_EXCHANGES)
      <4>1. kept = ticks
        BY <3>2
      <4> HIDE DEF kept
      <4> DEFINE place == [j \in 1 .. Len(ticks) |-> j]
      <4>2. /\ place \in [1 .. Len(kept) -> DOMAIN ticks]
            /\ \A i \in 1 .. Len(kept) : place[i] = i
        BY <1>1, <4>1
      <4>3. Len(kept) < MAX_CACHE_EXCHANGES
        BY <1>1, <3>2, <4>1
      <4> HIDE DEF place
      <4> QED
        BY <4>1, <4>2, <4>3
    <3> QED
      BY <3>1, <3>2
  <2> HIDE DEF kept
  <2>3. PICK place \in [1 .. Len(kept) -> DOMAIN ticks] :
          /\ \A i \in 1 .. Len(kept) : kept[i] = ticks[place[i]]
          /\ \A i, j \in 1 .. Len(kept) : place[i] = place[j] => i = j
    BY <2>2
  <2>4. Len(kept) \in Nat
    BY <2>2
  <2>5. /\ new \in Seq(Stamped) /\ Len(new) = Len(kept) + 1 /\ new[Len(kept) + 1] = tick
        /\ \A i \in 1 .. Len(kept) : new[i] = kept[i]
    BY <2>1, <2>2, AppendProperties
  <2> HIDE DEF new
  <2>6. \A i \in 1 .. Len(kept) + 1 : i \in 1 .. Len(kept) \/ i = Len(kept) + 1
    BY <2>4
  <2>7. DOMAIN new = 1 .. Len(kept) + 1
    BY <2>5
  <2>8. \A i \in 1 .. Len(kept) : /\ new[i] \in ToSet(ticks) /\ new[i].exchange # tick.exchange
                                  /\ new[i].symbol = tick.symbol
    BY <1>2, <1>4, <2>3, <2>5 DEF ToSet
  <2>9. Filed(Entry(tick.symbol, new))
    <3>1. ASSUME NEW i \in DOMAIN new, NEW j \in DOMAIN new, new[i].exchange = new[j].exchange
          PROVE  i = j
      <4>1. CASE i \in 1 .. Len(kept) /\ j \in 1 .. Len(kept)
        BY <1>2, <2>3, <2>5, <3>1, <4>1
      <4>2. CASE i = Len(kept) + 1 \/ j = Len(kept) + 1
        BY <2>5, <2>6, <2>7, <2>8, <3>1, <4>2
      <4> QED
        BY <2>6, <2>7, <4>1, <4>2
    <3>2. \A i \in DOMAIN new : new[i].symbol = tick.symbol
      BY <2>5, <2>6, <2>7, <2>8
    <3>3. Len(new) \in 1 .. MAX_CACHE_EXCHANGES
      BY <1>1, <2>2, <2>4, <2>5
    <3> QED
      BY <3>1, <3>2, <3>3 DEF Filed, Entry
  <2>10. tick \in ToSet(new)
    <3>1. Len(kept) + 1 \in 1 .. Len(kept) + 1
      BY <2>4
    <3> QED
      BY <2>5, <2>7, <3>1 DEF ToSet
  <2>11. \A t \in ToSet(new) : t = tick \/ (t \in ToSet(ticks) /\ t.exchange # tick.exchange)
    BY <2>5, <2>6, <2>7, <2>8 DEF ToSet
  <2> QED
    BY <2>5, <2>9, <2>10, <2>11 DEF new
<1> QED
  BY <1>3, <1>4

\* Where entry i was before entry gap was taken away (0: none).
Place(gap, i) == IF gap = 0 \/ i < gap THEN i ELSE i + 1

Rest(c, gap, i) == c[Place(gap, i)]

\* k of m entries are left.
Left(m, gap, k) == m \in Nat /\ gap \in 0 .. m /\ k = IF gap = 0 THEN m ELSE m - 1

\* The others keep their order, and the places left are theirs.
LEMMA Places ==
  ASSUME NEW m, NEW gap, NEW k, Left(m, gap, k)
  PROVE  /\ k \in Nat /\ k <= m
         /\ \A i \in 1 .. k : Place(gap, i) \in 1 .. m /\ Place(gap, i) # gap
         /\ \A i, j \in 1 .. k : /\ Place(gap, i) = Place(gap, j) => i = j
                                 /\ i < j => Place(gap, i) < Place(gap, j)
         /\ \A j \in 1 .. m : j # gap => \E i \in 1 .. k : Place(gap, i) = j
<1> USE DEF Left
<1>1. k \in Nat /\ k <= m
  OBVIOUS
<1>2. \A i \in 1 .. k : Place(gap, i) \in 1 .. m /\ Place(gap, i) # gap
  BY DEF Place
<1>3. \A i, j \in 1 .. k : /\ Place(gap, i) = Place(gap, j) => i = j
                           /\ i < j => Place(gap, i) < Place(gap, j)
  BY DEF Place
<1>4. ASSUME NEW j \in 1 .. m, j # gap
      PROVE  \E i \in 1 .. k : Place(gap, i) = j
  <2>1. CASE gap = 0 \/ j < gap
    <3>1. j \in 1 .. k /\ Place(gap, j) = j
      BY <2>1 DEF Place
    <3> QED
      BY <3>1
  <2>2. CASE gap # 0 /\ j > gap
    <3>1. j - 1 \in 1 .. k /\ Place(gap, j - 1) = j
      BY <2>2 DEF Place
    <3> QED
      BY <3>1
  <2> QED
    BY <1>4, <2>1, <2>2
<1> QED
  BY <1>1, <1>2, <1>3, <1>4

\* What update does: the entry of the tick is the last one, with the tick in it and of
\* what it had ticks of other exchanges; the other entries keep their order and their
\* ticks; the first one is lost if there are too many.
Updated(c, tick, d, gap) ==
  LET n == Len(d)
  IN  /\ gap \in 0 .. Len(c) /\ n = IF gap = 0 THEN Len(c) + 1 ELSE Len(c)
      /\ n \in Nat \ {0}
      /\ \A i \in 1 .. n - 1 : d[i] = Rest(c, gap, i) /\ d[i].symbol # tick.symbol
      /\ d[n].symbol = tick.symbol /\ tick \in ToSet(d[n].ticks)
      /\ \A t \in ToSet(d[n].ticks) : t = tick \/
           /\ gap # 0 /\ c[gap].symbol = tick.symbol
           /\ t \in ToSet(c[gap].ticks) /\ t.exchange # tick.exchange
      /\ gap = 0 => Len(c) < MAX_CACHE_SYMBOLS
      /\ gap # 0 /\ c[gap].symbol # tick.symbol => gap = 1 /\ Len(c) = MAX_CACHE_SYMBOLS

\* r is the cache c without entry gap.
Without(c, gap, r) ==
  /\ r \in Seq(Entries) /\ Left(Len(c), gap, Len(r))
  /\ \A i \in 1 .. Len(r) : r[i] = Rest(c, gap, i)

\* d is the cache c without entry gap, with a new last entry e.
Refiled(c, gap, e, d) ==
  /\ d \in Caches
  /\ Len(d) = IF gap = 0 THEN Len(c) + 1 ELSE Len(c)
  /\ d[Len(d)] = e
  /\ \A i \in 1 .. Len(d) - 1 : d[i] = Rest(c, gap, i) /\ d[i].symbol # e.symbol

\* A cache without an entry, with another one at its end, is a cache.
LEMMA Moves ==
  ASSUME NEW c \in Caches, NEW gap, NEW e \in Entries, Filed(e),
         gap = 0 => Len(c) < MAX_CACHE_SYMBOLS,
         \A i \in DOMAIN c : i # gap => c[i].symbol # e.symbol,
         NEW r, Without(c, gap, r), NEW d, d = Append(r, e)
  PROVE  Refiled(c, gap, e, d)
<1> DEFINE k == Len(r)
<1>0. c \in Seq(Entries) /\ DOMAIN c = 1 .. Len(c)
  BY DEF Caches
<1>1. /\ c \in Seq(Entries) /\ Len(c) \in Nat
      /\ Len(c) <= MAX_CACHE_SYMBOLS /\ MAX_CACHE_SYMBOLS \in Nat \ {0}
  BY CacheAssumption DEF Caches, Orderly
<1>2. /\ r \in Seq(Entries)
      /\ k = IF gap = 0 THEN Len(c) ELSE Len(c) - 1
      /\ gap \in 0 .. Len(c)
      /\ \A i \in 1 .. k : r[i] = c[Place(gap, i)]
  BY DEF Without, Rest, Left
<1>3. /\ k \in Nat /\ k <= Len(c)
      /\ \A i \in 1 .. k : Place(gap, i) \in 1 .. Len(c) /\ Place(gap, i) # gap
      /\ \A i, j \in 1 .. k : Place(gap, i) = Place(gap, j) => i = j
  BY Places DEF Without
<1>6. /\ d \in Seq(Entries) /\ Len(d) = k + 1 /\ d[k + 1] = e
      /\ \A i \in 1 .. k : d[i] = r[i]
  BY <1>2, AppendProperties
<1> HIDE DEF k
<1>7. DOMAIN d = 1 .. k + 1 /\ \A i \in DOMAIN d : i \in 1 .. k \/ i = k + 1
  BY <1>3, <1>6
<1>8. \A i \in 1 .. k : d[i] = c[Place(gap, i)] /\ d[i].symbol # e.symbol
  <2> SUFFICES ASSUME NEW i \in 1 .. k
               PROVE  d[i] = c[Place(gap, i)] /\ d[i].symbol # e.symbol
    OBVIOUS
  <2>1. d[i] = c[Place(gap, i)]
    BY <1>2, <1>6
  <2>2. Place(gap, i) \in DOMAIN c /\ Place(gap, i) # gap
    BY <1>0, <1>3
  <2> QED
    BY <2>1, <2>2
<1>9. \A i \in DOMAIN d : Filed(d[i])
  <2>1. \A i \in DOMAIN c : Filed(c[i])
    BY DEF Caches, Orderly
  <2> QED
    BY <1>0, <1>3, <1>6, <1>7, <1>8, <2>1
<1>10. ASSUME NEW i \in DOMAIN d, NEW j \in DOMAIN d, d[i].symbol = d[j].symbol
       PROVE  i = j
  <2>1. CASE i \in 1 .. k /\ j \in 1 .. k
    <3>1. c[Place(gap, i)].symbol = c[Place(gap, j)].symbol
      BY <1>8, <1>10, <2>1
    <3>2. Place(gap, i) = Place(gap, j)
      BY <1>0, <1>3, <2>1, <3>1 DEF Caches, Orderly
    <3> QED
      BY <1>3, <2>1, <3>2
  <2>2. CASE i = k + 1 \/ j = k + 1
    BY <1>6, <1>7, <1>8, <1>10, <2>2
  <2> QED
    BY <1>7, <2>1, <2>2
<1>11. Len(d) <= MAX_CACHE_SYMBOLS
  <2>1. gap # 0 => k + 1 = Len(c)
    BY <1>1, <1>2
  <2>2. gap = 0 => k + 1 <= MAX_CACHE_SYMBOLS
    BY <1>1, <1>2
  <2> QED
    BY <1>1, <1>6, <2>1, <2>2
<1>12. d \in Caches
  BY <1>6, <1>9, <1>10, <1>11 DEF Caches, Orderly
<1>13. Len(d) - 1 = k /\ Len(d) = IF gap = 0 THEN Len(c) + 1 ELSE Len(c)
  <2>1. (k + 1) - 1 = k /\ (gap # 0 => k + 1 = Len(c)) /\ (gap = 0 => k + 1 = Len(c) + 1)
    BY <1>1, <1>2, <1>3
  <2> QED
    BY <1>6, <2>1
<1> QED
  BY <1>6, <1>8, <1>12, <1>13 DEF Rest, Refiled

\* An entry removed by its position.
LEMMA WithoutOne ==
  ASSUME NEW c \in Seq(Entries), NEW gap \in 1 .. Len(c)
  PROVE  Without(c, gap, RemoveAt(c, gap))
<1>1. /\ RemoveAt(c, gap) \in Seq(Entries) /\ Len(RemoveAt(c, gap)) = Len(c) - 1
      /\ \A j \in 1 .. Len(c) - 1 : RemoveAt(c, gap)[j] = IF j < gap THEN c[j] ELSE c[j + 1]
  BY Removed
<1>2. gap # 0
  OBVIOUS
<1> QED
  BY <1>1, <1>2 DEF Without, Rest, Place, Left

\* Or the first one.
LEMMA WithoutFirst ==
  ASSUME NEW c \in Seq(Entries), c # <<>>
  PROVE  Without(c, 1, Tail(c))
<1>1. Len(c) \in Nat /\ Len(c) # 0
  OBVIOUS
<1>2. /\ Tail(c) \in Seq(Entries) /\ Len(Tail(c)) = Len(c) - 1
      /\ \A j \in 1 .. Len(c) - 1 : Tail(c)[j] = c[j + 1]
  OBVIOUS
<1>3. \A j \in 1 .. Len(c) - 1 : ~(j < 1)
  BY <1>1
<1> QED
  BY <1>2, <1>3 DEF Without, Rest, Place, Left

\* update does as Updated says, whether the symbol has an entry, or there is room, or
\* neither.
LEMMA Updates ==
  ASSUME NEW c \in Caches, NEW tick \in Stamped
  PROVE  /\ update(c, tick) \in Caches
         /\ \E gap \in 0 .. Len(c) : Updated(c, tick, update(c, tick), gap)
<1> DEFINE d == update(c, tick)
           found == {i \in 1 .. Len(c) : c[i].symbol = tick.symbol}
           old == SelectInSeq(c, LAMBDA x : x.symbol = tick.symbol)
<1>0. c \in Seq(Entries) /\ DOMAIN c = 1 .. Len(c)
  BY DEF Caches
<1>1. /\ c \in Seq(Entries) /\ Len(c) \in Nat
      /\ Len(c) <= MAX_CACHE_SYMBOLS /\ MAX_CACHE_SYMBOLS \in Nat \ {0}
      /\ MAX_CACHE_EXCHANGES \in Nat \ {0}
  BY CacheAssumption DEF Caches, Orderly
<1>2. old = IF found # {} THEN Min(found) ELSE 0
  BY DEF SelectInSeq
<1>3. tick.symbol \in Symbols
  BY DEF Stamped, Symbols
<1>4. CASE found # {}
  <2>1. found \in SUBSET Nat
    BY <1>1
  <2>2. Min(found) \in found
    <3> HIDE DEF found
    <3>1. \E n \in found : \A m \in found : n <= m
      BY <1>4, <2>1, LeastNat
    <3> QED
      BY <3>1 DEF Min
  <2>3. old \in 1 .. Len(c) /\ c[old].symbol = tick.symbol /\ old # 0
    BY <1>1, <1>2, <1>4, <2>2
  <2> DEFINE ticks == c[old].ticks
             e == [symbol |-> tick.symbol, ticks |-> WithTick(ticks, tick)]
  <2>4. d = Append(RemoveAt(c, old), e)
    BY <2>3 DEF update
  <2> HIDE DEF old, d
  <2>5. c[old] \in Entries /\ Filed(c[old]) /\ ticks \in Seq(Stamped)
    <3>1. c[old] \in Entries /\ Filed(c[old])
      BY <1>0, <2>3 DEF Caches, Orderly
    <3> QED
      BY <3>1 DEF Entries
  <2>6. Filed(Entry(tick.symbol, ticks))
    BY <2>3, <2>5 DEF Filed, Entry
  <2> HIDE DEF ticks
  <2>7. /\ WithTick(ticks, tick) \in Seq(Stamped)
        /\ Filed(e)
        /\ tick \in ToSet(e.ticks)
        /\ \A t \in ToSet(e.ticks) : t = tick \/ (t \in ToSet(ticks) /\ t.exchange # tick.exchange)
    BY <2>5, <2>6, TicksWith DEF Entry
  <2>8. e \in Entries /\ e.symbol = tick.symbol
    BY <1>3, <2>7 DEF Entries
  <2> HIDE DEF e
  <2>9. \A i \in DOMAIN c : i # old => c[i].symbol # e.symbol
    BY <1>0, <2>3, <2>8 DEF Caches, Orderly
  <2>10. old \in 0 .. Len(c)
    BY <2>3
  <2>11. Without(c, old, RemoveAt(c, old))
    BY <1>1, <2>3, WithoutOne
  <2>12. Refiled(c, old, e, d)
    BY <2>3, <2>4, <2>7, <2>8, <2>9, <2>11, Moves
  <2>13. Len(d) \in Nat \ {0}
    BY <1>1, <2>3, <2>12 DEF Refiled
  <2>14. Updated(c, tick, d, old)
    BY <2>3, <2>7, <2>8, <2>10, <2>12, <2>13 DEF Updated, Refiled, ticks
  <2> QED
    BY <2>10, <2>12, <2>14 DEF Refiled, d
<1>5. CASE found = {}
  <2> DEFINE gap == IF Len(c) >= MAX_CACHE_SYMBOLS THEN 1 ELSE 0
             e == [symbol |-> tick.symbol, ticks |-> <<tick>>]
  <2>1. d = Append(IF Len(c) >= MAX_CACHE_SYMBOLS THEN Tail(c) ELSE c, e)
    BY <1>2, <1>5 DEF update
  <2>2. gap \in 0 .. Len(c) /\ (gap = 0 => Len(c) < MAX_CACHE_SYMBOLS)
        /\ (gap # 0 => gap = 1 /\ Len(c) = MAX_CACHE_SYMBOLS /\ c # <<>>)
    <3>1. CASE Len(c) >= MAX_CACHE_SYMBOLS
      <4>1. gap = 1 /\ Len(c) = MAX_CACHE_SYMBOLS /\ 1 \in 0 .. Len(c) /\ Len(c) # 0
        BY <1>1, <3>1
      <4> QED
        BY <1>1, <4>1, EmptySeq
    <3>2. CASE ~(Len(c) >= MAX_CACHE_SYMBOLS)
      <4>1. gap = 0 /\ Len(c) < MAX_CACHE_SYMBOLS /\ 0 \in 0 .. Len(c)
        BY <1>1, <3>2
      <4> QED
        BY <4>1
    <3> QED
      BY <3>1, <3>2
  <2> DEFINE r == IF Len(c) >= MAX_CACHE_SYMBOLS THEN Tail(c) ELSE c
  <2>3. Without(c, gap, r)
    <3>1. CASE Len(c) >= MAX_CACHE_SYMBOLS
      <4>1. gap = 1 /\ r = Tail(c) /\ c # <<>>
        BY <2>2, <3>1
      <4> QED
        BY <1>1, <4>1, WithoutFirst
    <3>2. CASE ~(Len(c) >= MAX_CACHE_SYMBOLS)
      <4>1. gap = 0 /\ r = c
        BY <3>2
      <4> QED
        BY <1>1, <4>1 DEF Without, Rest, Place, Left
    <3> QED
      BY <3>1, <3>2
  <2> HIDE DEF r
  <2> HIDE DEF gap, d, old
  <2>4. <<tick>> \in Seq(Stamped) /\ Len(<<tick>>) = 1 /\ DOMAIN <<tick>> = {1} /\ <<tick>>[1] = tick
    OBVIOUS
  <2>5. e \in Entries /\ Filed(e) /\ e.symbol = tick.symbol /\ ToSet(e.ticks) = {tick}
    <3>1. Filed(e)
      BY <1>1, <2>4 DEF Filed
    <3>2. ToSet(<<tick>>) = {tick}
      BY <2>4 DEF ToSet
    <3> QED
      BY <1>3, <2>4, <3>1, <3>2 DEF Entries
  <2> HIDE DEF e
  <2>6. \A i \in DOMAIN c : c[i].symbol # tick.symbol
    BY <1>0, <1>5
  <2>7. \A i \in DOMAIN c : i # gap => c[i].symbol # e.symbol
    BY <2>5, <2>6
  <2>8. Refiled(c, gap, e, d)
    BY <2>1, <2>2, <2>3, <2>5, <2>7, Moves DEF r
  <2>9. Len(d) \in Nat \ {0}
    BY <1>1, <2>2, <2>8 DEF Refiled
  <2>10. Updated(c, tick, d, gap)
    BY <2>2, <2>5, <2>8, <2>9 DEF Updated, Refiled
  <2> QED
    BY <2>2, <2>8, <2>10 DEF Refiled, d
<1> QED
  BY <1>4, <1>5

-----------------------------------------------------------------------------------
(* What a number of updates does. *)

\* FoldLeft applies update to one tick after the other.
Folded(c, s, f) ==
  /\ f[0] = c /\ \A i \in 1 .. Len(s) : f[i] = update(f[i - 1], s[i])
  /\ FoldLeft(update, c, s) = f[Len(s)]

\* There are the caches in between: FoldLeft is a fold over the positions of the ticks,
\* the greatest one last.
LEMMA UpdatesFold ==
  ASSUME NEW c \in Caches, NEW s \in Seq(Stamped)
  PROVE  \E f \in [0 .. Len(s) -> Caches] : Folded(c, s, f)
<1> DEFINE S == 1 .. Len(s)
           ch == [T \in SUBSET S |-> Max(T)]
           step == [p \in S \X Caches |-> update(p[2], s[p[1]])]
           Iter(g) == g = [T \in SUBSET S |-> IF T = {} THEN c
                             ELSE update(g[T \ {Max(T)}], s[Max(T)])]
<1>1. Len(s) \in Nat /\ \A i \in S : s[i] \in Stamped
  OBVIOUS
<1>2. IsFiniteSet(S)
  BY <1>1, FS_Interval
<1>3. ASSUME NEW T \in SUBSET S, T # {} PROVE Max(T) \in T
  <2>1. T \in SUBSET Nat /\ \A x \in T : x <= Len(s)
    BY <1>1
  <2> QED
    BY <1>1, <1>3, <2>1, GreatestNat
<1>4. PICK g \in [SUBSET S -> Caches] : FoldOver(g, S, c, ch, step)
  <2>1. Chooses(ch, S)
    BY <1>3 DEF Chooses
  <2>2. StaysIn(Caches, S, step)
    BY <1>1, Updates DEF StaysIn
  <2> HIDE DEF ch, step
  <2> QED
    BY <1>2, <2>1, <2>2, FoldExists
<1>5. \A T \in SUBSET S : g[T] = IF T = {} THEN c ELSE update(g[T \ {Max(T)}], s[Max(T)])
  <2> SUFFICES ASSUME NEW T \in SUBSET S, T # {}
               PROVE  g[T] = update(g[T \ {Max(T)}], s[Max(T)])
    BY <1>4 DEF FoldOver
  <2>1. Max(T) \in S /\ g[T \ {Max(T)}] \in Caches
    BY <1>3
  <2>2. g[T] = step[<<ch[T], g[T \ {ch[T]}]>>] /\ ch[T] = Max(T)
    BY <1>4 DEF FoldOver
  <2> QED
    BY <2>1, <2>2
<1>6. Iter(g)
  BY <1>5
<1>7. ASSUME NEW h, Iter(h) PROVE h = g
  <2> DEFINE Q == {T \in SUBSET S : h[T] = g[T]}
  <2>1. {} \in Q
    BY <1>6, <1>7
  <2>2. ASSUME NEW T \in SUBSET S, T # {}, \A x \in T : T \ {x} \in Q PROVE T \in Q
    <3> DEFINE x == Max(T)
    <3>1. h[T \ {x}] = g[T \ {x}]
      BY <1>3, <2>2
    <3>2. h[T] = update(h[T \ {x}], s[x])
      BY <1>7, <2>2
    <3>3. g[T] = update(g[T \ {x}], s[x])
      BY <1>6, <2>2
    <3> HIDE DEF x
    <3> QED
      BY <3>1, <3>2, <3>3
  <2> HIDE DEF Q
  <2>3. SUBSET S \subseteq Q
    BY <1>2, <2>1, <2>2, SetInduct
  <2> QED
    BY <1>6, <1>7, <2>3 DEF Q
<1>8. FoldLeft(update, c, s) = (CHOOSE h : Iter(h))[S]
  <2>1. DOMAIN s = S
    OBVIOUS
  <2> QED
    BY <2>1 DEF FoldLeft, MapThenFoldSet
<1> HIDE DEF Iter
<1>9. (CHOOSE h : Iter(h)) = g
  BY <1>6, <1>7
<1> DEFINE f == [i \in 0 .. Len(s) |-> g[1 .. i]]
<1>10. f \in [0 .. Len(s) -> Caches] /\ f[0] = c /\ f[Len(s)] = g[S]
  <2>1. \A i \in 0 .. Len(s) : 1 .. i \in SUBSET S
    BY <1>1
  <2>2. 1 .. 0 = {} /\ {} \in SUBSET S
    OBVIOUS
  <2>3. f \in [0 .. Len(s) -> Caches]
    BY <1>4, <2>1
  <2>4. 0 \in 0 .. Len(s) /\ Len(s) \in 0 .. Len(s)
    BY <1>1
  <2>5. f[0] = g[1 .. 0] /\ f[Len(s)] = g[S]
    BY <2>4
  <2>6. g[{}] = c
    BY <1>5, <2>2
  <2> QED
    BY <2>2, <2>3, <2>5, <2>6
<1>11. ASSUME NEW i \in 1 .. Len(s) PROVE f[i] = update(f[i - 1], s[i])
  <2>1. i - 1 \in Nat /\ (i - 1) + 1 = i /\ i \in 0 .. Len(s) /\ i - 1 \in 0 .. Len(s)
    BY <1>1
  <2>2. Max(1 .. i) = i
    BY <2>1, MaxOf
  <2>3. (1 .. i) \ {i} = 1 .. (i - 1) /\ 1 .. i # {} /\ 1 .. i \in SUBSET S
    <3>1. \A k \in 1 .. i : k # i => k \in 1 .. (i - 1)
      OBVIOUS
    <3>2. \A k \in 1 .. (i - 1) : k \in 1 .. i /\ k # i
      BY <2>1
    <3>3. (1 .. i) \ {i} = 1 .. (i - 1)
      BY <3>1, <3>2
    <3>4. i \in 1 .. i /\ \A k \in 1 .. i : k \in S
      BY <1>1
    <3> QED
      BY <3>3, <3>4
  <2>4. f[i] = g[1 .. i] /\ f[i - 1] = g[1 .. (i - 1)]
    BY <2>1
  <2>5. g[1 .. i] = update(g[(1 .. i) \ {Max(1 .. i)}], s[Max(1 .. i)])
    BY <1>5, <2>3
  <2> HIDE DEF f
  <2> QED
    BY <2>2, <2>3, <2>4, <2>5
<1> HIDE DEF f
<1> QED
  BY <1>8, <1>9, <1>10, <1>11 DEF Folded

-----------------------------------------------------------------------------------
(* What the cache holds of the first n ticks of the stream ps. *)

Held(c, ps, n) ==
  \A i \in DOMAIN c : \A t \in ToSet(c[i].ticks) : \E m \in 1 .. n : t = ps[m]

Latest(ps, n, s) == Max({0} \cup {m \in 1 .. n : ps[m].symbol = s})

\* t is the last tick of its exchange for the symbol s.
Newest(ps, n, s, t) ==
  \E m \in 1 .. n :
    /\ t = ps[m]
    /\ \A k \in 1 .. n : k > m => ~(ps[k].symbol = s /\ ps[k].exchange = t.exchange)

\* The entries are in the order of their last ticks; a symbol without an entry has been
\* evicted by as many younger ones as fit; an entry has the last ticks of its exchanges.
Recent(c, ps, n) ==
  /\ \A i, j \in DOMAIN c : i < j => Latest(ps, n, c[i].symbol) < Latest(ps, n, c[j].symbol)
  /\ \A m \in 1 .. n :
       \/ \E i \in DOMAIN c : c[i].symbol = ps[m].symbol
       \/ /\ Len(c) = MAX_CACHE_SYMBOLS
          /\ \A i \in DOMAIN c : Latest(ps, n, ps[m].symbol) < Latest(ps, n, c[i].symbol)
  /\ \A i \in DOMAIN c : Latest(ps, n, c[i].symbol) # 0
  /\ \A i \in DOMAIN c : \A t \in ToSet(c[i].ticks) : Newest(ps, n, c[i].symbol, t)

\* The last tick of a symbol is one of it, and none after it is.
LEMMA LastIs ==
  ASSUME NEW ps, NEW n \in Nat, NEW s
  PROVE  /\ Latest(ps, n, s) \in 0 .. n
         /\ \A m \in 1 .. n : ps[m].symbol = s => m <= Latest(ps, n, s)
         /\ Latest(ps, n, s) # 0 => ps[Latest(ps, n, s)].symbol = s
<1> DEFINE T == {0} \cup {m \in 1 .. n : ps[m].symbol = s}
<1>1. T \in SUBSET Nat /\ T # {} /\ \A x \in T : x <= n
  OBVIOUS
<1>2. Max(T) \in T /\ \A y \in T : Max(T) >= y
  <2> HIDE DEF T
  <2> QED
    BY <1>1, GreatestNat
<1>3. Latest(ps, n, s) = Max(T)
  BY DEF Latest
<1>4. ASSUME NEW m \in 1 .. n, ps[m].symbol = s PROVE m <= Max(T)
  <2>1. m \in T
    BY <1>4
  <2>2. Max(T) >= m /\ Max(T) \in Nat
    BY <1>1, <1>2, <2>1
  <2> QED
    BY <2>2
<1>5. Max(T) \in 0 .. n /\ (Max(T) # 0 => ps[Max(T)].symbol = s)
  BY <1>1, <1>2
<1> QED
  BY <1>3, <1>4, <1>5

\* With one tick more, the last one of its symbol is that one.
LEMMA LastStep ==
  ASSUME NEW ps, NEW n \in Nat, NEW s
  PROVE  Latest(ps, n + 1, s) = IF ps[n + 1].symbol = s THEN n + 1 ELSE Latest(ps, n, s)
<1> DEFINE a == Latest(ps, n, s)
           b == Latest(ps, n + 1, s)
<1>1. /\ a \in 0 .. n
      /\ \A m \in 1 .. n : ps[m].symbol = s => m <= a
      /\ a # 0 => ps[a].symbol = s
  BY LastIs
<1>2. /\ b \in 0 .. n + 1
      /\ \A m \in 1 .. n + 1 : ps[m].symbol = s => m <= b
      /\ b # 0 => ps[b].symbol = s
  BY LastIs
<1>3. a \in Nat /\ b \in Nat
  BY <1>1, <1>2
<1> HIDE DEF a, b
<1>4. CASE ps[n + 1].symbol = s
  <2>1. n + 1 <= b
    BY <1>2, <1>4
  <2> QED
    BY <1>2, <1>4, <2>1 DEF b
<1>5. CASE ps[n + 1].symbol # s
  <2>1. b # n + 1
    BY <1>2, <1>5
  <2>2. b <= n
    BY <1>2, <2>1
  <2>3. b <= a
    BY <1>1, <1>2, <1>3, <2>2
  <2>4. a <= b
    <3>1. a # 0 => a \in 1 .. n + 1 /\ ps[a].symbol = s
      BY <1>1
    <3> QED
      BY <1>2, <1>3, <3>1
  <2>5. a = b
    BY <1>3, <2>3, <2>4
  <2> QED
    BY <1>5, <2>5 DEF a, b
<1> QED
  BY <1>4, <1>5

\* An update holds no more than was there and the tick,
LEMMA UpdateHeld ==
  ASSUME NEW c \in Caches, NEW ps, NEW n \in Nat, ps[n + 1] \in Stamped, Held(c, ps, n)
  PROVE  Held(update(c, ps[n + 1]), ps, n + 1)
<1> DEFINE tick == ps[n + 1]
           d == update(c, tick)
<1>1. \A m \in 1 .. n : m \in 1 .. n + 1
  OBVIOUS
<1>2. n + 1 \in 1 .. n + 1
  OBVIOUS
<1>3. d \in Caches /\ \E gap \in 0 .. Len(c) : Updated(c, tick, d, gap)
  BY Updates
<1> HIDE DEF d
<1>4. PICK gap \in 0 .. Len(c) : Updated(c, tick, d, gap)
  BY <1>3
<1>5. DOMAIN c = 1 .. Len(c) /\ DOMAIN d = 1 .. Len(d) /\ Len(c) \in Nat /\ Len(d) \in Nat
  BY <1>3 DEF Caches
<1> SUFFICES ASSUME NEW i \in DOMAIN d, NEW t \in ToSet(d[i].ticks)
             PROVE  \E m \in 1 .. n + 1 : t = ps[m]
  BY DEF Held, d
<1>6. CASE i = Len(d)
  <2>1. t = tick \/ (gap # 0 /\ t \in ToSet(c[gap].ticks))
    BY <1>4, <1>6 DEF Updated
  <2>2. gap # 0 => gap \in DOMAIN c
    BY <1>5
  <2> QED
    BY <1>1, <1>2, <2>1, <2>2 DEF Held
<1>7. CASE i # Len(d)
  <2>1. i \in 1 .. Len(d) - 1
    BY <1>5, <1>7
  <2>2. d[i] = Rest(c, gap, i)
    BY <1>4, <2>1 DEF Updated
  <2>3. Place(gap, i) \in 1 .. Len(c)
    BY <1>4, <1>5, <2>1 DEF Updated, Place
  <2>4. Place(gap, i) \in DOMAIN c /\ t \in ToSet(c[Place(gap, i)].ticks)
    BY <1>5, <2>2, <2>3 DEF Rest
  <2>5. PICK m \in 1 .. n : t = ps[m]
    BY <2>4 DEF Held
  <2> QED
    BY <1>1, <2>5
<1> QED
  BY <1>6, <1>7

\* and keeps the order of the last ticks.
LEMMA UpdateRecent ==
  ASSUME NEW c \in Caches, NEW ps, NEW n \in Nat, ps[n + 1] \in Stamped, Recent(c, ps, n)
  PROVE  Recent(update(c, ps[n + 1]), ps, n + 1)
<1> DEFINE tick == ps[n + 1]
           d == update(c, tick)
           l(s) == Latest(ps, n, s)
           lst(s) == Latest(ps, n + 1, s)
           k == Len(d)
<1>1. \A m \in 1 .. n + 1 : m \in 1 .. n \/ m = n + 1
  OBVIOUS
<1>2. \A s : /\ l(s) \in 0 .. n
              /\ lst(s) = IF tick.symbol = s THEN n + 1 ELSE l(s)
  BY LastIs, LastStep
<1>3. d \in Caches /\ \E gap \in 0 .. Len(c) : Updated(c, tick, d, gap)
  BY Updates
<1> HIDE DEF d
<1>4. PICK gap \in 0 .. Len(c) : Updated(c, tick, d, gap)
  BY <1>3
<1>5. DOMAIN c = 1 .. Len(c) /\ DOMAIN d = 1 .. k /\ Len(c) \in Nat /\ k \in Nat \ {0}
  BY <1>3, <1>4 DEF Caches, Updated
<1>6. /\ d[k].symbol = tick.symbol
      /\ \A i \in 1 .. k - 1 : d[i] = c[Place(gap, i)] /\ d[i].symbol # tick.symbol
      /\ \A t \in ToSet(d[k].ticks) : t = tick \/
           /\ gap # 0 /\ c[gap].symbol = tick.symbol
           /\ t \in ToSet(c[gap].ticks) /\ t.exchange # tick.exchange
      /\ gap # 0 /\ c[gap].symbol # tick.symbol => gap = 1 /\ Len(c) = MAX_CACHE_SYMBOLS
  BY <1>4 DEF Updated, Rest
<1>7. /\ \A i \in 1 .. k - 1 : Place(gap, i) \in DOMAIN c /\ Place(gap, i) # gap
      /\ \A i, j \in 1 .. k - 1 : i < j => Place(gap, i) < Place(gap, j)
      /\ \A j \in DOMAIN c : j # gap => \E i \in 1 .. k - 1 : Place(gap, i) = j
  <2>1. Left(Len(c), gap, k - 1)
    BY <1>4, <1>5 DEF Left, Updated
  <2> HIDE DEF k
  <2>2. /\ \A i \in 1 .. k - 1 : Place(gap, i) \in 1 .. Len(c) /\ Place(gap, i) # gap
        /\ \A j \in 1 .. Len(c) : j # gap => \E i \in 1 .. k - 1 : Place(gap, i) = j
    BY <2>1, Places
  <2>3. \A i, j \in 1 .. k - 1 : i < j => Place(gap, i) < Place(gap, j)
    BY <2>1, Places
  <2> QED
    BY <1>5, <2>2, <2>3
<1>8. gap = 0 => Len(c) < MAX_CACHE_SYMBOLS
  BY <1>4 DEF Updated
<1>9. k = IF gap = 0 THEN Len(c) + 1 ELSE Len(c)
  BY <1>4 DEF Updated
<1>10. /\ \A i, j \in DOMAIN c : i < j => l(c[i].symbol) < l(c[j].symbol)
       /\ \A i \in DOMAIN c : l(c[i].symbol) # 0
       /\ \A i \in DOMAIN c : \A t \in ToSet(c[i].ticks) : Newest(ps, n, c[i].symbol, t)
  BY DEF Recent
<1>11. \A m \in 1 .. n :
         \/ \E i \in DOMAIN c : c[i].symbol = ps[m].symbol
         \/ /\ Len(c) = MAX_CACHE_SYMBOLS
            /\ \A i \in DOMAIN c : l(ps[m].symbol) < l(c[i].symbol)
  BY DEF Recent
<1> HIDE DEF l, lst, k
<1>12. \A i \in 1 .. k : i \in 1 .. k - 1 \/ i = k
  BY <1>5
<1>13. ASSUME NEW i \in DOMAIN d, NEW j \in DOMAIN d, i < j
       PROVE  lst(d[i].symbol) < lst(d[j].symbol)
  <2>1. i \in 1 .. k - 1
    BY <1>5, <1>13
  <2>2. lst(d[i].symbol) = l(d[i].symbol) /\ l(d[i].symbol) \in 0 .. n
    BY <1>2, <1>6, <2>1
  <2>3. CASE j = k
    <3>1. lst(d[j].symbol) = n + 1
      BY <1>2, <1>6, <2>3
    <3> QED
      BY <2>2, <3>1
  <2>4. CASE j \in 1 .. k - 1
    <3>1. lst(d[j].symbol) = l(d[j].symbol)
      BY <1>2, <1>6, <2>4
    <3>2. Place(gap, i) < Place(gap, j) /\ Place(gap, i) \in DOMAIN c /\ Place(gap, j) \in DOMAIN c
      BY <1>7, <1>13, <2>1, <2>4
    <3>3. l(c[Place(gap, i)].symbol) < l(c[Place(gap, j)].symbol)
      BY <1>10, <3>2
    <3> QED
      BY <1>6, <2>1, <2>2, <2>4, <3>1, <3>3
  <2> QED
    BY <1>5, <1>12, <2>3, <2>4
<1>14. ASSUME NEW m \in 1 .. n + 1
       PROVE  \/ \E i \in DOMAIN d : d[i].symbol = ps[m].symbol
              \/ /\ k = MAX_CACHE_SYMBOLS
                 /\ \A i \in DOMAIN d : lst(ps[m].symbol) < lst(d[i].symbol)
  <2> DEFINE r == ps[m].symbol
  <2>0. k \in DOMAIN d
    BY <1>5
  <2>1. CASE r = tick.symbol
    BY <1>6, <2>0, <2>1
  <2>2. CASE r # tick.symbol
    <3>1. m \in 1 .. n
      BY <1>1, <2>2
    <3>2. lst(r) = l(r) /\ l(r) \in 0 .. n
      BY <1>2, <2>2
    <3> HIDE DEF r
    <3>3. lst(d[k].symbol) = n + 1
      BY <1>2, <1>6
    \* A symbol that is younger nowhere in the old cache is younger nowhere in the new one.
    <3>4. ASSUME \A j \in DOMAIN c : j # gap => l(r) < l(c[j].symbol)
          PROVE  \A i \in DOMAIN d : lst(r) < lst(d[i].symbol)
      <4> SUFFICES ASSUME NEW i \in DOMAIN d PROVE lst(r) < lst(d[i].symbol)
        OBVIOUS
      <4>1. CASE i = k
        BY <3>2, <3>3, <4>1
      <4>2. CASE i \in 1 .. k - 1
        <5>1. lst(d[i].symbol) = l(d[i].symbol) /\ d[i] = c[Place(gap, i)]
          BY <1>2, <1>6, <4>2
        <5>2. Place(gap, i) \in DOMAIN c /\ Place(gap, i) # gap
          BY <1>7, <4>2
        <5> QED
          BY <3>2, <3>4, <5>1, <5>2
      <4> QED
        BY <1>5, <1>12, <4>1, <4>2
    <3>5. CASE \E i \in DOMAIN c : c[i].symbol = r
      <4>1. PICK j \in DOMAIN c : c[j].symbol = r
        BY <3>5
      <4>2. CASE j # gap
        <5>1. PICK i \in 1 .. k - 1 : Place(gap, i) = j
          BY <1>7, <4>2
        <5>2. i \in DOMAIN d /\ d[i].symbol = r
          BY <1>5, <1>6, <4>1, <5>1
        <5> QED
          BY <5>2 DEF r
      <4>3. CASE j = gap
        <5>1. gap = 1 /\ Len(c) = MAX_CACHE_SYMBOLS
          BY <1>5, <1>6, <2>2, <4>1, <4>3
        <5>2. \A i \in DOMAIN c : i # gap => l(r) < l(c[i].symbol)
          BY <1>5, <1>10, <4>1, <4>3, <5>1
        <5>3. k = MAX_CACHE_SYMBOLS
          BY <1>9, <5>1
        <5> QED
          BY <3>4, <5>2, <5>3 DEF r
      <4> QED
        BY <4>2, <4>3
    <3>6. CASE ~ \E i \in DOMAIN c : c[i].symbol = r
      <4>1. Len(c) = MAX_CACHE_SYMBOLS /\ \A i \in DOMAIN c : l(r) < l(c[i].symbol)
        BY <1>11, <3>1, <3>6 DEF r
      <4>2. gap # 0
        BY <1>5, <1>8, <4>1
      <4>3. k = MAX_CACHE_SYMBOLS
        BY <1>9, <4>1, <4>2
      <4> QED
        BY <3>4, <4>1, <4>3 DEF r
    <3> QED
      BY <3>5, <3>6
  <2> QED
    BY <2>1, <2>2
<1>15. ASSUME NEW i \in DOMAIN d PROVE lst(d[i].symbol) # 0
  <2>1. CASE i = k
    BY <1>2, <1>6, <2>1
  <2>2. CASE i \in 1 .. k - 1
    BY <1>2, <1>6, <1>7, <1>10, <2>2
  <2> QED
    BY <1>5, <1>12, <2>1, <2>2
\* A tick that is the last of its exchange stays so unless the new one is of that exchange.
<1>16. ASSUME NEW s, NEW t, Newest(ps, n, s, t), s # tick.symbol \/ t.exchange # tick.exchange
       PROVE  Newest(ps, n + 1, s, t)
  BY <1>1, <1>16 DEF Newest
<1>17. ASSUME NEW i \in DOMAIN d, NEW t \in ToSet(d[i].ticks)
       PROVE  Newest(ps, n + 1, d[i].symbol, t)
  <2>1. CASE i \in 1 .. k - 1
    <3>1. d[i] = c[Place(gap, i)] /\ d[i].symbol # tick.symbol /\ Place(gap, i) \in DOMAIN c
      BY <1>6, <1>7, <2>1
    <3>2. Newest(ps, n, d[i].symbol, t)
      BY <1>10, <1>17, <3>1
    <3> QED
      BY <1>16, <3>1, <3>2
  <2>2. CASE i = k /\ t # tick
    <3>1. /\ gap # 0 /\ c[gap].symbol = tick.symbol /\ t \in ToSet(c[gap].ticks)
          /\ t.exchange # tick.exchange
      BY <1>6, <1>17, <2>2
    <3>2. gap \in DOMAIN c
      BY <1>5, <3>1
    <3>3. Newest(ps, n, tick.symbol, t)
      BY <1>10, <3>1, <3>2
    <3> QED
      BY <1>6, <1>16, <2>2, <3>1, <3>3
  <2>3. CASE i = k /\ t = tick
    <3>1. n + 1 \in 1 .. n + 1 /\ \A m \in 1 .. n + 1 : ~(m > n + 1)
      OBVIOUS
    <3> QED
      BY <2>3, <3>1 DEF Newest
  <2> QED
    BY <1>5, <1>12, <2>1, <2>2, <2>3
<1> QED
  BY <1>13, <1>14, <1>15, <1>17 DEF Recent, d, l, lst, k

-----------------------------------------------------------------------------------
(* What is enough for a spread. *)

\* A spread that is enough after it has been rounded to the nearest 0.0001 % is more than
\* one step below before.
LEMMA PaysMeans ==
  ASSUME NEW a \in Stamped, NEW b \in Stamped, Pays(a, b)
  PROVE  1000000 * (b.bid - a.ask) > (min_spread_pct - 1) * a.ask
<1> DEFINE gain == b.bid - a.ask
           k == a.ask
           m == min_spread_pct
           x == 2 * gain * 1000000 + k
           y == 2 * k
           q == x \div y
<1>1. k \in Nat /\ k > 0 /\ gain \in Int /\ m \in Nat /\ m > 0
  BY StampedTick, CacheAssumption
<1>2. gain > 0 /\ q >= m
  BY <1>1 DEF Pays, gross_spread_pct
<1>3. x \in Nat /\ y \in Nat /\ y > 0
  BY <1>1, <1>2
<1> HIDE DEF gain, k, m
<1>4. q \in Nat /\ x = y * q + (x % y) /\ x % y \in 0 .. y - 1
  <2> HIDE DEF x, y
  <2> QED
    BY <1>3
<1>5. y * q >= y * m
  <2> HIDE DEF x, q
  <2>1. q - m \in Nat /\ y \in Nat
    BY <1>1, <1>2, <1>3, <1>4
  <2>2. y * (q - m) \in Nat
    BY <2>1
  <2>3. y * (q - m) = y * q - y * m
    BY <1>1, <1>3, <1>4
  <2>4. y * q \in Int /\ y * m \in Int
    BY <1>1, <1>3, <1>4
  <2> QED
    BY <2>2, <2>3, <2>4
<1>6. x >= 2 * (k * m)
  <2>1. y * m = 2 * (k * m)
    BY <1>1
  <2>2. y * m \in Int /\ y * q \in Int /\ x % y >= 0 /\ x % y \in Int
    BY <1>1, <1>3, <1>4
  <2> HIDE DEF x, y, q
  <2> QED
    BY <1>3, <1>4, <1>5, <2>1, <2>2
<1>7. (m - 1) * k = k * m - k /\ k * m \in Int
  BY <1>1
<1>8. 2 * gain * 1000000 = 2 * (1000000 * gain)
  BY <1>1
<1> DEFINE p == k * m
<1>9. 2 * (1000000 * gain) + k >= 2 * p /\ p \in Int
  BY <1>6, <1>7, <1>8
<1> HIDE DEF p
<1>10. 1000000 * gain > p - k
  BY <1>1, <1>9
<1> QED
  BY <1>7, <1>10 DEF p, gain, k, m

-----------------------------------------------------------------------------------
(* What a read does to the cache. *)

\* The same for the ticks a to b of the stream, by induction on their number.
LEMMA ReadsHold ==
  ASSUME NEW ps \in Seq(Stamped), NEW a \in Nat, NEW b \in a .. Len(ps),
         NEW c \in Caches, Held(c, ps, a),
         NEW d, d = FoldLeft(update, c, SubSeq(ps, a + 1, b))
  PROVE  d \in Caches /\ Held(d, ps, b) /\ (Recent(c, ps, a) => Recent(d, ps, b))
<1> DEFINE s == SubSeq(ps, a + 1, b)
           n == b - a
<1>1. Len(ps) \in Nat /\ b \in Nat /\ n \in Nat /\ a + n = b
  OBVIOUS
<1>2. \A i \in 1 .. Len(ps) : ps[i] \in Stamped
  OBVIOUS
<1>3. s \in Seq(Stamped) /\ Len(s) = n /\ \A i \in 1 .. n : s[i] = ps[a + i]
  <2>1. \A k \in (a + 1) .. b : ps[k] \in Stamped
    BY <1>1, <1>2
  <2>2. a + 1 \in 1 .. Len(ps) + 1 /\ b \in (a + 1) - 1 .. Len(ps)
    BY <1>1
  <2>3. /\ SubSeq(ps, a + 1, b) \in Seq(Stamped)
        /\ Len(SubSeq(ps, a + 1, b)) = IF a + 1 <= b THEN b - (a + 1) + 1 ELSE 0
        /\ \A i \in 1 .. b - (a + 1) + 1 : SubSeq(ps, a + 1, b)[i] = ps[a + 1 + i - 1]
    BY <1>1, <2>1, <2>2, SubSeqProperties
  <2>4. /\ (IF a + 1 <= b THEN b - (a + 1) + 1 ELSE 0) = n
        /\ b - (a + 1) + 1 = n
        /\ \A i \in 1 .. n : a + 1 + i - 1 = a + i
    BY <1>1
  <2> QED
    BY <2>3, <2>4
<1> HIDE DEF s
<1>4. PICK f \in [0 .. Len(s) -> Caches] : Folded(c, s, f)
  BY <1>3, UpdatesFold
<1> HIDE DEF n
<1>5. /\ f[0] = c /\ d = f[n]
      /\ \A i \in 1 .. n : f[i] = update(f[i - 1], s[i])
      /\ \A i \in 0 .. n : f[i] \in Caches
  BY <1>3, <1>4 DEF Folded, s
<1> DEFINE P == {i \in Nat : i <= n =>
                   Held(f[i], ps, a + i) /\ (Recent(c, ps, a) => Recent(f[i], ps, a + i))}
<1>6. 0 \in P
  <2>1. a + 0 = a
    OBVIOUS
  <2> QED
    BY <1>5, <2>1
<1>7. ASSUME NEW i \in Nat, i \in P PROVE i + 1 \in P
  <2> SUFFICES ASSUME i + 1 <= n
               PROVE  /\ Held(f[i + 1], ps, a + (i + 1))
                      /\ Recent(c, ps, a) => Recent(f[i + 1], ps, a + (i + 1))
    OBVIOUS
  <2>1. /\ i <= n /\ i + 1 \in 1 .. n /\ i \in 0 .. n /\ (i + 1) - 1 = i
        /\ a + (i + 1) = (a + i) + 1 /\ a + i \in Nat /\ (a + i) + 1 \in 1 .. Len(ps)
    BY <1>1
  <2>2. f[i + 1] = update(f[i], ps[(a + i) + 1]) /\ f[i] \in Caches /\ ps[(a + i) + 1] \in Stamped
    BY <1>2, <1>3, <1>5, <2>1
  <2>3. Held(f[i], ps, a + i) /\ (Recent(c, ps, a) => Recent(f[i], ps, a + i))
    BY <1>7, <2>1
  <2> QED
    BY <2>1, <2>2, <2>3, UpdateHeld, UpdateRecent
<1> HIDE DEF P
<1>8. Nat \subseteq P
  BY <1>6, <1>7, NatInduct
<1>9. Held(f[n], ps, a + n) /\ (Recent(c, ps, a) => Recent(f[n], ps, a + n)) /\ n \in 0 .. n
  BY <1>1, <1>8 DEF P
<1> QED
  BY <1>1, <1>5, <1>9

-----------------------------------------------------------------------------------
(* The stream and the cache. *)

\* The stream has what was published up to now, and the cache ticks that were delivered.
Feed ==
  /\ now \in Nat /\ errors \in Nat /\ crashes \in Nat
  /\ prices \in Seq(Stamped) /\ group \in 0 .. Len(prices)
  /\ \A m \in 1 .. Len(prices) : prices[m].at <= now
  /\ cache \in Caches /\ Held(cache, prices, group)

\* At first and after a crash the cache is empty.
LEMMA EmptyCache == <<>> \in Caches
<1>1. MAX_CACHE_SYMBOLS \in Nat /\ Len(<<>>) = 0 /\ <<>> \in Seq(Entries) /\ DOMAIN <<>> = {}
  BY CacheAssumption, EmptySeq
<1> QED
  BY <1>1 DEF Caches, Orderly

\* A read delivers up to the end of the stream, and forgets nothing that was delivered.
LEMMA Delivers ==
  ASSUME Feed
  PROVE  AfterRead \in group .. Len(prices)
BY ScannerAssumption DEF Feed, AfterRead, Least

\* Feed at first,
LEMMA InitFeed == ASSUME Init PROVE Feed
<1>1. prices \in Seq(Stamped) /\ Len(prices) = 0 /\ DOMAIN cache = {}
  BY EmptySeq DEF Init
<1>2. now = 0 /\ errors = 0 /\ crashes = 0 /\ group = 0 /\ cache = <<>>
  BY DEF Init
<1>3. 0 \in 0 .. 0 /\ \A m \in 1 .. 0 : FALSE
  OBVIOUS
<1> QED
  BY <1>1, <1>2, <1>3, EmptyCache DEF Feed, Held

\* Of the steps that leave the stream and the cache alone.
LEMMA FeedStays ==
  ASSUME Feed, UNCHANGED <<now, prices, cache, group>>,
         errors' \in {errors, errors + 1}, crashes' = crashes
  PROVE  Feed'
BY DEF Feed

\* and after every step.
LEMMA FeedKept ==
  ASSUME Feed, [Next]_vars
  PROVE  Feed'
<1>1. CASE Advance
  <2>1. now' = now + 1 /\ UNCHANGED <<prices, group, cache, errors, crashes>>
    BY <1>1 DEF Advance, redis, memory
  <2>2. \A m \in 1 .. Len(prices) : prices[m].at \in Nat
    BY StampedTick DEF Feed
  <2> QED
    BY <2>1, <2>2 DEF Feed
<1>2. CASE Publish
  <2>1. UNCHANGED <<now, group, cache, errors, crashes>>
    BY <1>2 DEF Publish, memory
  <2>2. PICK q \in Quote :
          prices' = Append(prices, [symbol |-> q.symbol, exchange |-> q.exchange,
                                    bid |-> q.bid, ask |-> q.ask, at |-> now])
    BY <1>2 DEF Publish
  <2> DEFINE tick == [symbol |-> q.symbol, exchange |-> q.exchange,
                      bid |-> q.bid, ask |-> q.ask, at |-> now]
             n == Len(prices)
  <2>3. tick \in Stamped /\ tick.at = now
    BY DEF Feed, Stamped
  <2> HIDE DEF tick
  <2>4. /\ prices' \in Seq(Stamped) /\ Len(prices') = n + 1 /\ prices'[n + 1] = tick
        /\ \A m \in 1 .. n : prices'[m] = prices[m]
    BY <2>2, <2>3, AppendProperties DEF Feed, tick
  <2>5. n \in Nat /\ \A m \in 1 .. n + 1 : m \in 1 .. n \/ m = n + 1
    BY DEF Feed
  <2>6. group' \in 0 .. Len(prices')
    BY <2>1, <2>4, <2>5 DEF Feed
  <2>7. \A m \in 1 .. Len(prices') : prices'[m].at <= now'
    BY <2>1, <2>3, <2>4, <2>5 DEF Feed
  <2>8. \A m \in 1 .. group : m \in 1 .. n
    BY DEF Feed
  <2>9. Held(cache, prices', group)
    BY <2>4, <2>8 DEF Feed, Held
  <2> QED
    BY <2>1, <2>4, <2>6, <2>7, <2>9 DEF Feed
<1>3. CASE Crash
  <2>1. UNCHANGED <<now, prices, group, errors>> /\ crashes' = crashes + 1 /\ cache' = <<>>
    BY <1>3 DEF Crash, redis
  <2>2. Held(<<>>, prices, group)
    BY DEF Held
  <2> QED
    BY <2>1, <2>2, EmptyCache DEF Feed
<1>4. CASE Read
  <2>1. UNCHANGED <<now, prices, errors, crashes>> /\ group' = AfterRead
        /\ cache' = FoldLeft(update, cache, SubSeq(prices, group + 1, AfterRead))
    BY <1>4 DEF Read
  <2>2. AfterRead \in group .. Len(prices) /\ group \in Nat /\ prices \in Seq(Stamped)
        /\ Held(cache, prices, group) /\ cache \in Caches
    BY Delivers DEF Feed
  <2>3. cache' \in Caches /\ Held(cache', prices, AfterRead)
    BY <2>1, <2>2, ReadsHold
  <2>4. AfterRead \in 0 .. Len(prices)
    BY <2>2
  <2> QED
    BY <2>1, <2>3, <2>4 DEF Feed
<1>5. CASE ReadFails
  <2>1. UNCHANGED <<now, prices, cache, crashes>> /\ errors' = errors + 1
        /\ group' \in {group, AfterRead}
    BY <1>5 DEF ReadFails, GiveUp, Error
  <2>2. AfterRead \in group .. Len(prices) /\ group \in 0 .. Len(prices) /\ Len(prices) \in Nat
    BY Delivers DEF Feed
  <2>3. group' \in 0 .. Len(prices) /\ \A m \in 1 .. group : m \in 1 .. group'
    BY <2>1, <2>2
  <2>4. Held(cache, prices, group')
    BY <2>3 DEF Feed, Held
  <2> QED
    BY <2>1, <2>3, <2>4 DEF Feed
<1>6. CASE Boot \/ CreateGroup \/ Wake \/ UNCHANGED vars
  BY <1>6, FeedStays DEF Boot, CreateGroup, Wake, vars, redis, memory
<1>7. CASE PublishOpportunity \/ SaveOpportunity
  BY <1>7, FeedStays DEF PublishOpportunity, SaveOpportunity, memory
<1>8. CASE CreateGroupFails \/ PublishOpportunityFails \/ SaveOpportunityFails
  BY <1>8, FeedStays
  DEF CreateGroupFails, PublishOpportunityFails, SaveOpportunityFails, GiveUp, Error, redis, memory
<1> QED
  BY <1>1, <1>2, <1>3, <1>4, <1>5, <1>6, <1>7, <1>8 DEF Next, ScannerStep, Fault

\* The stream of prices only grows, and what was delivered stays delivered.
Grows == group <= group' /\ \A m \in 1 .. group : m \in 1 .. group' /\ prices'[m] = prices[m]

\* The two ways the stream moves, and all else.
LEMMA StreamGrows ==
  ASSUME Feed, [Next]_vars
  PROVE  Grows
<1>1. group \in Nat /\ prices \in Seq(Stamped) /\ Len(prices) \in Nat /\ group <= Len(prices)
  BY DEF Feed
<1>2. CASE UNCHANGED <<prices, group>>
  BY <1>1, <1>2 DEF Grows
<1>3. CASE Publish
  <2>1. group' = group
    BY <1>3 DEF Publish
  <2>2. PICK q \in Quote :
          prices' = Append(prices, [symbol |-> q.symbol, exchange |-> q.exchange,
                                    bid |-> q.bid, ask |-> q.ask, at |-> now])
    BY <1>3 DEF Publish
  <2> DEFINE tick == [symbol |-> q.symbol, exchange |-> q.exchange,
                      bid |-> q.bid, ask |-> q.ask, at |-> now]
  <2>3. tick \in Stamped
    BY DEF Feed, Stamped
  <2> HIDE DEF tick
  <2>4. \A m \in 1 .. Len(prices) : prices'[m] = prices[m]
    BY <1>1, <2>2, <2>3, AppendProperties DEF tick
  <2> QED
    BY <1>1, <2>1, <2>4 DEF Grows
<1>4. CASE Read \/ ReadFails
  <2>1. prices' = prices /\ group' \in {group, AfterRead}
    BY <1>4 DEF Read, ReadFails
  <2>2. AfterRead \in Nat /\ group <= AfterRead
    BY <1>1, Delivers
  <2> QED
    BY <1>1, <2>1, <2>2 DEF Grows
<1>5. CASE Advance \/ Boot \/ Crash \/ CreateGroup \/ Wake \/ UNCHANGED vars
  BY <1>2, <1>5 DEF Advance, Boot, Crash, CreateGroup, Wake, vars, redis
<1>6. CASE \/ PublishOpportunity \/ SaveOpportunity \/ CreateGroupFails
           \/ PublishOpportunityFails \/ SaveOpportunityFails
  BY <1>2, <1>6 DEF PublishOpportunity, SaveOpportunity, CreateGroupFails,
                    PublishOpportunityFails, SaveOpportunityFails, redis
<1> QED
  BY <1>3, <1>4, <1>5, <1>6 DEF Next, ScannerStep, Fault

-----------------------------------------------------------------------------------
(* What is offered. *)

\* An opportunity that two of the first n ticks of ps were, when it was detected.
Backed(ps, n, o) ==
  /\ o \in Opportunity
  /\ \E a, b \in 1 .. n : o.buy = ps[a] /\ o.sell = ps[b]
  /\ o.buy.symbol = o.sell.symbol /\ o.buy.exchange # o.sell.exchange
  /\ o.detected - o.buy.at <= max_age /\ o.detected - o.sell.at <= max_age
  /\ Pays(o.buy, o.sell)

AllBacked(list) ==
  list \in Seq(Opportunity) /\ \A i \in DOMAIN list : Backed(prices, group, list[i])

\* Everything in the list, in the hands of the loop and in the stream is backed.
Offers ==
  /\ AllBacked(todo)
  /\ pc \in {"publish", "save"} => Backed(prices, group, opp)
  /\ \E S : out \in Seq(S)
  /\ \A i \in DOMAIN out : Backed(prices, group, out[i].opp)

\* What is backed stays so.
LEMMA StaysBacked ==
  ASSUME Grows, NEW o, Backed(prices, group, o)
  PROVE  Backed(prices', group', o)
BY DEF Grows, Backed

\* What the cache offers is backed.
LEMMA CacheBacks ==
  ASSUME NEW c \in Caches, NEW ps \in Seq(Stamped), NEW n \in 0 .. Len(ps), Held(c, ps, n),
         NEW time \in Nat, NEW o, Offered(c, time, o)
  PROVE  Backed(ps, n, o)
<1>1. PICK i \in DOMAIN c : \E a, b \in ToSet(c[i].ticks) :
        /\ a # b /\ time - a.at <= max_age /\ time - b.at <= max_age
        /\ Pays(a, b) /\ o = Spread(a, b, time)
  BY DEF Offered
<1>2. PICK a \in ToSet(c[i].ticks), b \in ToSet(c[i].ticks) :
        /\ a # b /\ time - a.at <= max_age /\ time - b.at <= max_age
        /\ Pays(a, b) /\ o = Spread(a, b, time)
  BY <1>1
<1>3. (\E m \in 1 .. n : a = ps[m]) /\ (\E m \in 1 .. n : b = ps[m])
  BY DEF Held
<1>4. PICK x \in 1 .. n, y \in 1 .. n : a = ps[x] /\ b = ps[y]
  BY <1>3
<1>5. a \in Stamped /\ b \in Stamped
  <2>1. x \in 1 .. Len(ps) /\ y \in 1 .. Len(ps)
    OBVIOUS
  <2> QED
    BY <1>4, <2>1
<1>6. a.symbol = b.symbol /\ a.exchange # b.exchange
  <2>1. Filed(c[i])
    BY DEF Caches, Orderly
  <2> QED
    BY <1>2, <2>1 DEF Filed, ToSet
<1>7. o.buy = a /\ o.sell = b /\ o.detected = time /\ o \in Opportunity
  BY <1>2, <1>5 DEF Spread, Opportunity
<1> QED
  BY <1>2, <1>4, <1>6, <1>7 DEF Backed

\* Going through a list that is backed leaves a rest that is,
LEMMA OfferBacks ==
  ASSUME NEW list, AllBacked(list)', Offer(list), Offers, Grows, out' = out
  PROVE  Offers'
<1>1. \A i \in DOMAIN out' : Backed(prices', group', out'[i].opp)
  BY StaysBacked DEF Offers
<1>2. CASE pc' = "read" /\ todo' = <<>>
  <2>1. AllBacked(todo)'
    BY <1>2, EmptySeq DEF AllBacked
  <2> QED
    BY <1>1, <1>2, <2>1 DEF Offers
<1>3. ASSUME NEW i \in DOMAIN list, opp' = list[i], todo' = SubSeq(list, i + 1, Len(list))
      PROVE  Offers'
  <2>1. Backed(prices', group', list[i])
    BY DEF AllBacked
  <2>2. list \in Seq(Opportunity)
    BY DEF AllBacked
  <2>3. /\ todo' \in Seq(Opportunity) /\ DOMAIN todo' = 1 .. Len(list) - i
        /\ \A j \in 1 .. Len(list) - i : i + j \in DOMAIN list /\ todo'[j] = list[i + j]
    BY <1>3, <2>2, RestOfList
  <2>4. AllBacked(todo)'
    BY <2>3 DEF AllBacked
  <2> QED
    BY <1>1, <1>3, <2>1, <2>4 DEF Offers
<1> QED
  BY <1>2, <1>3 DEF Offer, NoneLeft, Take

\* and so does leaving the rest alone, or dropping it.
LEMMA TodoStays ==
  ASSUME AllBacked(todo), Grows, todo' = todo \/ todo' = <<>>
  PROVE  AllBacked(todo)'
<1>1. CASE todo' = <<>>
  <2>1. todo' \in Seq(Opportunity) /\ DOMAIN todo' = {}
    BY <1>1, EmptySeq
  <2> QED
    BY <2>1 DEF AllBacked
<1>2. CASE todo' = todo
  <2>1. todo' \in Seq(Opportunity) /\ DOMAIN todo' = DOMAIN todo
    BY <1>2 DEF AllBacked
  <2>2. \A i \in DOMAIN todo' : Backed(prices', group', todo'[i])
    BY <1>2, StaysBacked DEF AllBacked
  <2> QED
    BY <2>1, <2>2 DEF AllBacked
<1> QED
  BY <1>1, <1>2

\* Of the steps that add nothing to the stream or to the list.
LEMMA OffersStay ==
  ASSUME Offers, Grows, UNCHANGED out,
         UNCHANGED <<opp, todo>> \/ todo' = <<>>,
         pc' \in {"publish", "save"} => pc \in {"publish", "save"} /\ UNCHANGED opp
  PROVE  Offers'
<1>1. \A i \in DOMAIN out' : Backed(prices', group', out'[i].opp)
  BY StaysBacked DEF Offers
<1>2. AllBacked(todo)'
  BY TodoStays DEF Offers
<1>3. pc' \in {"publish", "save"} => Backed(prices', group', opp')
  BY StaysBacked DEF Offers
<1> QED
  BY <1>1, <1>2, <1>3 DEF Offers

\* What is added to the stream is what the loop has in hand.
LEMMA OffersAdded ==
  ASSUME Offers, Grows, pc = "publish", out' = Added,
         UNCHANGED <<opp, todo>> \/ (todo' = <<>> /\ pc' \notin {"publish", "save"})
  PROVE  Offers'
<1>1. PICK S : out \in Seq(S)
  BY DEF Offers
<1> DEFINE e == [opp |-> opp, life |-> crashes, mark |-> marked[Key(opp)]]
           n == Len(out) + 1
<1>2. /\ out' \in Seq(S \cup {e}) /\ DOMAIN out' = DOMAIN out \cup {n}
      /\ \A i \in DOMAIN out : out'[i] = out[i]
      /\ out'[n] = e
  BY <1>1, AppendAny DEF Added
<1>3. e.opp = opp
  OBVIOUS
<1> HIDE DEF e, n
<1>4. Backed(prices', group', opp)
  BY StaysBacked DEF Offers
<1>5. \A i \in DOMAIN out' : Backed(prices', group', out'[i].opp)
  BY <1>2, <1>3, <1>4, StaysBacked DEF Offers
<1>6. AllBacked(todo)'
  BY TodoStays DEF Offers
<1> QED
  BY <1>2, <1>4, <1>5, <1>6 DEF Offers

\* Offers after every step.
LEMMA OffersKept ==
  ASSUME Feed, Offers, [Next]_vars
  PROVE  Offers'
<1>1. Grows /\ Feed'
  BY FeedKept, StreamGrows
<1>2. CASE Advance \/ Publish \/ UNCHANGED vars
  BY <1>1, <1>2, OffersStay DEF Advance, Publish, vars, redis, memory
<1>3. CASE Boot \/ CreateGroup \/ CreateGroupFails \/ Wake
  BY <1>1, <1>3, OffersStay DEF Boot, CreateGroup, CreateGroupFails, Wake, Error, redis, memory
<1>4. CASE Crash \/ ReadFails
  BY <1>1, <1>4, OffersStay DEF Crash, ReadFails, GiveUp, NoneLeft, redis
<1>5. CASE Read
  <2>1. Offer(calculate_all_spreads(cache', now))
    BY <1>5 DEF Read
  <2>2. /\ cache' \in Caches /\ now \in Nat /\ now' = now /\ out' = out
        /\ prices' \in Seq(Stamped) /\ group' \in 0 .. Len(prices')
        /\ Held(cache', prices', group')
    BY <1>1, <1>5 DEF Read, Feed
  <2> DEFINE list == calculate_all_spreads(cache', now)
  <2>3. list \in Seq(Opportunity) /\ \A o : o \in ToSet(list) <=> Offered(cache', now, o)
    BY <2>2, AllSpreads
  <2> HIDE DEF list
  <2>4. ASSUME NEW i \in DOMAIN list PROVE Backed(prices', group', list[i])
    <3>1. list[i] \in ToSet(list)
      BY DEF ToSet
    <3>2. Offered(cache', now, list[i])
      BY <2>3, <3>1
    <3> QED
      BY <2>2, <3>2, CacheBacks
  <2>5. list \in Seq(Opportunity) /\ \A i \in DOMAIN list : Backed(prices', group', list[i])
    BY <2>3, <2>4
  <2> SUFFICES ASSUME NEW l, l = list PROVE Offers'
    OBVIOUS
  <2>6. AllBacked(l)'
    BY <2>5 DEF AllBacked
  <2>7. Offer(l)
    BY <2>1 DEF list
  <2> QED
    BY <1>1, <2>2, <2>6, <2>7, OfferBacks
<1>6. CASE SaveOpportunity \/ SaveOpportunityFails
  <2>1. Offer(todo) /\ out' = out
    BY <1>6 DEF SaveOpportunity, SaveOpportunityFails
  <2> SUFFICES ASSUME NEW l, l = todo PROVE Offers'
    OBVIOUS
  <2>2. AllBacked(l)'
    BY <1>1, StaysBacked DEF Offers, AllBacked
  <2> QED
    BY <1>1, <2>1, <2>2, OfferBacks
<1>7. CASE PublishOpportunity
  BY <1>1, <1>7, OffersAdded DEF PublishOpportunity, memory
<1>8. CASE PublishOpportunityFails /\ out' = out
  BY <1>1, <1>8, OffersStay DEF PublishOpportunityFails, GiveUp, NoneLeft
<1>9. CASE PublishOpportunityFails /\ out' = Added
  BY <1>1, <1>9, OffersAdded DEF PublishOpportunityFails, GiveUp, NoneLeft
<1>10. PublishOpportunityFails => out' \in {out, Added}
  BY DEF PublishOpportunityFails
<1> QED
  BY <1>2, <1>3, <1>4, <1>5, <1>6, <1>7, <1>8, <1>9, <1>10 DEF Next, ScannerStep, Fault

\* spread_calculator.py, scanner/main.py:127-170: what is in the cache was delivered by
\* the stream, and what is offered is backed by two ticks of it, whatever fails.
THEOREM Fed == Spec => [](Feed /\ Offers)
<1>1. Init => Feed /\ Offers
  <2> SUFFICES ASSUME Init PROVE Offers
    BY InitFeed
  <2>1. todo = <<>> /\ out = <<>> /\ pc = "down"
    BY DEF Init
  <2>2. out \in Seq({}) /\ DOMAIN out = {} /\ AllBacked(todo)
    BY <2>1, EmptySeq DEF AllBacked
  <2> QED
    BY <2>1, <2>2 DEF Offers
<1>2. Feed /\ Offers /\ [Next]_vars => (Feed /\ Offers)'
  BY FeedKept, OffersKept
<1> QED
  BY <1>1, <1>2, PTL DEF Spec

\* What FromActivePrices says of an opportunity.
LEMMA BackedMeans ==
  ASSUME Feed, NEW o, Backed(prices, group, o)
  PROVE  /\ {o.buy, o.sell} \subseteq ToSet(Delivered)
         /\ o.buy.symbol = o.sell.symbol /\ o.buy.exchange # o.sell.exchange
         /\ o.detected - o.buy.at <= max_age /\ o.detected - o.sell.at <= max_age
         /\ 1000000 * (o.sell.bid - o.buy.ask) > (min_spread_pct - 1) * o.buy.ask
<1>1. prices \in Seq(Stamped) /\ group \in 0 .. Len(prices)
  BY DEF Feed
<1>2. ToSet(Delivered) = {prices[m] : m \in 1 .. group}
  BY <1>1, SetOfPrefix DEF Delivered
<1>3. o.buy \in Stamped /\ o.sell \in Stamped
  BY DEF Backed, Opportunity
<1>4. 1000000 * (o.sell.bid - o.buy.ask) > (min_spread_pct - 1) * o.buy.ask
  BY <1>3, PaysMeans DEF Backed
<1> QED
  BY <1>2, <1>4 DEF Backed

\* spread_calculator.py:63-66, 71-128: nothing stale or invented is offered, whatever
\* fails.
THEOREM OnlyActivePrices == Spec => []FromActivePrices
<1>1. Feed /\ Offers => FromActivePrices
  <2> SUFFICES ASSUME Feed, Offers,
                      NEW o \in ToSet(InHand) \cup {out[i].opp : i \in DOMAIN out}
               PROVE  Backed(prices, group, o)
    BY BackedMeans DEF FromActivePrices
  <2>1. CASE o \in {out[i].opp : i \in DOMAIN out}
    BY <2>1 DEF Offers
  <2>2. CASE o \in ToSet(InHand)
    <3> DEFINE hand == IF pc \in {"publish", "save"} THEN <<opp>> ELSE <<>>
    <3>1. hand \in Seq(Opportunity) /\ \A x \in ToSet(hand) : Backed(prices, group, x)
      <4>1. CASE pc \in {"publish", "save"}
        <5>1. hand = <<opp>> /\ DOMAIN <<opp>> = {1} /\ <<opp>>[1] = opp
          BY <4>1
        <5>2. opp \in Opportunity /\ Backed(prices, group, opp)
          BY <4>1 DEF Offers, Backed
        <5>3. <<opp>> \in Seq(Opportunity)
          BY <5>2
        <5> HIDE DEF hand
        <5> QED
          BY <5>1, <5>2, <5>3 DEF ToSet
      <4>2. CASE pc \notin {"publish", "save"}
        <5>1. hand = <<>> /\ DOMAIN <<>> = {} /\ <<>> \in Seq(Opportunity)
          BY <4>2, EmptySeq
        <5> HIDE DEF hand
        <5> QED
          BY <5>1 DEF ToSet
      <4> QED
        BY <4>1, <4>2
    <3>2. InHand = hand \o todo
      BY DEF InHand
    <3> HIDE DEF hand
    <3>3. todo \in Seq(Opportunity) /\ \A x \in ToSet(todo) : Backed(prices, group, x)
      BY DEF Offers, AllBacked, ToSet
    <3>4. ToSet(InHand) = ToSet(hand) \cup ToSet(todo)
      BY <3>1, <3>2, <3>3, SetOfConcat
    <3> QED
      BY <2>2, <3>1, <3>3, <3>4
  <2> QED
    BY <2>1, <2>2
<1> QED
  BY <1>1, Fed, PTL

-----------------------------------------------------------------------------------
(* Types. *)

\* TypeOK but for the cache, which Feed is about; a row is saved after its entry.
Types ==
  /\ now \in 0 .. MaxTime /\ group \in 0 .. Len(prices) /\ saved \subseteq DOMAIN out
  /\ pc \in {"down", "dead", "group", "read", "sleep", "publish", "save"}
  /\ pc \in {"publish", "save"} \/ (opp = NoOpp /\ todo = <<>>)
  /\ pc = "save" => Len(out) \in DOMAIN out

\* Of the steps that write no opportunity.
LEMMA TypesStay ==
  ASSUME Types, Feed', UNCHANGED <<now, out, saved>>,
         pc' \in {"down", "dead", "group", "read", "sleep", "publish", "save"},
         pc' \in {"publish", "save"} \/ (opp' = NoOpp /\ todo' = <<>>),
         pc' = "save" => pc = "save"
  PROVE  Types'
BY DEF Types, Feed

\* Where going through a list leaves the loop.
LEMMA OfferTypes ==
  ASSUME NEW list, Offer(list)
  PROVE  /\ pc' \in {"read", "publish"}
         /\ pc' = "publish" \/ (opp' = NoOpp /\ todo' = <<>>)
BY DEF Offer, NoneLeft

\* Types after every step.
LEMMA TypesKept ==
  ASSUME Feed, Offers, Types, [Next]_vars
  PROVE  Types'
<1>1. Feed' /\ MaxTime \in Nat
  BY FeedKept, ScannerAssumption
<1>2. CASE Advance
  BY <1>1, <1>2 DEF Types, Feed, Advance, redis, memory
<1>3. CASE Publish \/ UNCHANGED vars
  BY <1>1, <1>3, TypesStay DEF Types, Publish, vars, redis, memory
<1>4. CASE Boot \/ Crash \/ CreateGroup \/ CreateGroupFails \/ Wake
  BY <1>1, <1>4, TypesStay
  DEF Types, Boot, Crash, CreateGroup, CreateGroupFails, Wake, redis, memory
<1>5. CASE ReadFails
  BY <1>1, <1>5, TypesStay DEF ReadFails, GiveUp, NoneLeft
<1>6. CASE Read
  <2>1. PICK list : Offer(list)
    BY <1>6 DEF Read
  <2> QED
    BY <1>1, <1>6, <2>1, OfferTypes, TypesStay DEF Read
<1>7. CASE SaveOpportunity \/ SaveOpportunityFails
  <2>1. Offer(todo) /\ now' = now /\ out' = out /\ pc = "save"
        /\ saved' \in {saved, saved \cup {Len(out)}}
    BY <1>7 DEF SaveOpportunity, SaveOpportunityFails
  <2>2. pc' \in {"read", "publish"} /\ (pc' = "publish" \/ (opp' = NoOpp /\ todo' = <<>>))
    BY <2>1, OfferTypes
  <2>3. saved' \subseteq DOMAIN out'
    BY <2>1 DEF Types
  <2> QED
    BY <1>1, <2>1, <2>2, <2>3 DEF Types, Feed
<1>8. CASE PublishOpportunity \/ PublishOpportunityFails
  <2>1. /\ now' = now /\ saved' = saved /\ out' \in {out, Added} /\ pc = "publish"
        /\ pc' \in {"save", "sleep"} /\ (pc' = "save" => out' = Added)
        /\ pc' = "save" \/ (opp' = NoOpp /\ todo' = <<>>)
    BY <1>8 DEF PublishOpportunity, PublishOpportunityFails, GiveUp, NoneLeft, memory
  <2>2. PICK S : out \in Seq(S)
    BY DEF Offers
  <2> DEFINE e == [opp |-> opp, life |-> crashes, mark |-> marked[Key(opp)]]
  <2>3. Added = Append(out, e)
    BY DEF Added
  <2> HIDE DEF e
  <2>4. /\ Added \in Seq(S \cup {e})
        /\ DOMAIN Added = DOMAIN out \cup {Len(out) + 1} /\ Len(Added) = Len(out) + 1
    <3>1. out \in Seq(S \cup {e}) /\ e \in S \cup {e}
      BY <2>2, SeqDef
    <3>2. Len(Append(out, e)) = Len(out) + 1
      BY <3>1, AppendProperties
    <3> QED
      BY <2>2, <2>3, <3>2, AppendAny
  <2>5. saved' \subseteq DOMAIN out' /\ (pc' = "save" => Len(out') \in DOMAIN out')
    BY <2>1, <2>4 DEF Types
  <2> QED
    BY <1>1, <2>1, <2>5 DEF Types, Feed
<1> QED
  BY <1>2, <1>3, <1>4, <1>5, <1>6, <1>7, <1>8 DEF Next, ScannerStep, Fault

\* Every variable keeps its type, and the cache its limits of symbols and exchanges.
THEOREM TypeCorrect == Spec => []TypeOK
<1>1. Init => Types
  <2> SUFFICES ASSUME Init PROVE Types
    OBVIOUS
  <2>1. MaxTime \in Nat
    BY ScannerAssumption
  <2>2. Len(prices) = 0 /\ group = 0 /\ now = 0 /\ saved = {} /\ pc = "down" /\ opp = NoOpp /\ todo = <<>>
    BY DEF Init
  <2> QED
    BY <2>1, <2>2 DEF Types
<1>2. Types /\ Feed /\ Offers /\ [Next]_vars => Types'
  BY TypesKept
<1>3. Types /\ Feed => TypeOK
  BY DEF Types, Feed, Caches, Orderly, Filed, TypeOK
<1> QED
  BY <1>1, <1>2, <1>3, Fed, PTL DEF Spec

-----------------------------------------------------------------------------------
(* Without faults the cache has the latest. *)

Fresh == errors = 0 /\ crashes = 0 => Recent(cache, prices, group)

\* Of the stream only the delivered ticks matter.
LEMMA SameRecent ==
  ASSUME NEW c, NEW ps, NEW qs, NEW n \in Nat, \A m \in 1 .. n : qs[m] = ps[m], Recent(c, ps, n)
  PROVE  Recent(c, qs, n)
<1>1. ASSUME NEW s PROVE Latest(qs, n, s) = Latest(ps, n, s)
  <2>1. {m \in 1 .. n : qs[m].symbol = s} = {m \in 1 .. n : ps[m].symbol = s}
    OBVIOUS
  <2> QED
    BY <2>1 DEF Latest
<1>2. ASSUME NEW s, NEW t, Newest(ps, n, s, t) PROVE Newest(qs, n, s, t)
  BY <1>2 DEF Newest
<1>3. \A i, j \in DOMAIN c : i < j => Latest(qs, n, c[i].symbol) < Latest(qs, n, c[j].symbol)
  BY <1>1 DEF Recent
<1>4. \A m \in 1 .. n :
        \/ \E i \in DOMAIN c : c[i].symbol = qs[m].symbol
        \/ /\ Len(c) = MAX_CACHE_SYMBOLS
           /\ \A i \in DOMAIN c : Latest(qs, n, qs[m].symbol) < Latest(qs, n, c[i].symbol)
  BY <1>1 DEF Recent
<1>5. \A i \in DOMAIN c : Latest(qs, n, c[i].symbol) # 0
  BY <1>1 DEF Recent
<1>6. \A i \in DOMAIN c : \A t \in ToSet(c[i].ticks) : Newest(qs, n, c[i].symbol, t)
  BY <1>2 DEF Recent
<1> QED
  BY <1>3, <1>4, <1>5, <1>6 DEF Recent

\* Of the steps that read nothing, or are faults.
LEMMA FreshStays ==
  ASSUME Fresh, \/ UNCHANGED <<prices, cache, group, errors, crashes>>
                \/ errors' # 0 \/ crashes' # 0
  PROVE  Fresh'
BY DEF Fresh

\* Fresh after every step,
LEMMA FreshKept ==
  ASSUME Feed, Fresh, [Next]_vars
  PROVE  Fresh'
<1>1. Feed' /\ Grows
  BY FeedKept, StreamGrows
<1>2. CASE Publish
  <2>1. UNCHANGED <<group, cache, errors, crashes>>
    BY <1>2 DEF Publish, memory
  <2>2. \A m \in 1 .. group : prices'[m] = prices[m]
    BY <1>1 DEF Grows
  <2>3. group \in Nat
    BY DEF Feed
  <2>4. Recent(cache, prices, group) => Recent(cache, prices', group)
    BY <2>2, <2>3, SameRecent
  <2> QED
    BY <2>1, <2>4 DEF Fresh
<1>3. CASE Read
  <2>1. /\ UNCHANGED <<now, prices, errors, crashes>> /\ group' = AfterRead
        /\ cache' = FoldLeft(update, cache, SubSeq(prices, group + 1, AfterRead))
    BY <1>3 DEF Read
  <2>2. AfterRead \in group .. Len(prices) /\ group \in Nat /\ prices \in Seq(Stamped)
        /\ Held(cache, prices, group) /\ cache \in Caches
    BY Delivers DEF Feed
  <2>3. Recent(cache, prices, group) => Recent(cache', prices, AfterRead)
    BY <2>1, <2>2, ReadsHold
  <2> QED
    BY <2>1, <2>3 DEF Fresh
<1>4. CASE Crash \/ ReadFails \/ CreateGroupFails \/ PublishOpportunityFails \/ SaveOpportunityFails
  <2>1. errors' = errors + 1 \/ crashes' = crashes + 1
    BY <1>4 DEF Crash, ReadFails, CreateGroupFails, PublishOpportunityFails, SaveOpportunityFails,
                GiveUp, Error
  <2>2. errors' # 0 \/ crashes' # 0
    BY <2>1 DEF Feed
  <2> QED
    BY <2>2, FreshStays
<1>5. CASE Advance \/ Boot \/ CreateGroup \/ Wake \/ UNCHANGED vars
  BY <1>5, FreshStays DEF Advance, Boot, CreateGroup, Wake, vars, redis, memory
<1>6. CASE PublishOpportunity \/ SaveOpportunity
  BY <1>6, FreshStays DEF PublishOpportunity, SaveOpportunity, memory
<1> QED
  BY <1>2, <1>3, <1>4, <1>5, <1>6 DEF Next, ScannerStep, Fault

\* and at first.
LEMMA InitFresh == ASSUME Init PROVE Fresh
<1>1. DOMAIN cache = {} /\ group = 0 /\ \A m \in 1 .. 0 : FALSE
  BY DEF Init
<1>2. \A m \in 1 .. group : FALSE
  BY <1>1
<1> QED
  BY <1>1, <1>2 DEF Fresh, Recent

\* The symbols younger than another one, of the first n ticks.
Younger(ps, n, s) ==
  {r \in {ps[m].symbol : m \in 1 .. n} : Latest(ps, n, r) > Latest(ps, n, s)}

\* A symbol has an entry exactly if fewer younger ones have been delivered than fit.
LEMMA HasEntry ==
  ASSUME NEW c \in Caches, NEW ps, NEW n \in Nat, Recent(c, ps, n),
         NEW s \in {ps[m].symbol : m \in 1 .. n}
  PROVE  (\E i \in DOMAIN c : c[i].symbol = s)
           <=> Cardinality(Younger(ps, n, s)) < MAX_CACHE_SYMBOLS
<1> DEFINE own == [i \in DOMAIN c |-> c[i].symbol]
           entries == {own[i] : i \in DOMAIN c}
           young == Younger(ps, n, s)
           all == {ps[m].symbol : m \in 1 .. n}
           l(r) == Latest(ps, n, r)
<1>0. DOMAIN c = 1 .. Len(c) /\ \A i, j \in DOMAIN c : c[i].symbol = c[j].symbol => i = j
  BY DEF Caches, Orderly
<1>1. Len(c) \in Nat /\ Len(c) <= MAX_CACHE_SYMBOLS /\ MAX_CACHE_SYMBOLS \in Nat \ {0}
  BY CacheAssumption DEF Caches, Orderly
<1>2. IsFiniteSet(DOMAIN c) /\ Cardinality(DOMAIN c) = Len(c)
  <2>1. IsFiniteSet(1 .. Len(c)) /\ Cardinality(1 .. Len(c)) = Len(c)
    BY <1>1, CountUpTo
  <2> QED
    BY <1>0, <2>1
<1>3. /\ DOMAIN own = DOMAIN c /\ \A i \in DOMAIN c : own[i] = c[i].symbol
      /\ \A i, j \in DOMAIN c : own[i] = own[j] => i = j
  BY <1>0
<1> HIDE DEF own
<1>4. IsFiniteSet(entries) /\ Cardinality(entries) = Len(c)
  <2> DEFINE S == DOMAIN c
  <2>1. IsFiniteSet(S) /\ DOMAIN own = S /\ \A i, j \in S : own[i] = own[j] => i = j
    BY <1>2, <1>3
  <2>2. entries = {own[i] : i \in S} /\ Cardinality(S) = Len(c)
    BY <1>2
  <2> HIDE DEF S, entries
  <2>3. IsFiniteSet({own[i] : i \in S}) /\ Cardinality({own[i] : i \in S}) = Cardinality(S)
    BY <2>1, FiniteImage
  <2> QED
    BY <2>2, <2>3
<1>5. \A r : l(r) \in Nat
  BY LastIs
<1>6. IsFiniteSet(all)
  <2> DEFINE sym == [m \in 1 .. n |-> ps[m].symbol]
  <2>1. IsFiniteSet(1 .. n) /\ DOMAIN sym = 1 .. n /\ all = {sym[m] : m \in 1 .. n}
    BY FS_Interval
  <2> HIDE DEF sym, all
  <2> QED
    BY <2>1, FiniteImage
<1>7. young = {r \in all : l(r) > l(s)}
  BY DEF Younger
<1>8. IsFiniteSet(young) /\ Cardinality(young) \in Nat
  <2>1. young \in SUBSET all
    BY <1>7
  <2> HIDE DEF young, all
  <2> QED
    BY <1>6, <2>1, FS_Subset, FS_CardinalityType
<1>9. \A r \in all : r \in entries \/ (Len(c) = MAX_CACHE_SYMBOLS /\ \A i \in DOMAIN c : l(r) < l(own[i]))
  BY <1>3 DEF Recent
<1>10. \A i \in DOMAIN c : own[i] \in all
  <2> SUFFICES ASSUME NEW i \in DOMAIN c PROVE c[i].symbol \in all
    BY <1>3
  <2>1. l(c[i].symbol) # 0
    BY DEF Recent
  <2>2. l(c[i].symbol) \in 1 .. n /\ ps[l(c[i].symbol)].symbol = c[i].symbol
    BY <2>1, LastIs
  <2> QED
    BY <2>2
<1> HIDE DEF young, all, l
<1>11. ASSUME NEW i \in DOMAIN c, c[i].symbol = s
       PROVE  Cardinality(young) < MAX_CACHE_SYMBOLS
  <2>1. young \subseteq entries \ {s}
    <3> SUFFICES ASSUME NEW r \in all, l(r) > l(s) PROVE r \in entries /\ r # s
      BY <1>7
    <3>1. own[i] = s /\ l(r) \in Nat /\ l(s) \in Nat
      BY <1>3, <1>5, <1>11
    <3>2. ~(l(r) < l(own[i]))
      BY <3>1
    <3>3. r # s
      BY <3>1
    <3> QED
      BY <1>9, <3>2, <3>3
  <2>2. s \in entries
    BY <1>3, <1>11
  <2> HIDE DEF entries
  <2>3. IsFiniteSet(entries \ {s}) /\ Cardinality(entries \ {s}) = Len(c) - 1
    BY <1>4, <2>2, FS_RemoveElement
  <2>4. Cardinality(young) <= Len(c) - 1
    BY <2>1, <2>3, FS_Subset
  <2> QED
    BY <1>1, <1>8, <2>4
<1>12. ASSUME Cardinality(young) < MAX_CACHE_SYMBOLS
       PROVE  s \in entries
  <2> SUFFICES ASSUME s \notin entries PROVE FALSE
    OBVIOUS
  <2>1. s \in all
    BY DEF all
  <2>2. Len(c) = MAX_CACHE_SYMBOLS /\ \A i \in DOMAIN c : l(s) < l(own[i])
    BY <1>9, <2>1
  <2>3. entries \in SUBSET young
    BY <1>5, <1>7, <1>10, <2>2
  <2> HIDE DEF entries
  <2>4. Cardinality(entries) <= Cardinality(young)
    BY <1>8, <2>3, FS_Subset
  <2> QED
    BY <1>1, <1>4, <1>8, <1>12, <2>2, <2>4
<1> QED
  BY <1>3, <1>11, <1>12 DEF young

\* The newest tick of a symbol and exchange is the one of the greatest position.
LEMMA NewestIsMax ==
  ASSUME NEW ps, NEW n \in Nat, NEW s, NEW t, t.symbol = s, Newest(ps, n, s, t)
  PROVE  t = ps[Max({m \in 1 .. n : ps[m].symbol = s /\ ps[m].exchange = t.exchange})]
<1> DEFINE T == {m \in 1 .. n : ps[m].symbol = s /\ ps[m].exchange = t.exchange}
<1>1. PICK m \in 1 .. n :
        /\ t = ps[m]
        /\ \A k \in 1 .. n : k > m => ~(ps[k].symbol = s /\ ps[k].exchange = t.exchange)
  BY DEF Newest
<1>2. m \in T /\ m \in Nat /\ T \in SUBSET Nat /\ \A k \in T : k <= n
  BY <1>1
<1>3. \A k \in T : ~(k > m)
  BY <1>1
<1> HIDE DEF T
<1>4. Max(T) \in T /\ Max(T) >= m
  BY <1>2, GreatestNat
<1>5. Max(T) = m
  <2>1. Max(T) \in Nat /\ ~(Max(T) > m)
    BY <1>2, <1>3, <1>4
  <2> QED
    BY <1>2, <1>4, <2>1
<1> QED
  BY <1>1, <1>5 DEF T

\* spread_calculator.py:21-61: without faults the cache is the latest of the stream.
THEOREM CacheLatest == Spec => []CacheIsLatest
<1>1. Init => Fresh
  BY InitFresh
<1>2. Feed /\ Fresh /\ [Next]_vars => Fresh'
  BY FreshKept
<1>3. Feed /\ Fresh => CacheIsLatest
  <2> SUFFICES ASSUME Feed, Fresh, errors = 0, crashes = 0
               PROVE  /\ SymbolsOf(cache) =
                           {s \in SymbolsOf(Delivered) :
                              Cardinality({r \in SymbolsOf(Delivered) : LastOf(r) > LastOf(s)})
                                < MAX_CACHE_SYMBOLS}
                      /\ \A c \in DOMAIN cache : \A i \in DOMAIN cache[c].ticks :
                           LET n == Max({n \in 1 .. group : prices[n].symbol = cache[c].symbol
                                            /\ prices[n].exchange = cache[c].ticks[i].exchange})
                           IN  cache[c].ticks[i] = prices[n]
    BY DEF CacheIsLatest
  <2>1. /\ prices \in Seq(Stamped) /\ group \in 0 .. Len(prices) /\ group \in Nat
        /\ cache \in Caches /\ Recent(cache, prices, group)
    BY DEF Feed, Fresh
  <2> DEFINE all == {prices[m].symbol : m \in 1 .. group}
  <2>2. SymbolsOf(Delivered) = all
    <3>1. Len(prices) \in Nat /\ \A m \in 1 .. group : prices[m] \in Stamped
      BY <2>1
    <3>2. /\ Len(SubSeq(prices, 1, group)) = group /\ DOMAIN SubSeq(prices, 1, group) = 1 .. group
          /\ \A j \in 1 .. group : SubSeq(prices, 1, group)[j] = prices[j]
      BY <2>1, <3>1
    <3> QED
      BY <3>2 DEF SymbolsOf, Delivered
  <2>3. \A s : LastOf(s) = Latest(prices, group, s)
    BY DEF LastOf, Latest
  <2> HIDE DEF all
  <2>4. ASSUME NEW s PROVE {r \in all : LastOf(r) > LastOf(s)} = Younger(prices, group, s)
    BY <2>3 DEF Younger, all
  <2>5. \A i \in DOMAIN cache : cache[i].symbol \in all
    <3> SUFFICES ASSUME NEW i \in DOMAIN cache PROVE cache[i].symbol \in all
      OBVIOUS
    <3>1. Latest(prices, group, cache[i].symbol) # 0
      BY <2>1 DEF Recent
    <3>2. /\ Latest(prices, group, cache[i].symbol) \in 1 .. group
          /\ prices[Latest(prices, group, cache[i].symbol)].symbol = cache[i].symbol
      BY <2>1, <3>1, LastIs
    <3> QED
      BY <3>2 DEF all
  <2>6. \A s \in all : (\E i \in DOMAIN cache : cache[i].symbol = s)
                         <=> Cardinality(Younger(prices, group, s)) < MAX_CACHE_SYMBOLS
    BY <2>1, HasEntry DEF all
  <2>7. SymbolsOf(cache) = {s \in all : Cardinality({r \in all : LastOf(r) > LastOf(s)})
                                          < MAX_CACHE_SYMBOLS}
    BY <2>4, <2>5, <2>6 DEF SymbolsOf
  <2>8. ASSUME NEW c \in DOMAIN cache, NEW i \in DOMAIN cache[c].ticks
        PROVE  cache[c].ticks[i] =
                 prices[Max({n \in 1 .. group : prices[n].symbol = cache[c].symbol
                               /\ prices[n].exchange = cache[c].ticks[i].exchange})]
    <3>1. cache[c].ticks[i] \in ToSet(cache[c].ticks)
      BY DEF ToSet
    <3>2. Newest(prices, group, cache[c].symbol, cache[c].ticks[i])
      BY <2>1, <3>1 DEF Recent
    <3>3. cache[c].ticks[i].symbol = cache[c].symbol
      BY <2>1 DEF Caches, Orderly, Filed
    <3> QED
      BY <2>1, <3>2, <3>3, NewestIsMax
  <2> QED
    BY <2>2, <2>7, <2>8
<1> QED
  BY <1>1, <1>2, <1>3, Fed, PTL DEF Spec

-----------------------------------------------------------------------------------
(* What is marked is published, and what is published is saved. *)

Unpublished == {k \in DOMAIN seen : ~MarkPublished(k)}
Unsaved == DOMAIN out \ (saved \cup (IF pc = "save" THEN {Len(out)} ELSE {}))

Marks ==
  /\ errors \in Nat /\ crashes \in Nat
  /\ IsFiniteSet(DOMAIN seen) /\ IsFiniteSet(DOMAIN out)
  /\ Cardinality(Unpublished) <= errors
  /\ Cardinality(Unsaved) <= errors + crashes

\* What a step may do to the two sets, and what it counts.
SameUnpublished == Unpublished' \subseteq Unpublished
MoreUnpublished == \E k : Unpublished' \subseteq Unpublished \cup {k}
SameUnsaved == Unsaved' \subseteq Unsaved
MoreUnsaved == \E i : Unsaved' \subseteq Unsaved \cup {i}
Faulty == (errors' = errors + 1 /\ crashes' = crashes) \/ (errors' = errors /\ crashes' = crashes + 1)

\* The counts, from what a step does to the sets.
LEMMA Counted ==
  ASSUME Marks, IsFiniteSet(DOMAIN seen'), IsFiniteSet(DOMAIN out'),
         Faulty \/ UNCHANGED <<errors, crashes>>,
         SameUnpublished \/ (MoreUnpublished /\ errors' = errors + 1),
         SameUnsaved \/ (MoreUnsaved /\ Faulty)
  PROVE  Marks'
<1>1. IsFiniteSet(Unpublished) /\ IsFiniteSet(Unsaved)
  <2>1. Unpublished \in SUBSET (DOMAIN seen) /\ Unsaved \in SUBSET (DOMAIN out)
    BY DEF Unpublished, Unsaved
  <2>2. IsFiniteSet(DOMAIN seen) /\ IsFiniteSet(DOMAIN out)
    BY DEF Marks
  <2> QED
    BY <2>1, <2>2, NotMore
<1>2. errors \in Nat /\ crashes \in Nat /\ Cardinality(Unpublished) <= errors
      /\ Cardinality(Unsaved) <= errors + crashes
      /\ Cardinality(Unpublished) \in Nat /\ Cardinality(Unsaved) \in Nat
  BY <1>1, FS_CardinalityType DEF Marks
<1>3. errors' \in Nat /\ crashes' \in Nat /\ errors' >= errors /\ crashes' >= crashes
      /\ (Faulty => errors' + crashes' = errors + crashes + 1)
  BY <1>2 DEF Faulty
<1>4. Cardinality(Unpublished') <= errors'
  <2>1. CASE SameUnpublished
    <3>1. Cardinality(Unpublished') <= Cardinality(Unpublished) /\ Cardinality(Unpublished') \in Nat
      BY <1>1, <2>1, NotMore DEF SameUnpublished
    <3> QED
      BY <1>2, <1>3, <3>1
  <2>2. CASE MoreUnpublished /\ errors' = errors + 1
    <3>1. PICK k : Unpublished' \subseteq Unpublished \cup {k}
      BY <2>2 DEF MoreUnpublished
    <3>2. Cardinality(Unpublished') <= Cardinality(Unpublished) + 1 /\ Cardinality(Unpublished') \in Nat
      BY <1>1, <3>1, OneMore
    <3> QED
      BY <1>2, <2>2, <3>2
  <2> QED
    BY <2>1, <2>2
<1>5. Cardinality(Unsaved') <= errors' + crashes'
  <2>1. CASE SameUnsaved
    <3>1. Cardinality(Unsaved') <= Cardinality(Unsaved) /\ Cardinality(Unsaved') \in Nat
      BY <1>1, <2>1, NotMore DEF SameUnsaved
    <3> QED
      BY <1>2, <1>3, <3>1
  <2>2. CASE MoreUnsaved /\ Faulty
    <3>1. PICK i : Unsaved' \subseteq Unsaved \cup {i}
      BY <2>2 DEF MoreUnsaved
    <3>2. Cardinality(Unsaved') <= Cardinality(Unsaved) + 1 /\ Cardinality(Unsaved') \in Nat
      BY <1>1, <3>1, OneMore
    <3>3. errors' + crashes' = errors + crashes + 1
      BY <1>3, <2>2
    <3>4. Cardinality(Unsaved) + 1 <= errors + crashes + 1
      BY <1>2
    <3> QED
      BY <1>2, <3>2, <3>3, <3>4
  <2> QED
    BY <2>1, <2>2
<1> QED
  BY <1>3, <1>4, <1>5 DEF Marks

\* The stream of opportunities as a step leaves it, or with the new entry.
LEMMA AddedEntry ==
  ASSUME Dedup, out' = Added
  PROVE  /\ DOMAIN out' = DOMAIN out \cup {Len(out')}
         /\ \A i \in DOMAIN out : out'[i] = out[i]
         /\ out'[Len(out')].opp = opp /\ out'[Len(out')].mark = marked[Key(opp)]
         /\ DOMAIN out = 1 .. Len(out)
<1> DEFINE e == [opp |-> opp, life |-> crashes, mark |-> marked[Key(opp)]]
           n == Len(out) + 1
<1>1. PICK S : out \in Seq(S)
  BY DEF Dedup, Published
<1>2. /\ DOMAIN out' = DOMAIN out \cup {n} /\ \A i \in DOMAIN out : out'[i] = out[i]
      /\ out'[n] = e
  BY <1>1, AppendAny DEF Added
<1>3. Len(out') = n
  <2>1. out \in Seq(S \cup {e}) /\ e \in S \cup {e}
    BY <1>1, SeqDef
  <2>2. Len(Append(out, e)) = Len(out) + 1
    BY <2>1, AppendProperties
  <2> QED
    BY <2>2 DEF Added
<1>4. e.opp = opp /\ e.mark = marked[Key(opp)]
  OBVIOUS
<1> HIDE DEF e, n
<1> QED
  BY <1>1, <1>2, <1>3, <1>4

\* Going through a list unpublishes nothing: the key it marks is that of its opportunity.
LEMMA OfferMarks ==
  ASSUME NEW list, Offer(list), out' = out, pc # "publish", IsFiniteSet(DOMAIN seen)
  PROVE  SameUnpublished /\ IsFiniteSet(DOMAIN seen')
<1> DEFINE keys == IF list = <<>> THEN seen ELSE Cleaned(seen)
<1>1. DOMAIN keys \subseteq DOMAIN seen /\ \A k \in DOMAIN keys : keys[k] = seen[k]
  <2>1. CASE list = <<>>
    BY <2>1
  <2>2. CASE list # <<>>
    BY <2>2, CleanedMap
  <2> QED
    BY <2>1, <2>2
<1>2. IsFiniteSet(DOMAIN keys)
  <2> HIDE DEF keys
  <2>1. DOMAIN keys \in SUBSET (DOMAIN seen)
    BY <1>1
  <2> QED
    BY <2>1, FS_Subset
<1>3. CASE pc' = "read" /\ seen' = keys
  <2> HIDE DEF keys
  <2>1. \A k \in DOMAIN seen' : k \in DOMAIN seen /\ seen'[k] = seen[k]
    BY <1>1, <1>3
  <2>2. ASSUME NEW k \in DOMAIN seen', MarkPublished(k) PROVE MarkPublished(k)'
    BY <2>1, <2>2 DEF MarkPublished, Key
  <2> QED
    BY <1>2, <1>3, <2>1, <2>2 DEF SameUnpublished, Unpublished
<1>4. ASSUME NEW i \in DOMAIN list, pc' = "publish", opp' = list[i],
             seen' = Mark(keys, Key(list[i]))
      PROVE  SameUnpublished /\ IsFiniteSet(DOMAIN seen')
  <2> HIDE DEF keys
  <2> DEFINE key == Key(list[i])
  <2>1. DOMAIN seen' = DOMAIN keys \cup {key} /\ \A x \in DOMAIN keys : x # key => seen'[x] = keys[x]
    BY <1>4, MarkMap
  <2>2. MarkPublished(key)'
    BY <1>4 DEF MarkPublished, Key
  <2> HIDE DEF key
  <2>3. \A k \in DOMAIN seen' : k # key => k \in DOMAIN seen /\ seen'[k] = seen[k]
    BY <1>1, <2>1
  <2>4. ASSUME NEW k \in DOMAIN seen', k # key, MarkPublished(k) PROVE MarkPublished(k)'
    BY <2>3, <2>4 DEF MarkPublished, Key
  <2>5. IsFiniteSet(DOMAIN seen')
    BY <1>2, <2>1, FS_AddElement
  <2> QED
    BY <2>2, <2>3, <2>4, <2>5 DEF SameUnpublished, Unpublished
<1> QED
  BY <1>3, <1>4 DEF Offer, Take

\* Of the steps that mark nothing, publish nothing and save nothing.
LEMMA MarksStay ==
  ASSUME Marks, UNCHANGED <<out, saved, seen>>,
         pc # "publish" \/ UNCHANGED <<pc, opp>>, (pc = "save") = (pc' = "save"),
         Faulty \/ UNCHANGED <<errors, crashes>>
  PROVE  Marks'
<1>1. IsFiniteSet(DOMAIN seen') /\ IsFiniteSet(DOMAIN out')
  BY DEF Marks
<1>2. \A k \in DOMAIN seen : MarkPublished(k) => MarkPublished(k)'
  BY DEF MarkPublished, Key
<1>3. SameUnpublished
  BY <1>2 DEF SameUnpublished, Unpublished
<1>4. SameUnsaved
  BY DEF SameUnsaved, Unsaved
<1> QED
  BY <1>1, <1>3, <1>4, Counted

\* A call that publishes puts its key behind an entry; one that fails may not.
LEMMA MarksPublish ==
  ASSUME Dedup, Marks, PublishOpportunity \/ PublishOpportunityFails
  PROVE  Marks'
<1>1. pc = "publish" /\ UNCHANGED <<saved, seen, marked>> /\ crashes' = crashes
      /\ (\/ pc' = "save" /\ errors' = errors /\ out' = Added
          \/ pc' = "sleep" /\ errors' = errors + 1 /\ out' \in {out, Added})
  BY DEF PublishOpportunity, PublishOpportunityFails, GiveUp, Error, memory
<1>2. IsFiniteSet(DOMAIN seen')
  BY <1>1 DEF Marks
<1>3. DOMAIN out \subseteq DOMAIN out' /\ (\A i \in DOMAIN out : out'[i] = out[i])
      /\ IsFiniteSet(DOMAIN out')
  <2>1. CASE out' = out
    BY <2>1 DEF Marks
  <2>2. CASE out' = Added
    <3>1. DOMAIN out' = DOMAIN out \cup {Len(out')} /\ \A i \in DOMAIN out : out'[i] = out[i]
      BY <2>2, AddedEntry
    <3> QED
      BY <3>1, FS_AddElement DEF Marks
  <2> QED
    BY <1>1, <2>1, <2>2
<1>4. ASSUME NEW k \in DOMAIN seen, k # Key(opp), MarkPublished(k) PROVE MarkPublished(k)'
  <2>1. PICK i \in DOMAIN out : Key(out[i].opp) = k /\ out[i].mark = seen[k]
    BY <1>1, <1>4 DEF MarkPublished
  <2>2. i \in DOMAIN out' /\ out'[i] = out[i] /\ seen' = seen
    BY <1>1, <1>3
  <2> QED
    BY <2>1, <2>2 DEF MarkPublished, Key
<1>5. MoreUnpublished
  <2>1. Unpublished' \subseteq Unpublished \cup {Key(opp)}
    BY <1>1, <1>4 DEF Unpublished
  <2> QED
    BY <2>1 DEF MoreUnpublished
<1>6. CASE pc' = "save"
  <2>1. /\ DOMAIN out' = DOMAIN out \cup {Len(out')}
        /\ out'[Len(out')].opp = opp /\ out'[Len(out')].mark = marked[Key(opp)]
    BY <1>1, <1>6, AddedEntry
  <2>2. Key(opp) \in DOMAIN seen => seen[Key(opp)] = marked[Key(opp)]
    BY DEF Dedup, Uncleaned
  <2>3. ASSUME NEW k \in DOMAIN seen, k = Key(opp) PROVE MarkPublished(k)'
    <3>1. Len(out') \in DOMAIN out' /\ Key(out'[Len(out')].opp) = k /\ out'[Len(out')].mark = seen'[k]
      BY <1>1, <2>1, <2>2, <2>3 DEF Key
    <3> QED
      BY <3>1 DEF MarkPublished, Key
  <2>4. SameUnpublished
    <3>1. ASSUME NEW k \in DOMAIN seen', ~MarkPublished(k)' PROVE k \in DOMAIN seen /\ ~MarkPublished(k)
      BY <1>1, <1>4, <2>3, <3>1
    <3> QED
      BY <3>1 DEF SameUnpublished, Unpublished
  <2>5. SameUnsaved
    BY <1>1, <1>6, <2>1 DEF SameUnsaved, Unsaved
  <2> QED
    BY <1>1, <1>2, <1>3, <1>6, <2>4, <2>5, Counted
<1>7. CASE pc' = "sleep"
  <2>1. errors' = errors + 1 /\ Faulty
    BY <1>1, <1>7 DEF Faulty
  <2>2. MoreUnsaved
    <3>1. DOMAIN out' \subseteq DOMAIN out \cup {Len(out')}
      BY <1>1, AddedEntry
    <3>2. Unsaved' \subseteq Unsaved \cup {Len(out')}
      BY <1>1, <1>7, <3>1 DEF Unsaved
    <3> QED
      BY <3>2 DEF MoreUnsaved
  <2> QED
    BY <1>2, <1>3, <1>5, <2>1, <2>2, Counted
<1> QED
  BY <1>1, <1>6, <1>7

\* Marks after every step.
LEMMA MarksKept ==
  ASSUME Dedup, Marks, [Next]_vars
  PROVE  Marks'
<1>1. CASE Advance \/ Publish \/ UNCHANGED vars
  BY <1>1, MarksStay DEF Advance, Publish, vars, redis, memory
<1>2. CASE Boot \/ CreateGroup \/ CreateGroupFails \/ Wake
  BY <1>2, MarksStay
  DEF Boot, CreateGroup, CreateGroupFails, Wake, Error, Faulty, redis, memory
<1>3. CASE ReadFails
  BY <1>3, MarksStay DEF ReadFails, GiveUp, Error, Faulty
<1>4. CASE Crash
  <2>1. /\ Faulty /\ DOMAIN seen' = {} /\ out' = out /\ saved' = saved /\ pc' = "down"
    BY <1>4 DEF Crash, Faulty, NoKeys, redis
  <2>2. SameUnpublished
    BY <2>1 DEF SameUnpublished, Unpublished
  <2>3. MoreUnsaved
    <3>1. Unsaved' \subseteq Unsaved \cup {Len(out)}
      BY <2>1 DEF Unsaved
    <3> QED
      BY <3>1 DEF MoreUnsaved
  <2>4. IsFiniteSet(DOMAIN seen') /\ IsFiniteSet(DOMAIN out')
    BY <2>1, FS_EmptySet DEF Marks
  <2> QED
    BY <2>1, <2>2, <2>3, <2>4, Counted
<1>5. CASE Read
  <2>1. PICK list : Offer(list)
    BY <1>5 DEF Read
  <2>2. /\ UNCHANGED <<out, saved, errors, crashes>> /\ pc = "read" /\ pc' # "save"
    BY <1>5, <2>1, OfferTypes DEF Read
  <2>3. SameUnpublished /\ IsFiniteSet(DOMAIN seen') /\ IsFiniteSet(DOMAIN out')
    BY <2>1, <2>2, OfferMarks DEF Marks
  <2>4. SameUnsaved
    BY <2>2 DEF SameUnsaved, Unsaved
  <2> QED
    BY <2>2, <2>3, <2>4, Counted
<1>6. CASE SaveOpportunity \/ SaveOpportunityFails
  <2>1. Offer(todo) /\ out' = out /\ pc = "save" /\ crashes' = crashes
        /\ \/ errors' = errors /\ saved' = saved \cup {Len(out)}
           \/ errors' = errors + 1 /\ saved' \in {saved, saved \cup {Len(out)}}
    BY <1>6 DEF SaveOpportunity, SaveOpportunityFails, Error
  <2>2. pc' # "save"
    BY <2>1, OfferTypes
  <2>3. SameUnpublished /\ IsFiniteSet(DOMAIN seen') /\ IsFiniteSet(DOMAIN out')
    BY <2>1, OfferMarks DEF Marks
  <2>4. CASE errors' = errors /\ saved' = saved \cup {Len(out)}
    <3>1. SameUnsaved
      BY <2>1, <2>2, <2>4 DEF SameUnsaved, Unsaved
    <3> QED
      BY <2>1, <2>3, <2>4, <3>1, Counted
  <2>5. CASE errors' = errors + 1
    <3>1. Unsaved' \subseteq Unsaved \cup {Len(out)}
      BY <2>1, <2>2 DEF Unsaved
    <3>2. MoreUnsaved
      BY <3>1 DEF MoreUnsaved
    <3> QED
      BY <2>1, <2>3, <2>5, <3>2, Counted DEF Faulty
  <2> QED
    BY <2>1, <2>4, <2>5
<1>7. CASE PublishOpportunity \/ PublishOpportunityFails
  BY <1>7, MarksPublish
<1> QED
  BY <1>1, <1>2, <1>3, <1>4, <1>5, <1>6, <1>7 DEF Next, ScannerStep, Fault

\* scanner/main.py:155-161: a key stands for an opportunity that is published, and a
\* published opportunity has its row, but for one of each for each fault.
THEOREM MarksPublished == Spec => []MarkedIsPublished
<1>1. Init => Marks
  <2> SUFFICES ASSUME Init PROVE Marks
    OBVIOUS
  <2>1. DOMAIN seen = {} /\ DOMAIN out = {} /\ errors = 0 /\ crashes = 0
    BY DEF Init, NoKeys
  <2>2. Unpublished = {} /\ Unsaved = {}
    BY <2>1 DEF Unpublished, Unsaved
  <2> QED
    BY <2>1, <2>2, FS_EmptySet DEF Marks
<1>2. Dedup /\ Marks /\ [Next]_vars => Marks'
  BY MarksKept
<1>3. Marks => MarkedIsPublished
  BY DEF Marks, Unpublished, Unsaved, MarkedIsPublished
<1> QED
  BY <1>1, <1>2, <1>3, Deduplicated, PTL DEF Spec

-----------------------------------------------------------------------------------
(* Without faults nothing is missed. *)

\* The stream has an opportunity of the key, marked less than ttl before the times x, y.
Answered(key, x, y) ==
  \E i \in DOMAIN out : /\ Key(out[i].opp) = key
                        /\ out[i].mark + ttl > x /\ out[i].mark + ttl > y

\* The loop is about to publish one, or has it still to come to.
Handled(key, x, y) ==
  \/ Answered(key, x, y)
  \/ pc = "publish" /\ Key(opp) = key /\ marked[key] + ttl > x /\ marked[key] + ttl > y
  \/ \E j \in DOMAIN todo : Key(todo[j]) = key

\* A key that was marked was published, unless the loop is about to.
AllPublished ==
  \A k \in DOMAIN marked :
    \/ pc = "publish" /\ Key(opp) = k
    \/ \E i \in DOMAIN out : Key(out[i].opp) = k /\ out[i].mark = marked[k]

\* Two ticks of one symbol in the cache that are an opportunity at a time.
Live(c, time, a, b) ==
  \E i \in DOMAIN c :
    /\ a \in ToSet(c[i].ticks) /\ b \in ToSet(c[i].ticks) /\ a # b
    /\ time - a.at <= max_age /\ time - b.at <= max_age /\ Pays(a, b)

KeyOf(a, b) == <<a.symbol, a.exchange, b.exchange>>

AllHandled == \A a, b : Live(cache, now, a, b) => Handled(KeyOf(a, b), a.at, b.at)

Complete == errors = 0 /\ crashes = 0 => AllPublished /\ AllHandled

\* The ticks that are live are not of the future.
LEMMA LiveTicks ==
  ASSUME Feed, NEW a, NEW b, Live(cache, now, a, b)
  PROVE  a.at \in Nat /\ b.at \in Nat /\ a.at <= now /\ b.at <= now
<1>1. PICK i \in DOMAIN cache : a \in ToSet(cache[i].ticks) /\ b \in ToSet(cache[i].ticks)
  BY DEF Live
<1>2. (\E m \in 1 .. group : a = prices[m]) /\ (\E m \in 1 .. group : b = prices[m])
  BY <1>1 DEF Feed, Held
<1>3. \A m \in 1 .. group : prices[m] \in Stamped /\ prices[m].at <= now
  BY DEF Feed
<1> QED
  BY <1>2, <1>3, StampedTick

\* What is offered, and what is live, are the same.
LEMMA OfferedIsLive ==
  ASSUME NEW c, NEW time, NEW o, Offered(c, time, o)
  PROVE  /\ Live(c, time, o.buy, o.sell) /\ Key(o) = KeyOf(o.buy, o.sell)
<1>1. PICK i \in DOMAIN c : \E a, b \in ToSet(c[i].ticks) :
        /\ a # b /\ time - a.at <= max_age /\ time - b.at <= max_age
        /\ Pays(a, b) /\ o = Spread(a, b, time)
  BY DEF Offered
<1>2. PICK a \in ToSet(c[i].ticks), b \in ToSet(c[i].ticks) :
        /\ a # b /\ time - a.at <= max_age /\ time - b.at <= max_age
        /\ Pays(a, b) /\ o = Spread(a, b, time)
  BY <1>1
<1>3. o.buy = a /\ o.sell = b
  BY <1>2 DEF Spread
<1> QED
  BY <1>2, <1>3 DEF Live, Key, KeyOf

\* The other direction.
LEMMA LiveIsOffered ==
  ASSUME NEW c, NEW time, NEW a, NEW b, Live(c, time, a, b)
  PROVE  Offered(c, time, Spread(a, b, time)) /\ Key(Spread(a, b, time)) = KeyOf(a, b)
BY DEF Live, Offered, Spread, Key, KeyOf

\* Going through a list: what was marked before had been published.
LEMMA OfferPublishes ==
  ASSUME NEW list, Offer(list), AllPublished, pc # "publish", out' = out
  PROVE  AllPublished'
<1>1. CASE pc' = "read" /\ UNCHANGED marked
  BY <1>1 DEF AllPublished, Key
<1>2. ASSUME NEW i \in DOMAIN list, pc' = "publish", opp' = list[i],
             marked' = Mark(marked, Key(list[i]))
      PROVE  AllPublished'
  <2> DEFINE key == Key(list[i])
  <2>1. DOMAIN marked' = DOMAIN marked \cup {key}
        /\ \A x \in DOMAIN marked : x # key => marked'[x] = marked[x]
    BY <1>2, MarkMap
  <2>2. Key(opp') = key
    BY <1>2
  <2> HIDE DEF key
  <2>3. ASSUME NEW k \in DOMAIN marked', k # key
        PROVE  \E j \in DOMAIN out' : Key(out'[j].opp) = k /\ out'[j].mark = marked'[k]
    <3>1. k \in DOMAIN marked /\ marked'[k] = marked[k]
      BY <2>1, <2>3
    <3> QED
      BY <3>1 DEF AllPublished
  <2> QED
    BY <1>2, <2>2, <2>3 DEF AllPublished, Key
<1> QED
  BY <1>1, <1>2 DEF Offer, Take

\* Whatever key the list has is handled when the loop has gone through it.
LEMMA OfferHandles ==
  ASSUME Dedup, AllPublished, NEW list \in Seq(Opportunity), Offer(list),
         pc # "publish", out' = out, now' = now,
         NEW key, NEW x \in Nat, NEW y \in Nat, x <= now, y <= now,
         Answered(key, x, y) \/ \E j \in DOMAIN list : Key(list[j]) = key
  PROVE  Handled(key, x, y)'
<1> DEFINE keys == IF list = <<>> THEN seen ELSE Cleaned(seen)
<1>1. ttl \in Nat \ {0} /\ now \in Nat
  BY ScannerAssumption DEF Dedup, Clocks
<1>2. \A k \in DOMAIN keys : k \in DOMAIN marked /\ keys[k] = marked[k] /\ marked[k] \in Nat
  <2>1. DOMAIN keys \subseteq DOMAIN seen /\ \A k \in DOMAIN keys : keys[k] = seen[k]
    BY CleanedMap
  <2> HIDE DEF keys
  <2> QED
    BY <2>1 DEF Dedup, Uncleaned
<1>3. CASE Answered(key, x, y)
  BY <1>3 DEF Answered, Handled, Key
<1>4. ASSUME Duplicate(keys, key) PROVE Answered(key, x, y)
  <2>1. key \in DOMAIN keys /\ now - keys[key] < ttl
    BY <1>4 DEF Duplicate
  <2>2. key \in DOMAIN marked /\ marked[key] \in Nat /\ now - marked[key] < ttl
    <3> HIDE DEF keys
    <3> QED
      BY <1>2, <2>1
  <2>3. marked[key] + ttl > x /\ marked[key] + ttl > y
    BY <1>1, <2>2
  <2>4. PICK i \in DOMAIN out : Key(out[i].opp) = key /\ out[i].mark = marked[key]
    BY <2>2 DEF AllPublished
  <2> QED
    BY <2>3, <2>4 DEF Answered
<1>5. ASSUME Answered(key, x, y) PROVE Handled(key, x, y)'
  BY <1>5 DEF Answered, Handled, Key
<1>6. ASSUME NEW j \in DOMAIN list, Key(list[j]) = key PROVE Handled(key, x, y)'
  <2>1. CASE Duplicate(keys, Key(list[j]))
    BY <1>4, <1>5, <1>6, <2>1
  <2>2. CASE ~Duplicate(keys, Key(list[j]))
    <3>1. PICK i \in DOMAIN list :
            /\ \A l \in 1 .. (i - 1) : Duplicate(keys, Key(list[l]))
            /\ pc' = "publish" /\ opp' = list[i] /\ todo' = SubSeq(list, i + 1, Len(list))
            /\ marked' = Mark(marked, Key(list[i]))
      BY <2>2 DEF Offer, Take
    <3> HIDE DEF keys
    <3>2. i \in Nat /\ j \in Nat /\ 1 <= i /\ 1 <= j /\ j <= Len(list) /\ Len(list) \in Nat
      OBVIOUS
    <3>3. ~(j \in 1 .. (i - 1))
      BY <2>2, <3>1
    <3>4. CASE j = i
      <4>1. marked'[key] = now /\ Key(opp') = key
        BY <1>6, <3>1, <3>4, MarkMap
      <4>2. now + ttl > x /\ now + ttl > y
        BY <1>1
      <4> QED
        BY <3>1, <4>1, <4>2 DEF Handled, Key
    <3>5. CASE j # i
      <4>1. j - i \in 1 .. Len(list) - i /\ i + (j - i) = j
        BY <3>2, <3>3, <3>5
      <4>2. /\ DOMAIN todo' = 1 .. Len(list) - i
            /\ \A l \in 1 .. Len(list) - i : todo'[l] = list[i + l]
        BY <3>1, RestOfList
      <4>3. todo'[j - i] = list[j] /\ j - i \in DOMAIN todo'
        BY <4>1, <4>2
      <4>4. Key(todo'[j - i]) = key
        BY <1>6, <4>3
      <4> QED
        BY <4>3, <4>4 DEF Handled, Key
    <3> QED
      BY <3>4, <3>5
  <2> QED
    BY <2>1, <2>2
<1> QED
  BY <1>5, <1>6

\* Of the steps that leave all of it alone; time takes live ticks away and adds none.
LEMMA CompleteStays ==
  ASSUME Feed, Complete, UNCHANGED <<cache, out, marked, opp, todo, errors, crashes>>,
         (pc = "publish") = (pc' = "publish"), now' \in {now, now + 1}
  PROVE  Complete'
<1> SUFFICES ASSUME errors = 0, crashes = 0 PROVE AllPublished' /\ AllHandled'
  BY DEF Complete
<1>1. AllPublished'
  BY DEF Complete, AllPublished, Key
<1>2. ASSUME NEW a, NEW b, Live(cache, now', a, b) PROVE Handled(KeyOf(a, b), a.at, b.at)'
  <2>1. PICK i \in DOMAIN cache :
          /\ a \in ToSet(cache[i].ticks) /\ b \in ToSet(cache[i].ticks) /\ a # b
          /\ now' - a.at <= max_age /\ now' - b.at <= max_age /\ Pays(a, b)
    BY <1>2 DEF Live
  <2>2. a.at \in Nat /\ b.at \in Nat
    <3>1. (\E m \in 1 .. group : a = prices[m]) /\ (\E m \in 1 .. group : b = prices[m])
      BY <2>1 DEF Feed, Held
    <3>2. \A m \in 1 .. group : prices[m] \in Stamped
      BY DEF Feed
    <3> QED
      BY <3>1, <3>2, StampedTick
  <2>3. now - a.at <= max_age /\ now - b.at <= max_age
    BY <2>1, <2>2, CacheAssumption DEF Feed
  <2>4. Live(cache, now, a, b)
    BY <2>1, <2>3 DEF Live
  <2>5. Handled(KeyOf(a, b), a.at, b.at)
    BY <2>4 DEF Complete, AllHandled
  <2> SUFFICES ASSUME NEW key, NEW x, NEW y, Handled(key, x, y) PROVE Handled(key, x, y)'
    BY <2>5
  <2> QED
    BY DEF Handled, Answered, Key
<1>3. AllHandled'
  BY <1>2 DEF AllHandled
<1> QED
  BY <1>1, <1>3

\* Complete after every step.
LEMMA CompleteKept ==
  ASSUME Dedup, Feed, Offers, Complete, [Next]_vars
  PROVE  Complete'
<1>0. Feed' /\ Dedup
  BY FeedKept
<1>1. CASE Advance \/ Publish \/ UNCHANGED vars
  BY <1>1, CompleteStays DEF Advance, Publish, vars, redis, memory
<1>2. CASE Boot \/ CreateGroup \/ Wake
  BY <1>2, CompleteStays DEF Boot, CreateGroup, Wake, redis, memory
<1>3. CASE Crash \/ ReadFails \/ CreateGroupFails \/ PublishOpportunityFails \/ SaveOpportunityFails
  <2>1. errors' = errors + 1 \/ crashes' = crashes + 1
    BY <1>3 DEF Crash, ReadFails, CreateGroupFails, PublishOpportunityFails, SaveOpportunityFails,
                GiveUp, Error
  <2>2. errors' # 0 \/ crashes' # 0
    BY <2>1 DEF Feed
  <2> QED
    BY <2>2 DEF Complete
<1>4. CASE Read
  <2> DEFINE spreads == calculate_all_spreads(cache', now)
  <2>1. /\ Offer(spreads) /\ pc = "read"
        /\ UNCHANGED <<now, out, errors, crashes>>
    BY <1>4 DEF Read
  <2>2. cache' \in Caches /\ now \in Nat
    BY <1>0, <2>1 DEF Feed
  <2>3. spreads \in Seq(Opportunity) /\ \A o : o \in ToSet(spreads) <=> Offered(cache', now, o)
    BY <2>2, AllSpreads
  <2> HIDE DEF spreads
  <2> SUFFICES ASSUME errors = 0, crashes = 0 PROVE AllPublished' /\ AllHandled'
    BY <2>1 DEF Complete
  <2>4. AllPublished
    BY DEF Complete
  <2>5. AllPublished'
    BY <2>1, <2>4, OfferPublishes
  <2>6. ASSUME NEW a, NEW b, Live(cache', now', a, b) PROVE Handled(KeyOf(a, b), a.at, b.at)'
    <3>1. a.at \in Nat /\ b.at \in Nat /\ a.at <= now /\ b.at <= now
      <4>1. PICK i \in DOMAIN cache' : a \in ToSet(cache'[i].ticks) /\ b \in ToSet(cache'[i].ticks)
        BY <2>6 DEF Live
      <4>2. (\E m \in 1 .. group' : a = prices'[m]) /\ (\E m \in 1 .. group' : b = prices'[m])
        BY <1>0, <4>1 DEF Feed, Held
      <4>3. \A m \in 1 .. group' : prices'[m] \in Stamped /\ prices'[m].at <= now'
        BY <1>0 DEF Feed
      <4> QED
        BY <2>1, <4>2, <4>3, StampedTick
    <3> DEFINE o == Spread(a, b, now)
    <3>2. Offered(cache', now, o) /\ Key(o) = KeyOf(a, b)
      BY <2>1, <2>6, LiveIsOffered
    <3> HIDE DEF o
    <3>3. o \in ToSet(spreads)
      BY <2>3, <3>2
    <3>4. \E j \in DOMAIN spreads : Key(spreads[j]) = KeyOf(a, b)
      BY <3>2, <3>3 DEF ToSet
    <3> SUFFICES ASSUME NEW key, key = KeyOf(a, b), NEW x, x = a.at, NEW y, y = b.at
                 PROVE  Handled(key, x, y)'
      OBVIOUS
    <3> QED
      BY <2>1, <2>3, <2>4, <3>1, <3>4, OfferHandles
  <2>7. AllHandled'
    BY <2>6 DEF AllHandled
  <2> QED
    BY <2>5, <2>7
<1>5. CASE SaveOpportunity
  <2>1. /\ Offer(todo) /\ pc = "save"
        /\ UNCHANGED <<now, out, cache, errors, crashes>>
    BY <1>5 DEF SaveOpportunity
  <2> SUFFICES ASSUME errors = 0, crashes = 0 PROVE AllPublished' /\ AllHandled'
    BY <2>1 DEF Complete
  <2>2. AllPublished /\ AllHandled
    BY DEF Complete
  <2>3. AllPublished'
    BY <2>1, <2>2, OfferPublishes
  <2>4. todo \in Seq(Opportunity)
    BY DEF Offers, AllBacked
  <2>5. ASSUME NEW a, NEW b, Live(cache', now', a, b) PROVE Handled(KeyOf(a, b), a.at, b.at)'
    <3>1. Live(cache, now, a, b)
      BY <2>1, <2>5
    <3>2. a.at \in Nat /\ b.at \in Nat /\ a.at <= now /\ b.at <= now
      BY <3>1, LiveTicks
    <3>3. Handled(KeyOf(a, b), a.at, b.at)
      BY <2>2, <3>1 DEF AllHandled
    <3>4. Answered(KeyOf(a, b), a.at, b.at) \/ \E j \in DOMAIN todo : Key(todo[j]) = KeyOf(a, b)
      BY <2>1, <3>3 DEF Handled
    <3> SUFFICES ASSUME NEW key, key = KeyOf(a, b), NEW x, x = a.at, NEW y, y = b.at
                 PROVE  Handled(key, x, y)'
      OBVIOUS
    <3> QED
      BY <2>1, <2>2, <2>4, <3>2, <3>4, OfferHandles
  <2>6. AllHandled'
    BY <2>5 DEF AllHandled
  <2> QED
    BY <2>3, <2>6
<1>6. CASE PublishOpportunity
  <2>1. /\ pc = "publish" /\ pc' = "save" /\ out' = Added
        /\ UNCHANGED <<now, cache, marked, opp, todo, errors, crashes>>
    BY <1>6 DEF PublishOpportunity, memory
  <2>2. /\ DOMAIN out' = DOMAIN out \cup {Len(out')} /\ \A i \in DOMAIN out : out'[i] = out[i]
        /\ out'[Len(out')].opp = opp /\ out'[Len(out')].mark = marked[Key(opp)]
    BY <2>1, AddedEntry
  <2> SUFFICES ASSUME errors = 0, crashes = 0 PROVE AllPublished' /\ AllHandled'
    BY <2>1 DEF Complete
  <2>3. AllPublished /\ AllHandled
    BY DEF Complete
  <2>4. AllPublished'
    <3> SUFFICES ASSUME NEW k \in DOMAIN marked
                 PROVE  \E i \in DOMAIN out' : Key(out'[i].opp) = k /\ out'[i].mark = marked[k]
      BY <2>1 DEF AllPublished, Key
    <3>1. CASE Key(opp) = k
      BY <2>2, <3>1
    <3>2. CASE Key(opp) # k
      BY <2>2, <2>3, <3>2 DEF AllPublished
    <3> QED
      BY <3>1, <3>2
  <2>5. ASSUME NEW key, NEW x, NEW y, Handled(key, x, y) PROVE Handled(key, x, y)'
    <3>1. CASE Answered(key, x, y)
      <4>1. PICK i \in DOMAIN out : Key(out[i].opp) = key /\ out[i].mark + ttl > x /\ out[i].mark + ttl > y
        BY <3>1 DEF Answered
      <4>2. i \in DOMAIN out' /\ out'[i] = out[i]
        BY <2>2
      <4> QED
        BY <4>1, <4>2 DEF Handled, Answered, Key
    <3>2. CASE Key(opp) = key /\ marked[key] + ttl > x /\ marked[key] + ttl > y
      <4>1. Len(out') \in DOMAIN out' /\ Key(out'[Len(out')].opp) = key
            /\ out'[Len(out')].mark = marked[key]
        BY <2>2, <3>2
      <4> QED
        BY <3>2, <4>1 DEF Handled, Answered, Key
    <3>3. CASE \E j \in DOMAIN todo : Key(todo[j]) = key
      BY <2>1, <3>3 DEF Handled, Key
    <3> QED
      BY <2>5, <3>1, <3>2, <3>3 DEF Handled
  <2>6. AllHandled'
    <3> SUFFICES ASSUME NEW a, NEW b, Live(cache', now', a, b)
                 PROVE  Handled(KeyOf(a, b), a.at, b.at)'
      BY DEF AllHandled
    <3>1. Handled(KeyOf(a, b), a.at, b.at)
      BY <2>1, <2>3 DEF AllHandled
    <3> SUFFICES ASSUME NEW key, key = KeyOf(a, b), NEW x, x = a.at, NEW y, y = b.at
                 PROVE  Handled(key, x, y)'
      OBVIOUS
    <3> QED
      BY <2>5, <3>1
  <2> QED
    BY <2>4, <2>6
<1> QED
  BY <1>1, <1>2, <1>3, <1>4, <1>5, <1>6 DEF Next, ScannerStep, Fault

\* scanner/main.py:141-164: without faults, whatever spread the cache still holds when the
\* loop is back at its read has been published, less than ttl before its last price came.
THEOREM CompleteScan == Spec => []NothingMissed
<1>1. Init => Complete
  <2> SUFFICES ASSUME Init PROVE AllPublished /\ AllHandled
    BY DEF Complete
  <2>1. DOMAIN marked = {} /\ DOMAIN cache = {}
    BY DEF Init, NoKeys
  <2> QED
    BY <2>1 DEF AllPublished, AllHandled, Live
<1>2. Dedup /\ Feed /\ Offers /\ Complete /\ [Next]_vars => Complete'
  BY CompleteKept
<1>3. Feed /\ Offers /\ Dedup /\ TypeOK /\ Complete => NothingMissed
  <2> SUFFICES ASSUME Feed, Offers, Dedup, TypeOK, Complete, errors = 0, crashes = 0, pc = "read",
                      NEW o \in ToSet(calculate_all_spreads(cache, now))
               PROVE  \E i \in DOMAIN out : /\ Key(out[i].opp) = Key(o)
                                            /\ out[i].mark + ttl > Max({o.buy.at, o.sell.at})
    BY DEF NothingMissed
  <2>1. cache \in Caches /\ now \in Nat
    BY DEF Feed
  <2>2. Live(cache, now, o.buy, o.sell) /\ Key(o) = KeyOf(o.buy, o.sell)
    BY <2>1, AllSpreads, OfferedIsLive
  <2>3. todo = <<>> /\ DOMAIN <<>> = {}
    BY DEF TypeOK
  <2>4. Answered(Key(o), o.buy.at, o.sell.at)
    BY <2>2, <2>3 DEF Complete, AllHandled, Handled
  <2>5. PICK i \in DOMAIN out : /\ Key(out[i].opp) = Key(o)
                                /\ out[i].mark + ttl > o.buy.at /\ out[i].mark + ttl > o.sell.at
    BY <2>4 DEF Answered
  <2>6. o.buy.at \in Nat /\ o.sell.at \in Nat /\ out[i].mark + ttl \in Int
    BY <2>2, LiveTicks, ScannerAssumption DEF Dedup, Published
  <2> QED
    BY <2>5, <2>6, MaxOfTwo
<1> QED
  BY <1>1, <1>2, <1>3, Deduplicated, Fed, TypeCorrect, PTL DEF Spec
===================================================================================
