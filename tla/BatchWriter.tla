----------------------------- MODULE BatchWriter -----------------------------
(****************************************************************************)
(* BatchWriter of collector/db_writer.py, which copies the stream "prices"  *)
(* to the table prices, with its start and stop by collector/main.py.       *)
(*                                                                          *)
(* Two tasks share the buffer: the reader (start) and the shutdown (stop).  *)
(* An action performs the call a task awaits and the code up to its next    *)
(* await.  publish_price always writes complete, numeric fields, so every   *)
(* entry parses to a tick; ticks are named by their position in the stream. *)
(****************************************************************************)
EXTENDS Naturals, Sequences

CONSTANTS
  batch_size,    \* ticks per read, and the buffer length that starts a flush
  Requeue,       \* ticks of a failed batch put back (100 in the code)
  MaxStream,     \* bound on the ticks ever published
  MaxErrors,     \* bound on failed calls
  MaxCrashes,    \* bound on crashes
  MaxStops       \* bound on shutdowns

ASSUME WriterAssumption ==
  /\ batch_size \in Nat \ {0} /\ Requeue \in Nat /\ batch_size <= Requeue
  /\ {MaxStream, MaxErrors, MaxCrashes, MaxStops} \subseteq Nat

VARIABLES
  (* Redis and TimescaleDB. *)
  published,   \* length of the stream "prices"
  group,       \* last entry delivered to group writer-cg; none is XACKed
  rows,        \* rows[n]: rows of tick n in table prices, which has no unique key
  (* The process. *)
  reader,      \* the await of the task start()
  stopper,     \* the await of the shutdown in stop()
  running, buffer,
  batch,       \* `batch' of the reader's _flush
  lastBatch,   \* `batch' of the shutdown's _flush
  (* Bounds. *)
  errors, crashes, stops

database == <<published, group, rows>>
memory   == <<running, buffer, batch, lastBatch>>
bounds   == <<errors, crashes, stops>>
vars     == <<database, reader, stopper, memory, bounds>>

Init ==
  /\ published = 0 /\ group = 0 /\ rows = [n \in 1 .. MaxStream |-> 0]
  /\ reader = "down" /\ stopper = "idle"
  /\ running = FALSE /\ buffer = <<>> /\ batch = <<>> /\ lastBatch = <<>>
  /\ errors = 0 /\ crashes = 0 /\ stops = 0

Error == errors < MaxErrors /\ errors' = errors + 1

\* External: handle_tick of another task publishes a price.
Publish ==
  /\ published < MaxStream /\ published' = published + 1
  /\ UNCHANGED <<group, rows, reader, stopper, memory, bounds>>
------------------------------------------------------------------------------
(* lifespan. *)

\* With Redis and the database connected, a writer is created and started.
Boot ==
  /\ reader = "down"
  /\ reader' = "group" /\ running' = TRUE
  /\ UNCHANGED <<database, stopper, buffer, batch, lastBatch, bounds>>

\* Otherwise the collector runs without one until it is restarted.
BootWithoutWriter ==
  /\ reader = "down"
  /\ Error
  /\ reader' = "none"
  /\ UNCHANGED <<database, stopper, memory, crashes, stops>>

\* The process is gone and with it everything in memory.
End ==
  /\ reader' = "down" /\ stopper' = "idle"
  /\ running' = FALSE /\ buffer' = <<>> /\ batch' = <<>> /\ lastBatch' = <<>>

Crash ==
  /\ reader # "down"
  /\ crashes < MaxCrashes /\ crashes' = crashes + 1
  /\ End
  /\ UNCHANGED <<database, errors, stops>>

\* stop(), up to the flush of what the buffer holds.
Stop ==
  /\ reader \notin {"down", "none"} /\ stopper = "idle"
  /\ stops < MaxStops /\ stops' = stops + 1
  /\ running' = FALSE
  /\ lastBatch' = buffer /\ buffer' = <<>>
  /\ stopper' = IF buffer = <<>> THEN "done" ELSE "flush"
  /\ UNCHANGED <<database, reader, batch, errors, crashes>>

\* close_db_pool waits for the connection of a flush the reader is in.
Exit ==
  /\ stopper = "done" /\ reader # "flush"
  /\ End
  /\ UNCHANGED <<database, bounds>>
------------------------------------------------------------------------------
(* The reader: start(). *)

\* `while self.running'
Continue == reader' = IF running THEN "read" ELSE "stopped"

\* Mutant of CreateGroup: the group of an earlier start is replaced.
CreateGroup_Anew ==
  /\ reader = "group"
  /\ group' = 0
  /\ Continue
  /\ UNCHANGED <<published, rows, stopper, memory, bounds>>

\* xgroup_create from the first entry on; "already exists" is not an error.
CreateGroup ==
  /\ reader = "group"
  /\ Continue
  /\ UNCHANGED <<database, stopper, memory, bounds>>

\* Any other exception ends the task, unobserved.
CreateGroupFails ==
  /\ reader = "group"
  /\ Error
  /\ reader' = "dead"
  /\ UNCHANGED <<database, stopper, memory, crashes, stops>>

Least(a, b) == IF a <= b THEN a ELSE b
AfterRead == Least(group + batch_size, published)
Ticks(first, last) == [i \in 1 .. last + 1 - first |-> first + i - 1]

\* _flush, up to the INSERT: the buffer `ticks' becomes the batch.
BeginFlush(ticks) ==
  /\ batch' = ticks /\ buffer' = <<>>
  /\ reader' = "flush"

\* Mutant of ReadSome: the ticks read replace those in the buffer.
ReadSome_Replaces ==
  LET ticks == Ticks(group + 1, AfterRead)
  IN  IF Len(ticks) >= batch_size
        THEN BeginFlush(ticks)
        ELSE buffer' = ticks /\ Continue /\ UNCHANGED batch

\* xreadgroup delivers the next ticks.
ReadSome ==
  LET ticks == buffer \o Ticks(group + 1, AfterRead)
  IN  IF Len(ticks) >= batch_size
        THEN BeginFlush(ticks)
        ELSE buffer' = ticks /\ Continue /\ UNCHANGED batch

\* Mutant of ReadNone: what is in the buffer waits for more ticks.
ReadNone_Waits == Continue /\ UNCHANGED <<buffer, batch>>

\* xreadgroup times out: there is nothing to read.
ReadNone ==
  IF buffer # <<>> THEN BeginFlush(buffer) ELSE Continue /\ UNCHANGED <<buffer, batch>>

Read ==
  /\ reader = "read"
  /\ group' = AfterRead
  /\ IF group < published THEN ReadSome ELSE ReadNone
  /\ UNCHANGED <<published, rows, stopper, running, lastBatch, bounds>>

\* xreadgroup raises; the server may have delivered ticks all the same.
ReadFails ==
  /\ reader = "read"
  /\ Error
  /\ group' \in {group, AfterRead}
  /\ reader' = "sleep"
  /\ UNCHANGED <<published, rows, stopper, memory, crashes, stops>>

Wake ==
  /\ reader = "sleep"
  /\ Continue
  /\ UNCHANGED <<database, stopper, memory, bounds>>
------------------------------------------------------------------------------
(* _flush, from the INSERT on, by either task. *)

\* executemany inserts the whole batch, or nothing.
Insert(ticks) ==
  [n \in 1 .. MaxStream |-> rows[n] + (IF \E i \in DOMAIN ticks : ticks[i] = n THEN 1 ELSE 0)]

\* Mutant of Returned: the batch is put back whole.
Returned_Whole(ticks) == ticks \o buffer

\* What a failed flush makes of the buffer.
Returned(ticks) == SubSeq(ticks, 1, Least(Len(ticks), Requeue)) \o buffer

\* Mutant of Flush: the batch is put back although it was inserted.
Flush_PutsBack ==
  /\ reader = "flush"
  /\ rows' = Insert(batch)
  /\ buffer' = Returned(batch) /\ batch' = <<>>
  /\ Continue
  /\ UNCHANGED <<published, group, stopper, running, lastBatch, bounds>>

Flush ==
  /\ reader = "flush"
  /\ rows' = Insert(batch)
  /\ batch' = <<>>
  /\ Continue
  /\ UNCHANGED <<published, group, stopper, running, buffer, lastBatch, bounds>>

\* The INSERT fails, or its answer is lost.
FlushFails ==
  /\ reader = "flush"
  /\ Error
  /\ rows' \in {rows, Insert(batch)}
  /\ buffer' = Returned(batch) /\ batch' = <<>>
  /\ reader' = "sleep"
  /\ UNCHANGED <<published, group, stopper, running, lastBatch, crashes, stops>>

StopFlush ==
  /\ stopper = "flush"
  /\ rows' = Insert(lastBatch)
  /\ lastBatch' = <<>>
  /\ stopper' = "done"
  /\ UNCHANGED <<published, group, reader, running, buffer, batch, bounds>>

\* stop() returns after the half second _flush sleeps, and tries no more.
StopFlushFails ==
  /\ stopper = "flush"
  /\ Error
  /\ rows' \in {rows, Insert(lastBatch)}
  /\ buffer' = Returned(lastBatch) /\ lastBatch' = <<>>
  /\ stopper' = "done"
  /\ UNCHANGED <<published, group, reader, running, batch, crashes, stops>>
------------------------------------------------------------------------------
ReaderStep == CreateGroup \/ Read \/ Wake \/ Flush
StopStep   == StopFlush \/ Exit
Fault == BootWithoutWriter \/ CreateGroupFails \/ ReadFails \/ FlushFails \/ StopFlushFails

Next == Publish \/ Boot \/ Crash \/ Stop \/ ReaderStep \/ StopStep \/ Fault

Spec == Init /\ [][Next]_vars

\* The event loop runs both tasks, a shutdown ends, and docker restarts the
\* service (restart: on-failure:5).
FairSpec == Spec /\ WF_vars(ReaderStep) /\ WF_vars(StopStep) /\ WF_vars(Boot)
------------------------------------------------------------------------------
(* Properties. *)

Ticked == Seq(1 .. group)

\* Every variable keeps its type; the ticks in memory are ones the group delivered,
\* and each task holds a batch only while it flushes it.
TypeOK ==
  /\ published \in 0 .. MaxStream /\ group \in 0 .. published
  /\ rows \in [1 .. MaxStream -> Nat]
  /\ reader \in {"down", "none", "dead", "group", "read", "flush", "sleep", "stopped"}
  /\ stopper \in {"idle", "flush", "done"}
  /\ running \in BOOLEAN
  /\ buffer \in Ticked /\ batch \in Ticked /\ lastBatch \in Ticked
  /\ reader # "flush" => batch = <<>>
  /\ stopper # "flush" => lastBatch = <<>>
  /\ errors \in Nat /\ crashes \in Nat /\ stops \in Nat

\* The memory does not grow while the database is down, also when both tasks put
\* a failed batch back: 200 ticks in the code.
MemoryBounded ==
  Len(buffer) + Len(batch) + Len(lastBatch) <= Requeue + batch_size

In(n, s) == \E i \in DOMAIN s : s[i] = n
Held(n)  == In(n, buffer) \/ In(n, batch) \/ In(n, lastBatch)

Distinct(s) == \A i, j \in DOMAIN s : s[i] = s[j] => i = j

\* No tick is in memory twice, also while two flushes are under way, and a tick
\* gets a second row only by a failed call: ON CONFLICT DO NOTHING prevents none.
WrittenOnce ==
  /\ Distinct(buffer) /\ Distinct(batch) /\ Distinct(lastBatch)
  /\ \A n \in 1 .. group : /\ ~(In(n, buffer) /\ In(n, batch))
                           /\ ~(In(n, buffer) /\ In(n, lastBatch))
                           /\ ~(In(n, batch) /\ In(n, lastBatch))
                           /\ rows[n] + (IF Held(n) THEN 1 ELSE 0) <= 1 + errors

\* Until something fails, crashes or stops, every tick delivered is in memory or
\* in the table.
NothingLost ==
  errors = 0 /\ crashes = 0 /\ stops = 0 =>
    \A n \in 1 .. group : Held(n) \/ rows[n] = 1

\* What becomes of each tick.
Fate(n) == CASE Held(n)                     -> "held"
             [] ~Held(n) /\ rows[n] > 0     -> "kept"
             [] ~Held(n) /\ rows[n] = 0 /\ n > group  -> "waiting"
             [] ~Held(n) /\ rows[n] = 0 /\ n <= group -> "dropped"

Stream == INSTANCE Consumer WITH Entries <- MaxStream,
                                 fate <- [n \in 1 .. MaxStream |-> Fate(n)]

\* The writer is a consumer of the stream "prices": a tick that has left its memory
\* never comes back, and none is skipped that may still be delivered.
ConsumesOnce == Stream!Spec

\* With a writer that is alive from some time on, every tick published is written
\* or dropped: none stays in the buffer for ever.
TicksHandled ==
  <>[](reader \notin {"none", "dead"}) =>
    \A n \in 1 .. MaxStream : (published >= n) ~> (Fate(n) \in {"kept", "dropped"})
------------------------------------------------------------------------------
(* What a comment says and the code does not do. *)

\* db_writer.py:211: stop() flushes the remaining data.
StopFlushes ==
  errors = 0 /\ crashes = 0 /\ reader = "down" => \A n \in 1 .. group : rows[n] = 1
==============================================================================
