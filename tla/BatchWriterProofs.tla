---------------------------- MODULE BatchWriterProofs ----------------------------
(* Safety of the batch writer for any batch size, stream and number of faults.    *)
EXTENDS BatchWriter, SequenceTheorems, TLAPS

LEMMA SeqMonotone ==
  ASSUME NEW s, NEW S, NEW T, s \in Seq(S), S \subseteq T
  PROVE  s \in Seq(T)
OBVIOUS

LEMMA EmptyTicked == <<>> \in Ticked /\ Len(<<>>) = 0
BY EmptySeq DEF Ticked

\* What AfterRead and Ticks return.
LEMMA ReadResult ==
  ASSUME TypeOK
  PROVE  /\ AfterRead \in group .. published
         /\ Ticks(group + 1, AfterRead) \in Seq((group + 1) .. AfterRead)
         /\ Len(Ticks(group + 1, AfterRead)) <= batch_size
         /\ \A i \in 1 .. Len(Ticks(group + 1, AfterRead)) :
              Ticks(group + 1, AfterRead)[i] = group + i
<1>1. /\ AfterRead \in group .. published /\ AfterRead - group <= batch_size
      /\ group \in Nat
  BY WriterAssumption DEF TypeOK, AfterRead, Least
<1>2. Ticks(group + 1, AfterRead) = [i \in 1 .. (AfterRead - group) |-> group + i]
  BY <1>1 DEF Ticks
<1> QED
  BY <1>1, <1>2, WriterAssumption

\* A failed flush puts back ticks of its batch, at most Requeue of them.
LEMMA ReturnedType ==
  ASSUME TypeOK, NEW ticks \in Ticked
  PROVE  /\ Returned(ticks) \in Ticked
         /\ Len(Returned(ticks)) <= Len(buffer) + Requeue
         /\ Len(Returned(ticks)) <= Len(buffer) + Len(ticks)
<1> DEFINE k == Least(Len(ticks), Requeue)
<1>1. k \in 0 .. Len(ticks) /\ k <= Requeue
  BY WriterAssumption DEF Ticked, Least
<1>0. Len(ticks) \in Nat /\ \A i \in 1 .. Len(ticks) : ticks[i] \in 1 .. group
  BY ElementOfSeq, LenProperties DEF Ticked
<1> DEFINE back == SubSeq(ticks, 1, k)
<1>2. back \in Ticked /\ Len(back) = k
  <2>1. \A i \in 1 .. k : ticks[i] \in 1 .. group
    BY <1>0, <1>1
  <2>2. /\ back \in Seq(1 .. group)
        /\ Len(back) = IF 1 <= k THEN k - 1 + 1 ELSE 0
    BY <1>1, <2>1, SubSeqProperties
  <2> QED
    BY <1>1, <2>2 DEF Ticked
<1>3. buffer \in Ticked /\ Len(buffer) \in Nat /\ Len(ticks) \in Nat /\ Requeue \in Nat
  BY WriterAssumption DEF TypeOK, Ticked
<1>4. Returned(ticks) = back \o buffer
  BY DEF Returned
<1> HIDE DEF back, k
<1>5. back \o buffer \in Ticked /\ Len(back \o buffer) = k + Len(buffer)
  BY <1>2, <1>3, ConcatProperties DEF Ticked
<1> QED
  BY <1>1, <1>3, <1>4, <1>5

LEMMA InsertType ==
  ASSUME TypeOK, NEW ticks
  PROVE  Insert(ticks) \in [1 .. MaxStream -> Nat]
BY DEF TypeOK, Insert

\* BatchWriter: every variable keeps its type; the ticks in memory are ones the
\* group delivered, and a task holds a batch only while it flushes it.
THEOREM TypeCorrect == Spec => []TypeOK
<1> USE WriterAssumption
<1>1. Init => TypeOK
  <2> SUFFICES ASSUME Init PROVE TypeOK
    OBVIOUS
  <2>1. /\ published \in 0 .. MaxStream /\ group \in 0 .. published
        /\ errors \in Nat /\ crashes \in Nat /\ stops \in Nat
        /\ rows \in [1 .. MaxStream -> Nat]
    BY DEF Init
  <2>2. /\ running \in BOOLEAN
        /\ buffer \in Ticked /\ batch \in Ticked /\ lastBatch \in Ticked
        /\ reader = "down" /\ stopper = "idle" /\ batch = <<>> /\ lastBatch = <<>>
    BY EmptyTicked DEF Init
  <2> QED
    BY <2>1, <2>2 DEF TypeOK
<1>2. TypeOK /\ [Next]_vars => TypeOK'
  <2> SUFFICES ASSUME TypeOK, [Next]_vars
               PROVE  TypeOK'
    OBVIOUS
  <2>1. CASE Publish
    BY <2>1 DEF Publish, TypeOK, Ticked, memory, bounds
  <2>2. CASE Boot
    BY <2>2 DEF Boot, TypeOK, Ticked, database, bounds
  <2>3. CASE BootWithoutWriter
    BY <2>3 DEF BootWithoutWriter, Error, TypeOK, Ticked, database, memory
  <2>4. CASE Crash
    <3>1. crashes' \in Nat
      BY <2>4 DEF Crash, TypeOK
    <3> QED
      BY <2>4, <3>1, EmptyTicked DEF Crash, End, TypeOK, Ticked, database
  <2>5. CASE Stop
    <3>1. stops' \in Nat
      BY <2>5 DEF Stop, TypeOK
    <3>2. lastBatch' \in Ticked /\ buffer' \in Ticked /\ stopper' \in {"flush", "done"}
          /\ (stopper' # "flush" => lastBatch' = <<>>)
      BY <2>5, EmptyTicked DEF Stop, TypeOK
    <3> QED
      BY <2>5, <3>1, <3>2 DEF Stop, TypeOK, Ticked, database
  <2>6. CASE Exit
    BY <2>6, EmptyTicked DEF Exit, End, TypeOK, Ticked, database, bounds
  <2>7. CASE CreateGroup \/ Wake
    BY <2>7 DEF CreateGroup, Wake, Continue, TypeOK, Ticked, database, memory, bounds
  <2>8. CASE CreateGroupFails
    BY <2>8 DEF CreateGroupFails, Error, TypeOK, Ticked, database, memory
  <2>9. CASE Read
    <3> DEFINE new == Ticks(group + 1, AfterRead)
    <3>1. /\ AfterRead \in group .. published
          /\ new \in Seq(1 .. AfterRead)
      BY ReadResult, SeqMonotone DEF TypeOK
    <3>2. /\ buffer \in Seq(1 .. AfterRead) /\ batch \in Seq(1 .. AfterRead)
          /\ lastBatch \in Seq(1 .. AfterRead)
      BY <3>1, SeqMonotone DEF TypeOK, Ticked
    <3>3. buffer \o new \in Seq(1 .. AfterRead)
      BY <3>1, <3>2
    <3> HIDE DEF new
    <3>4. /\ buffer' \in Seq(1 .. AfterRead) /\ batch' \in Seq(1 .. AfterRead)
          /\ reader' \in {"flush", "read", "stopped"}
          /\ reader' # "flush" => batch' = <<>>
      <4>1. CASE group < published
        BY <2>9, <4>1, <3>1, <3>2, <3>3
           DEF Read, ReadSome, BeginFlush, Continue, TypeOK, new
      <4>2. CASE ~(group < published)
        BY <2>9, <4>2, <3>1, <3>2 DEF Read, ReadNone, BeginFlush, Continue, TypeOK
      <4> QED
        BY <4>1, <4>2
    <3>5. group' = AfterRead /\ UNCHANGED <<published, rows, stopper, running, lastBatch, bounds>>
      BY <2>9 DEF Read
    <3> QED
      BY <3>1, <3>2, <3>4, <3>5 DEF TypeOK, Ticked, bounds
  <2>10. CASE ReadFails
    <3>1. group' \in group .. published
      BY <2>10, ReadResult DEF ReadFails, TypeOK
    <3>2. /\ buffer \in Seq(1 .. group') /\ batch \in Seq(1 .. group')
          /\ lastBatch \in Seq(1 .. group')
      BY <3>1, SeqMonotone DEF TypeOK, Ticked
    <3> QED
      BY <2>10, <3>1, <3>2 DEF ReadFails, Error, TypeOK, Ticked, memory
  <2>11. CASE Flush
    BY <2>11, InsertType DEF Flush, Continue, TypeOK, Ticked, bounds
  <2>12. CASE FlushFails
    <3>1. buffer' \in Ticked /\ rows' \in [1 .. MaxStream -> Nat]
      BY <2>12, ReturnedType, InsertType DEF FlushFails, TypeOK
    <3> QED
      BY <2>12, <3>1 DEF FlushFails, Error, TypeOK, Ticked
  <2>13. CASE StopFlush
    BY <2>13, InsertType DEF StopFlush, TypeOK, Ticked, bounds
  <2>14. CASE StopFlushFails
    <3>1. buffer' \in Ticked /\ rows' \in [1 .. MaxStream -> Nat]
      BY <2>14, ReturnedType, InsertType DEF StopFlushFails, TypeOK
    <3> QED
      BY <2>14, <3>1 DEF StopFlushFails, Error, TypeOK, Ticked
  <2>15. CASE UNCHANGED vars
    BY <2>15 DEF vars, database, memory, bounds, TypeOK, Ticked
  <2> QED
    BY <2>1, <2>2, <2>3, <2>4, <2>5, <2>6, <2>7, <2>8, <2>9, <2>10, <2>11, <2>12,
       <2>13, <2>14, <2>15 DEF Next, ReaderStep, StopStep, Fault
<1> QED
  BY <1>1, <1>2, PTL DEF Spec

----------------------------------------------------------------------------------
(* The bound on the memory. *)

Size == Len(buffer) + Len(batch) + Len(lastBatch)

\* The inductive form of MemoryBounded: a read adds to at most Requeue ticks, because
\* a failed flush comes back to an empty buffer, or after the last read.
Bounded ==
  /\ MemoryBounded
  /\ running => stopper = "idle"
  /\ reader = "read" \/ (reader \in {"group", "sleep"} /\ running) => Size <= Requeue
  /\ reader = "flush" /\ stopper = "idle" => buffer = <<>>
  /\ reader \in {"down", "none"} => Size = 0 /\ stopper = "idle"

LEMMA Lengths ==
  ASSUME TypeOK
  PROVE  /\ Len(buffer) \in Nat /\ Len(batch) \in Nat /\ Len(lastBatch) \in Nat
         /\ Len(<<>>) = 0
         /\ reader # "flush" => Len(batch) = 0
         /\ stopper # "flush" => Len(lastBatch) = 0
         /\ Requeue \in Nat /\ batch_size \in Nat /\ batch_size <= Requeue
BY LenProperties, EmptyTicked, WriterAssumption DEF TypeOK, Ticked

\* BatchWriter: the writer never holds more than Requeue + batch_size ticks, however
\* long the database is down and whichever task puts a failed batch back.
THEOREM MemoryBound == Spec => []MemoryBounded
<1>1. Init => Bounded
  BY EmptyTicked, WriterAssumption DEF Init, Bounded, MemoryBounded, Size
<1>2. TypeOK /\ TypeOK' /\ Bounded /\ [Next]_vars => Bounded'
  <2> SUFFICES ASSUME TypeOK, TypeOK', Bounded, [Next]_vars
               PROVE  Bounded'
    OBVIOUS
  <2>0. /\ Len(buffer) \in Nat /\ Len(batch) \in Nat /\ Len(lastBatch) \in Nat
        /\ Len(<<>>) = 0
        /\ reader # "flush" => Len(batch) = 0
        /\ stopper # "flush" => Len(lastBatch) = 0
        /\ Requeue \in Nat /\ batch_size \in Nat /\ batch_size <= Requeue
    BY Lengths
  <2> USE DEF Bounded, MemoryBounded, Size
  <2>1. CASE Publish \/ UNCHANGED vars
    BY <2>1 DEF Publish, vars, memory
  <2>2. CASE Boot
    <3>1. Size' = 0 /\ stopper' = "idle" /\ reader' = "group"
      BY <2>2, <2>0 DEF Boot
    <3> QED
      BY <3>1, <2>0
  <2>3. CASE BootWithoutWriter \/ CreateGroupFails
    BY <2>3 DEF BootWithoutWriter, CreateGroupFails, memory
  <2>4. CASE Crash \/ Exit
    BY <2>4, <2>0 DEF Crash, Exit, End
  <2>5. CASE Stop
    BY <2>5, <2>0 DEF Stop
  <2>6. CASE CreateGroup \/ Wake
    BY <2>6, <2>0 DEF CreateGroup, Wake, Continue, memory
  <2>7. CASE Read
    <3> DEFINE new == Ticks(group + 1, AfterRead)
    <3>1. /\ Len(new) \in Nat /\ Len(new) <= batch_size
          /\ Len(buffer \o new) = Len(buffer) + Len(new)
      <4>1. new \in Seq(1 .. AfterRead) /\ buffer \in Seq(1 .. AfterRead)
        <5>1. AfterRead \in group .. published
          BY ReadResult
        <5>2. 1 .. group \subseteq 1 .. AfterRead /\ (group + 1) .. AfterRead \subseteq 1 .. AfterRead
          BY <5>1 DEF TypeOK
        <5> QED
          BY <5>2, ReadResult, SeqMonotone DEF TypeOK, Ticked
      <4> QED
        BY <4>1, ReadResult, LenProperties, ConcatProperties
    <3> HIDE DEF new
    <3>2. Len(buffer') + Len(batch') <= Len(buffer) + batch_size
      <4>1. CASE group < published
        BY <2>7, <4>1, <3>1, <2>0 DEF Read, ReadSome, BeginFlush, new
      <4>2. CASE ~(group < published)
        BY <2>7, <4>2, <2>0 DEF Read, ReadNone, BeginFlush
      <4> QED
        BY <4>1, <4>2
    <3>3. reader' = "flush" => buffer' = <<>>
      BY <2>7 DEF Read, ReadSome, ReadNone, BeginFlush, Continue
    <3>4. /\ reader' \in {"flush", "read", "stopped"}
          /\ reader' = "read" => running /\ Len(buffer') <= batch_size /\ Len(batch') = 0
      <4>1. CASE group < published
        BY <2>7, <4>1, <3>1, <2>0 DEF Read, ReadSome, BeginFlush, Continue, new
      <4>2. CASE ~(group < published)
        BY <2>7, <4>2, <2>0 DEF Read, ReadNone, BeginFlush, Continue
      <4> QED
        BY <4>1, <4>2
    <3>5. reader = "read" /\ UNCHANGED <<stopper, running, lastBatch>>
      BY <2>7 DEF Read
    <3>6. Len(buffer') \in Nat /\ Len(batch') \in Nat
      BY LenProperties DEF TypeOK, Ticked
    <3> QED
      BY <3>2, <3>3, <3>4, <3>5, <3>6, <2>0
  <2>8. CASE ReadFails
    BY <2>8, <2>0 DEF ReadFails, memory
  <2>9. CASE Flush
    BY <2>9, <2>0 DEF Flush, Continue
  <2>10. CASE FlushFails
    <3>1. /\ Len(buffer') <= Len(buffer) + Requeue
          /\ Len(buffer') <= Len(buffer) + Len(batch)
      BY <2>10, ReturnedType DEF FlushFails, TypeOK
    <3>2. Len(buffer') \in Nat
      BY LenProperties DEF TypeOK, Ticked
    <3> QED
      BY <2>10, <2>0, <3>1, <3>2 DEF FlushFails
  <2>11. CASE StopFlush
    BY <2>11, <2>0 DEF StopFlush
  <2>12. CASE StopFlushFails
    <3>1. Len(buffer') <= Len(buffer) + Len(lastBatch)
      BY <2>12, ReturnedType DEF StopFlushFails, TypeOK
    <3>2. Len(buffer') \in Nat
      BY LenProperties DEF TypeOK, Ticked
    <3> QED
      BY <2>12, <2>0, <3>1, <3>2 DEF StopFlushFails
  <2> QED
    BY <2>1, <2>2, <2>3, <2>4, <2>5, <2>6, <2>7, <2>8, <2>9, <2>10, <2>11, <2>12
       DEF Next, ReaderStep, StopStep, Fault
<1>3. Bounded => MemoryBounded
  BY DEF Bounded
<1> QED
  BY <1>1, <1>2, <1>3, TypeCorrect, PTL DEF Spec

----------------------------------------------------------------------------------
(* No tick is written twice without a fault. *)

LEMMA InConcat ==
  ASSUME NEW S, NEW s \in Seq(S), NEW t \in Seq(S), NEW n
  PROVE  In(n, s \o t) <=> In(n, s) \/ In(n, t)
<1>1. /\ Len(s) \in Nat /\ Len(t) \in Nat
      /\ DOMAIN s = 1 .. Len(s) /\ DOMAIN t = 1 .. Len(t)
      /\ DOMAIN (s \o t) = 1 .. Len(s) + Len(t)
      /\ \A i \in 1 .. Len(s) + Len(t) :
           (s \o t)[i] = IF i <= Len(s) THEN s[i] ELSE t[i - Len(s)]
  BY LenProperties, ConcatProperties
<1>2. ASSUME In(n, s \o t) PROVE In(n, s) \/ In(n, t)
  <2>1. PICK i \in 1 .. Len(s) + Len(t) : (s \o t)[i] = n
    BY <1>1, <1>2 DEF In
  <2>2. CASE i <= Len(s)
    BY <1>1, <2>1, <2>2 DEF In
  <2>3. CASE ~(i <= Len(s))
    <3>1. i - Len(s) \in DOMAIN t /\ t[i - Len(s)] = n
      BY <1>1, <2>1, <2>3
    <3> QED
      BY <3>1 DEF In
  <2> QED
    BY <2>2, <2>3
<1>3. ASSUME In(n, s) PROVE In(n, s \o t)
  <2>1. PICK i \in 1 .. Len(s) : s[i] = n
    BY <1>1, <1>3 DEF In
  <2>2. i \in 1 .. Len(s) + Len(t) /\ (s \o t)[i] = n
    BY <1>1, <2>1
  <2> QED
    BY <1>1, <2>2 DEF In
<1>4. ASSUME In(n, t) PROVE In(n, s \o t)
  <2>1. PICK i \in 1 .. Len(t) : t[i] = n
    BY <1>1, <1>4 DEF In
  <2>2. /\ i + Len(s) \in 1 .. Len(s) + Len(t) /\ ~(i + Len(s) <= Len(s))
        /\ i + Len(s) - Len(s) = i
    BY <1>1, <2>1
  <2>3. (s \o t)[i + Len(s)] = n
    BY <1>1, <2>1, <2>2
  <2> QED
    BY <1>1, <2>2, <2>3 DEF In
<1> QED
  BY <1>2, <1>3, <1>4

LEMMA DistinctConcat ==
  ASSUME NEW S, NEW s \in Seq(S), NEW t \in Seq(S), Distinct(s), Distinct(t),
         \A n \in S : ~(In(n, s) /\ In(n, t))
  PROVE  Distinct(s \o t)
<1>1. /\ Len(s) \in Nat /\ Len(t) \in Nat
      /\ DOMAIN s = 1 .. Len(s) /\ DOMAIN t = 1 .. Len(t)
      /\ DOMAIN (s \o t) = 1 .. Len(s) + Len(t)
      /\ \A i \in 1 .. Len(s) + Len(t) :
           (s \o t)[i] = IF i <= Len(s) THEN s[i] ELSE t[i - Len(s)]
  BY LenProperties, ConcatProperties
<1>2. \A i \in 1 .. Len(s), j \in 1 .. Len(t) : s[i] # t[j]
  <2> SUFFICES ASSUME NEW i \in 1 .. Len(s), NEW j \in 1 .. Len(t), s[i] = t[j]
               PROVE  FALSE
    OBVIOUS
  <2>1. s[i] \in S /\ In(s[i], s) /\ In(s[i], t)
    BY <1>1, ElementOfSeq DEF In
  <2> QED
    BY <2>1
<1> SUFFICES ASSUME NEW i \in 1 .. Len(s) + Len(t), NEW j \in 1 .. Len(s) + Len(t),
                    (s \o t)[i] = (s \o t)[j]
             PROVE  i = j
  BY <1>1 DEF Distinct
<1>3. CASE i <= Len(s) /\ j <= Len(s)
  BY <1>1, <1>3 DEF Distinct
<1>4. CASE i <= Len(s) /\ ~(j <= Len(s))
  <2>1. i \in 1 .. Len(s) /\ j - Len(s) \in 1 .. Len(t) /\ s[i] = t[j - Len(s)]
    BY <1>1, <1>4
  <2> QED
    BY <1>2, <2>1
<1>5. CASE ~(i <= Len(s)) /\ j <= Len(s)
  <2>1. j \in 1 .. Len(s) /\ i - Len(s) \in 1 .. Len(t) /\ s[j] = t[i - Len(s)]
    BY <1>1, <1>5
  <2> QED
    BY <1>2, <2>1
<1>6. CASE ~(i <= Len(s)) /\ ~(j <= Len(s))
  <2>1. /\ i - Len(s) \in 1 .. Len(t) /\ j - Len(s) \in 1 .. Len(t)
        /\ t[i - Len(s)] = t[j - Len(s)]
    BY <1>1, <1>6
  <2>2. i - Len(s) = j - Len(s)
    BY <1>1, <2>1 DEF Distinct
  <2> QED
    BY <1>1, <2>2
<1> QED
  BY <1>3, <1>4, <1>5, <1>6

\* Entries of a typed sequence are ticks the group delivered.
LEMMA InTicked ==
  ASSUME NEW s \in Ticked, NEW n, In(n, s)
  PROVE  n \in 1 .. group
BY ElementOfSeq, LenProperties DEF Ticked, In

LEMMA ReturnedTicks ==
  ASSUME TypeOK, NEW ticks \in Ticked, Distinct(ticks), Distinct(buffer),
         \A n \in 1 .. group : ~(In(n, ticks) /\ In(n, buffer))
  PROVE  /\ Distinct(Returned(ticks))
         /\ \A n : In(n, Returned(ticks)) => In(n, ticks) \/ In(n, buffer)
         /\ \A n : In(n, buffer) => In(n, Returned(ticks))
<1> DEFINE k == Least(Len(ticks), Requeue)
           back == SubSeq(ticks, 1, k)
<1>1. /\ Len(ticks) \in Nat /\ DOMAIN ticks = 1 .. Len(ticks)
      /\ \A i \in 1 .. Len(ticks) : ticks[i] \in 1 .. group
      /\ k \in 0 .. Len(ticks)
  <2>1. /\ Len(ticks) \in Nat /\ DOMAIN ticks = 1 .. Len(ticks)
        /\ \A i \in 1 .. Len(ticks) : ticks[i] \in 1 .. group
    BY LenProperties, ElementOfSeq DEF Ticked
  <2>2. Requeue \in Nat
    BY WriterAssumption
  <2> QED
    BY <2>1, <2>2 DEF Least
<1>2. /\ back \in Seq(1 .. group) /\ DOMAIN back = 1 .. k
      /\ \A i \in 1 .. k : back[i] = ticks[i]
  <2>1. \A i \in 1 .. k : ticks[i] \in 1 .. group
    BY <1>1
  <2>2. /\ back \in Seq(1 .. group)
        /\ Len(back) = IF 1 <= k THEN k - 1 + 1 ELSE 0
        /\ \A i \in 1 .. k - 1 + 1 : back[i] = ticks[1 + i - 1]
    BY <1>1, <2>1, SubSeqProperties
  <2> QED
    BY <1>1, <2>2, LenProperties
<1>3. Returned(ticks) = back \o buffer
  BY DEF Returned
<1> HIDE DEF back, k
<1>4. Distinct(back) /\ \A n : In(n, back) => In(n, ticks)
  BY <1>1, <1>2 DEF Distinct, In
<1>5. buffer \in Seq(1 .. group)
  BY DEF TypeOK, Ticked
<1>6. \A n : In(n, back \o buffer) <=> In(n, back) \/ In(n, buffer)
  BY <1>2, <1>5, InConcat
<1>7. Distinct(back \o buffer)
  <2>1. \A n \in 1 .. group : ~(In(n, back) /\ In(n, buffer))
    BY <1>4
  <2> QED
    BY <1>2, <1>4, <1>5, <2>1, DistinctConcat
<1> QED
  BY <1>3, <1>4, <1>6, <1>7

\* The inductive form of WrittenOnce: a tick not delivered yet has no row.
Once == WrittenOnce /\ \A n \in 1 .. MaxStream : n > group => rows[n] = 0

LEMMA Emptied == Distinct(<<>>) /\ \A n : ~In(n, <<>>)
BY DEF Distinct, In

LEMMA InMemory ==
  ASSUME TypeOK
  PROVE  \A n : In(n, buffer) \/ In(n, batch) \/ In(n, lastBatch) => n \in 1 .. group
BY InTicked DEF TypeOK

\* A step that leaves the three sequences as they are, or empties them.
LEMMA OnceKept ==
  ASSUME TypeOK, Once, rows' = rows, errors' \in {errors, errors + 1},
         group' \in group .. MaxStream,
         \/ UNCHANGED <<buffer, batch, lastBatch>>
         \/ buffer' = <<>> /\ batch' = <<>> /\ lastBatch' = <<>>
  PROVE  Once'
<1>1. /\ Distinct(buffer)' /\ Distinct(batch)' /\ Distinct(lastBatch)'
      /\ \A n : /\ In(n, buffer') => In(n, buffer)
                /\ In(n, batch') => In(n, batch)
                /\ In(n, lastBatch') => In(n, lastBatch)
  BY Emptied DEF Once, WrittenOnce
<1>2. group \in Nat /\ group' \in Nat /\ errors \in Nat /\ errors <= errors'
      /\ group <= group' /\ MaxStream \in Nat /\ group <= MaxStream /\ group' <= MaxStream
      /\ rows \in [1 .. MaxStream -> Nat]
  BY WriterAssumption DEF TypeOK
<1>3. ASSUME NEW n \in 1 .. group'
      PROVE  /\ ~(In(n, buffer') /\ In(n, batch'))
             /\ ~(In(n, buffer') /\ In(n, lastBatch'))
             /\ ~(In(n, batch') /\ In(n, lastBatch'))
             /\ rows'[n] + (IF Held(n)' THEN 1 ELSE 0) <= 1 + errors'
  <2>1. CASE n \in 1 .. group
    <3>1. rows[n] + (IF Held(n) THEN 1 ELSE 0) <= 1 + errors /\ rows[n] \in Nat
      BY <1>2, <2>1 DEF Once, WrittenOnce
    <3>2. Held(n)' => Held(n)
      BY <1>1 DEF Held
    <3>3. rows'[n] + (IF Held(n)' THEN 1 ELSE 0) <= 1 + errors'
      BY <1>2, <3>1, <3>2
    <3> QED
      BY <1>1, <2>1, <3>3 DEF Once, WrittenOnce
  <2>2. CASE n \notin 1 .. group
    <3>1. rows[n] = 0
      BY <1>2, <2>2 DEF Once
    <3>2. ~In(n, buffer') /\ ~In(n, batch') /\ ~In(n, lastBatch') /\ ~Held(n)'
      BY <1>1, <2>2, InMemory DEF Held
    <3>3. n \in 1 .. MaxStream /\ rows'[n] = 0
      BY <1>2, <3>1
    <3>4. rows'[n] + (IF Held(n)' THEN 1 ELSE 0) = 0
      BY <3>2, <3>3
    <3> QED
      BY <1>2, <3>2, <3>4
  <2> QED
    BY <2>1, <2>2
<1>4. \A n \in 1 .. MaxStream : n > group' => rows'[n] = 0
  BY <1>2 DEF Once
<1> QED
  BY <1>1, <1>3, <1>4 DEF Once, WrittenOnce

LEMMA InsertRows ==
  ASSUME TypeOK, NEW ticks, NEW n \in 1 .. MaxStream
  PROVE  Insert(ticks)[n] = rows[n] + (IF In(n, ticks) THEN 1 ELSE 0)
BY DEF TypeOK, Insert, In

\* The end of a flush: the ticks flushed leave memory, all of them with a row, or some
\* of them go back to the buffer and an error is counted.
LEMMA OnceFlushed ==
  ASSUME TypeOK, Once, group' = group,
         NEW flushed,
         \/ flushed = batch /\ batch' = <<>> /\ lastBatch' = lastBatch
         \/ flushed = lastBatch /\ lastBatch' = <<>> /\ batch' = batch,
         \/ rows' = Insert(flushed) /\ errors' = errors /\ buffer' = buffer
         \/ /\ rows' \in {rows, Insert(flushed)} /\ errors' = errors + 1
            /\ buffer' = Returned(flushed)
  PROVE  Once'
<1>1. /\ flushed \in Ticked /\ Distinct(flushed) /\ Distinct(buffer)
      /\ \A n \in 1 .. group : ~(In(n, flushed) /\ In(n, buffer))
  BY DEF TypeOK, Once, WrittenOnce
<1>2. /\ Distinct(buffer')
      /\ \A n : In(n, buffer') => In(n, flushed) \/ In(n, buffer)
  BY <1>1, ReturnedTicks
<1>3. /\ Distinct(batch') /\ Distinct(lastBatch')
      /\ \A n : /\ In(n, batch') => In(n, batch)
                /\ In(n, lastBatch') => In(n, lastBatch)
  BY Emptied DEF Once, WrittenOnce
<1>4. \A n \in 1 .. group : In(n, flushed) => ~In(n, batch') /\ ~In(n, lastBatch')
  BY Emptied DEF Once, WrittenOnce
<1>5. ASSUME NEW n \in 1 .. group
      PROVE  rows'[n] + (IF Held(n)' THEN 1 ELSE 0) <= 1 + errors'
  <2>1. /\ rows[n] + (IF Held(n) THEN 1 ELSE 0) <= 1 + errors
        /\ rows[n] \in Nat /\ errors \in Nat /\ n \in 1 .. MaxStream
    BY WriterAssumption DEF TypeOK, Once, WrittenOnce
  <2>2. Insert(flushed)[n] = rows[n] + (IF In(n, flushed) THEN 1 ELSE 0)
    BY <2>1, InsertRows
  <2>3. In(n, flushed) => Held(n)
    BY DEF Held
  <2>4. CASE rows' = Insert(flushed) /\ errors' = errors /\ buffer' = buffer
    <3>1. Held(n)' => Held(n) /\ ~In(n, flushed)
      BY <1>1, <1>3, <1>4, <2>4 DEF Held
    <3> QED
      BY <2>1, <2>2, <2>3, <2>4, <3>1
  <2>5. CASE rows' \in {rows, Insert(flushed)} /\ errors' = errors + 1
    <3>1. Held(n)' => Held(n)
      BY <1>2, <1>3, <2>3 DEF Held
    <3> QED
      BY <2>1, <2>2, <2>3, <2>5, <3>1
  <2> QED
    BY <2>4, <2>5
<1>6. ASSUME NEW n \in 1 .. group
      PROVE  /\ ~(In(n, buffer') /\ In(n, batch'))
             /\ ~(In(n, buffer') /\ In(n, lastBatch'))
             /\ ~(In(n, batch') /\ In(n, lastBatch'))
  BY <1>2, <1>3, <1>4 DEF Once, WrittenOnce
<1>7. \A n \in 1 .. MaxStream : n > group' => rows'[n] = 0
  <2> SUFFICES ASSUME NEW n \in 1 .. MaxStream, n > group
               PROVE  rows'[n] = 0
    OBVIOUS
  <2>1. ~In(n, flushed)
    <3>1. group \in Nat /\ n \notin 1 .. group
      BY DEF TypeOK
    <3> QED
      BY <1>1, <3>1, InTicked
  <2>2. Insert(flushed)[n] = 0 /\ rows[n] = 0
    BY <2>1, InsertRows DEF Once
  <2> QED
    BY <2>2
<1> QED
  BY <1>2, <1>3, <1>5, <1>6, <1>7 DEF Once, WrittenOnce

LEMMA OnceAlways == Spec => []Once
<1>1. Init => Once
  <2> SUFFICES ASSUME Init PROVE Once
    OBVIOUS
  <2>1. /\ group = 0 /\ buffer = <<>> /\ batch = <<>> /\ lastBatch = <<>>
        /\ rows = [n \in 1 .. MaxStream |-> 0]
    BY DEF Init
  <2> QED
    BY <2>1, Emptied DEF Once, WrittenOnce
<1>2. TypeOK /\ TypeOK' /\ Once /\ [Next]_vars => Once'
  <2> SUFFICES ASSUME TypeOK, TypeOK', Once, [Next]_vars
               PROVE  Once'
    OBVIOUS
  <2>0. group \in 0 .. MaxStream /\ group' \in 0 .. MaxStream /\ errors \in Nat
    BY WriterAssumption DEF TypeOK
  <2>1. CASE Publish \/ Boot \/ BootWithoutWriter \/ CreateGroup \/ CreateGroupFails \/ Wake
             \/ UNCHANGED vars
    <3>1. /\ UNCHANGED <<buffer, batch, lastBatch, rows, group>>
          /\ errors' \in {errors, errors + 1}
      BY <2>1 DEF Publish, Boot, BootWithoutWriter, CreateGroup, CreateGroupFails, Wake,
                  Error, vars, database, memory, bounds
    <3> QED
      BY <2>0, <3>1, OnceKept
  <2>2. CASE Crash \/ Exit
    BY <2>0, <2>2, OnceKept DEF Crash, Exit, End, database, bounds
  <2>3. CASE Stop
    <3>1. /\ lastBatch = <<>> /\ lastBatch' = buffer /\ buffer' = <<>>
          /\ UNCHANGED <<batch, rows, group, errors>>
      BY <2>3 DEF Stop, TypeOK, database
    <3>2. \A n : Held(n)' <=> Held(n)
      BY <3>1, Emptied DEF Held
    <3> QED
      BY <3>1, <3>2, Emptied DEF Once, WrittenOnce
  <2>4. CASE Read
    <3> DEFINE new == Ticks(group + 1, AfterRead)
    <3>1. /\ AfterRead \in group .. published /\ published <= MaxStream
          /\ new \in Seq(1 .. AfterRead) /\ buffer \in Seq(1 .. AfterRead)
          /\ \A n : In(n, new) => n \in (group + 1) .. AfterRead
          /\ Distinct(new)
      <4>1. /\ AfterRead \in group .. published /\ published \in Nat /\ published <= MaxStream
            /\ group \in Nat /\ MaxStream \in Nat
        BY ReadResult, WriterAssumption DEF TypeOK
      <4>2. 1 .. group \subseteq 1 .. AfterRead /\ (group + 1) .. AfterRead \subseteq 1 .. AfterRead
        BY <4>1
      <4>3. new \in Seq((group + 1) .. AfterRead)
        BY ReadResult
      <4>4. /\ Len(new) \in Nat /\ DOMAIN new = 1 .. Len(new)
            /\ \A i \in 1 .. Len(new) : new[i] \in (group + 1) .. AfterRead
        BY <4>3, LenProperties, ElementOfSeq
      <4>5. \A i \in 1 .. Len(new) : new[i] = group + i
        BY ReadResult
      <4> HIDE DEF new
      <4>6. Distinct(new)
        BY <4>1, <4>4, <4>5 DEF Distinct
      <4> QED
        BY <4>1, <4>2, <4>3, <4>4, <4>6, SeqMonotone DEF TypeOK, Ticked, In
    <3>2. /\ \A n : In(n, buffer \o new) => In(n, buffer) \/ In(n, new)
          /\ Distinct(buffer \o new)
      <4>1. \A n \in 1 .. AfterRead : ~(In(n, buffer) /\ In(n, new))
        <5>1. \A n : In(n, buffer) => n \in 1 .. group
          BY InMemory
        <5> QED
          BY <3>1, <5>1, <2>0
      <4>2. Distinct(buffer)
        BY DEF Once, WrittenOnce
      <4> QED
        BY <3>1, <4>1, <4>2, InConcat, DistinctConcat
    <3> HIDE DEF new
    <3>3. /\ group' = AfterRead /\ UNCHANGED <<rows, errors, lastBatch>> /\ batch = <<>>
      BY <2>4 DEF Read, TypeOK, bounds
    <3>4. PICK held \in {buffer, buffer \o new} :
            \/ buffer' = held /\ batch' = <<>>
            \/ buffer' = <<>> /\ batch' = held
      <4>1. CASE group < published
        BY <2>4, <4>1, <3>3 DEF Read, ReadSome, BeginFlush, new
      <4>2. CASE ~(group < published)
        BY <2>4, <4>2, <3>3 DEF Read, ReadNone, BeginFlush
      <4> QED
        BY <4>1, <4>2
    <3>5. /\ Distinct(buffer') /\ Distinct(batch') /\ Distinct(lastBatch')
          /\ \A n : ~(In(n, buffer') /\ In(n, batch'))
          /\ \A n : In(n, buffer') \/ In(n, batch') => In(n, buffer) \/ In(n, new)
      BY <3>2, <3>3, <3>4, Emptied DEF Once, WrittenOnce
    <3>6. ASSUME NEW n \in 1 .. group'
          PROVE  /\ ~(In(n, buffer') /\ In(n, lastBatch'))
                 /\ ~(In(n, batch') /\ In(n, lastBatch'))
                 /\ rows'[n] + (IF Held(n)' THEN 1 ELSE 0) <= 1 + errors'
      <4>1. n \in 1 .. MaxStream /\ rows[n] \in Nat /\ n \in Nat
        <5>1. n \in 1 .. MaxStream /\ n \in Nat
          BY <2>0, WriterAssumption
        <5> QED
          BY <5>1 DEF TypeOK
      <4>2. CASE n \in 1 .. group
        <5>1. ~In(n, new)
          BY <2>0, <3>1, <4>2
        <5>2. Held(n)' => Held(n)
          BY <3>3, <3>5, <5>1 DEF Held
        <5>3. rows[n] + (IF Held(n) THEN 1 ELSE 0) <= 1 + errors
          BY <4>2 DEF Once, WrittenOnce
        <5>4. rows'[n] + (IF Held(n)' THEN 1 ELSE 0) <= 1 + errors'
          BY <2>0, <3>3, <4>1, <5>2, <5>3
        <5> QED
          BY <3>3, <3>5, <4>2, <5>1, <5>4 DEF Once, WrittenOnce
      <4>3. CASE n \notin 1 .. group
        <5>1. rows'[n] = 0
          BY <2>0, <3>3, <4>1, <4>3 DEF Once
        <5>2. ~In(n, lastBatch')
          BY <3>3, <4>3, InMemory
        <5>3. rows'[n] + (IF Held(n)' THEN 1 ELSE 0) <= 1 + errors'
          BY <2>0, <3>3, <5>1
        <5> QED
          BY <5>2, <5>3
      <4> QED
        BY <4>2, <4>3
    <3>7. \A n \in 1 .. MaxStream : n > group' => rows'[n] = 0
      BY <2>0, <3>1, <3>3 DEF Once
    <3> QED
      BY <3>5, <3>6, <3>7 DEF Once, WrittenOnce
  <2>5. CASE ReadFails
    <3>1. /\ UNCHANGED <<buffer, batch, lastBatch, rows>>
          /\ errors' = errors + 1 /\ group' \in {group, AfterRead}
      BY <2>5 DEF ReadFails, Error, memory
    <3>2. group' \in group .. MaxStream
      BY <2>0, <3>1, ReadResult DEF TypeOK
    <3> QED
      BY <3>1, <3>2, OnceKept
  <2>6. CASE Flush
    BY <2>6, OnceFlushed DEF Flush, bounds
  <2>7. CASE FlushFails
    BY <2>7, OnceFlushed DEF FlushFails, Error
  <2>8. CASE StopFlush
    BY <2>8, OnceFlushed DEF StopFlush, bounds
  <2>9. CASE StopFlushFails
    BY <2>9, OnceFlushed DEF StopFlushFails, Error
  <2> QED
    BY <2>1, <2>2, <2>3, <2>4, <2>5, <2>6, <2>7, <2>8, <2>9
       DEF Next, ReaderStep, StopStep, Fault
<1> QED
  BY <1>1, <1>2, TypeCorrect, PTL DEF Spec

\* BatchWriter: no tick is in memory twice, and one has a second row only after a
\* call that failed.
THEOREM Written == Spec => []WrittenOnce
<1>1. Once => WrittenOnce
  BY DEF Once
<1> QED
  BY <1>1, OnceAlways, PTL
----------------------------------------------------------------------------------
(* Nothing is lost until something fails. *)

Undisturbed == errors = 0 /\ crashes = 0 /\ stops = 0

\* The inductive form of NothingLost: without a shutdown no second task flushes.
Intact ==
  Undisturbed => stopper = "idle" /\ \A n \in 1 .. group : Held(n) \/ rows[n] = 1

\* A read takes every tick up to the last one delivered.
LEMMA ReadsAll ==
  ASSUME TypeOK, NEW n \in (group + 1) .. AfterRead
  PROVE  In(n, Ticks(group + 1, AfterRead))
<1>1. group \in Nat /\ AfterRead \in Nat
  BY ReadResult DEF TypeOK
<1>2. n - group \in 1 .. AfterRead + 1 - (group + 1) /\ (group + 1) + (n - group) - 1 = n
  BY <1>1
<1> QED
  BY <1>2 DEF Ticks, In

\* A step that leaves the table and the ticks in memory as they are.
LEMMA IntactKept ==
  ASSUME TypeOK, TypeOK', Intact,
         UNCHANGED <<buffer, batch, lastBatch, rows, group, stopper>>,
         errors' \in {errors, errors + 1}, crashes' = crashes, stops' = stops
  PROVE  Intact'
<1>1. Undisturbed' => Undisturbed
  BY DEF Undisturbed, TypeOK
<1> QED
  BY <1>1 DEF Intact, Held

LEMMA IntactStep ==
  ASSUME TypeOK, TypeOK', Once, Intact, [Next]_vars
  PROVE  Intact'
<1>1. CASE Publish \/ Boot \/ BootWithoutWriter \/ CreateGroup \/ CreateGroupFails \/ Wake
           \/ UNCHANGED vars
  <2>1. /\ UNCHANGED <<buffer, batch, lastBatch, rows, group, stopper, crashes, stops>>
        /\ errors' \in {errors, errors + 1}
    BY <1>1 DEF Publish, Boot, BootWithoutWriter, CreateGroup, CreateGroupFails, Wake,
                Error, vars, database, memory, bounds
  <2> QED
    BY <2>1, IntactKept
<1>2. CASE Crash \/ Stop \/ ReadFails \/ FlushFails \/ StopFlushFails
  <2>1. ~Undisturbed'
    BY <1>2 DEF Crash, Stop, ReadFails, FlushFails, StopFlushFails, Error, Undisturbed, TypeOK
  <2> QED
    BY <2>1 DEF Intact
\* Nobody shuts the writer down.
<1>3. CASE Exit \/ StopFlush
  <2>1. stopper # "idle" /\ (Undisturbed' => Undisturbed)
    BY <1>3 DEF Exit, StopFlush, Undisturbed, bounds
  <2> QED
    BY <2>1 DEF Intact
<1>4. CASE Read
  <2> DEFINE new == Ticks(group + 1, AfterRead)
  <2>1. /\ group' = AfterRead /\ batch = <<>>
        /\ UNCHANGED <<rows, stopper, lastBatch, errors, crashes, stops>>
    BY <1>4 DEF Read, TypeOK, bounds
  <2>2. group \in Nat /\ AfterRead \in group .. published /\ published \in Nat
    BY ReadResult DEF TypeOK
  <2>3. \A n : In(n, buffer \o new) <=> In(n, buffer) \/ In(n, new)
    <3>1. new \in Seq((group + 1) .. AfterRead)
      BY ReadResult
    <3>2. (group + 1) .. AfterRead \subseteq Nat /\ 1 .. group \subseteq Nat
      BY <2>2
    <3> HIDE DEF new
    <3>3. new \in Seq(Nat) /\ buffer \in Seq(Nat)
      BY <3>1, <3>2, SeqMonotone DEF TypeOK, Ticked
    <3> QED
      BY <3>3, InConcat
  <2>4. \A n \in 1 .. AfterRead : n \in 1 .. group \/ In(n, new)
    BY <2>2, ReadsAll
  <2> HIDE DEF new
  <2>5. CASE group < published
    <3>1. (buffer' = buffer \o new /\ batch' = batch) \/ (buffer' = <<>> /\ batch' = buffer \o new)
      BY <1>4, <2>5 DEF Read, ReadSome, BeginFlush, new
    <3>2. \A n : Held(n)' <=> Held(n) \/ In(n, new)
      BY <2>1, <2>3, <3>1, Emptied DEF Held
    <3> QED
      BY <2>1, <2>4, <3>2 DEF Intact, Undisturbed
  <2>6. CASE ~(group < published)
    <3>1. (buffer' = buffer /\ batch' = batch) \/ (buffer' = <<>> /\ batch' = buffer)
      BY <1>4, <2>6 DEF Read, ReadNone, BeginFlush
    <3>2. \A n : Held(n)' <=> Held(n)
      BY <2>1, <3>1, Emptied DEF Held
    <3>3. AfterRead = group
      BY <2>2, <2>6
    <3> QED
      BY <2>1, <3>2, <3>3 DEF Intact, Undisturbed
  <2> QED
    BY <2>5, <2>6
<1>5. CASE Flush
  <2>1. /\ batch' = <<>> /\ rows' = Insert(batch)
        /\ UNCHANGED <<group, buffer, lastBatch, stopper, errors, crashes, stops>>
    BY <1>5 DEF Flush, bounds
  <2>2. ASSUME NEW n \in 1 .. group, Undisturbed
        PROVE  Held(n)' \/ rows'[n] = 1
    <3>1. /\ rows[n] + (IF Held(n) THEN 1 ELSE 0) <= 1 /\ rows[n] \in Nat
          /\ n \in 1 .. MaxStream
      BY <2>2, WriterAssumption DEF Once, WrittenOnce, Undisturbed, TypeOK
    <3>2. rows'[n] = rows[n] + (IF In(n, batch) THEN 1 ELSE 0)
      BY <2>1, <3>1, InsertRows
    <3>3. CASE In(n, batch)
      BY <3>1, <3>2, <3>3 DEF Held
    <3>4. CASE ~In(n, batch)
      <4>1. Held(n) \/ rows[n] = 1
        BY <2>2 DEF Intact
      <4> QED
        BY <2>1, <3>1, <3>2, <3>4, <4>1 DEF Held
    <3> QED
      BY <3>3, <3>4
  <2> QED
    BY <2>1, <2>2 DEF Intact, Undisturbed
<1> QED
  BY <1>1, <1>2, <1>3, <1>4, <1>5 DEF Next, ReaderStep, StopStep, Fault

\* BatchWriter: until a call fails, the process crashes or is shut down, every tick that
\* the group delivered is in memory or has its one row, for any batch size.
THEOREM NoneLost == Spec => []NothingLost
<1>1. Init => Intact
  BY DEF Init, Intact
<1>2. TypeOK /\ TypeOK' /\ Once /\ Intact /\ [Next]_vars => Intact'
  BY IntactStep
<1>3. Intact => NothingLost
  BY DEF Intact, Undisturbed, NothingLost
<1> QED
  BY <1>1, <1>2, <1>3, TypeCorrect, OnceAlways, PTL DEF Spec

----------------------------------------------------------------------------------
(* The writer is a consumer of its stream. *)

\* What every step does to the ticks: rows are only added, to ticks in memory, and
\* only ticks delivered by the step come into memory.
Progress ==
  /\ group <= group'
  /\ \A n \in 1 .. MaxStream :
       /\ rows'[n] = rows[n] \/ (rows'[n] = rows[n] + 1 /\ Held(n))
       /\ Held(n)' => Held(n) \/ n > group

LEMMA InsertedOrNot ==
  ASSUME TypeOK
  PROVE  /\ group <= group
         /\ \A n \in 1 .. MaxStream :
              /\ Insert(batch)[n] = rows[n] \/ (Insert(batch)[n] = rows[n] + 1 /\ Held(n))
              /\ Insert(lastBatch)[n] = rows[n] \/ (Insert(lastBatch)[n] = rows[n] + 1 /\ Held(n))
<1>1. group \in Nat
  BY DEF TypeOK
<1>2. ASSUME NEW n \in 1 .. MaxStream
      PROVE  /\ Insert(batch)[n] = rows[n] \/ (Insert(batch)[n] = rows[n] + 1 /\ Held(n))
             /\ Insert(lastBatch)[n] = rows[n] \/ (Insert(lastBatch)[n] = rows[n] + 1 /\ Held(n))
  <2>1. /\ rows[n] \in Nat
        /\ Insert(batch)[n] = rows[n] + (IF In(n, batch) THEN 1 ELSE 0)
        /\ Insert(lastBatch)[n] = rows[n] + (IF In(n, lastBatch) THEN 1 ELSE 0)
    BY InsertRows DEF TypeOK
  <2> QED
    BY <2>1 DEF Held
<1> QED
  BY <1>1, <1>2

LEMMA StepProgress ==
  ASSUME TypeOK, TypeOK', Once, [Next]_vars
  PROVE  Progress
<1>0. group \in 0 .. MaxStream /\ group' \in 0 .. MaxStream /\ MaxStream \in Nat
  BY WriterAssumption DEF TypeOK
<1>1. CASE Publish \/ Boot \/ BootWithoutWriter \/ CreateGroup \/ CreateGroupFails \/ Wake
           \/ UNCHANGED vars
  <2>1. UNCHANGED <<buffer, batch, lastBatch, rows, group>>
    BY <1>1 DEF Publish, Boot, BootWithoutWriter, CreateGroup, CreateGroupFails, Wake,
                vars, database, memory
  <2> QED
    BY <1>0, <2>1 DEF Progress, Held
<1>2. CASE Crash \/ Exit
  <2>1. buffer' = <<>> /\ batch' = <<>> /\ lastBatch' = <<>> /\ UNCHANGED <<rows, group>>
    BY <1>2 DEF Crash, Exit, End, database
  <2> QED
    BY <1>0, <2>1, Emptied DEF Progress, Held
<1>3. CASE Stop
  <2>1. lastBatch' = buffer /\ buffer' = <<>> /\ UNCHANGED <<batch, rows, group>>
    BY <1>3 DEF Stop, database
  <2> QED
    BY <1>0, <2>1, Emptied DEF Progress, Held
<1>4. CASE Read
  <2> DEFINE new == Ticks(group + 1, AfterRead)
  <2>1. /\ AfterRead \in group .. published
        /\ \A n : In(n, buffer \o new) => In(n, buffer) \/ n > group
    <3>1. AfterRead \in group .. published /\ new \in Seq((group + 1) .. AfterRead)
      BY ReadResult
    <3> HIDE DEF new
    <3>2. \A n : In(n, new) => n > group
      <4>1. /\ Len(new) \in Nat /\ DOMAIN new = 1 .. Len(new)
            /\ \A i \in 1 .. Len(new) : new[i] \in (group + 1) .. AfterRead
        BY <3>1, LenProperties, ElementOfSeq
      <4> QED
        BY <1>0, <3>1, <4>1 DEF In
    <3>3. new \in Seq(Nat) /\ buffer \in Seq(Nat)
      <4>1. (group + 1) .. AfterRead \subseteq Nat /\ 1 .. group \subseteq Nat
        BY <1>0
      <4> QED
        BY <3>1, <4>1, SeqMonotone DEF TypeOK, Ticked
    <3> QED
      BY <3>1, <3>2, <3>3, InConcat
  <2> HIDE DEF new
  <2>2. PICK held \in {buffer, buffer \o new} :
          \/ buffer' = held /\ batch' = batch
          \/ buffer' = <<>> /\ batch' = held
    <3>1. CASE group < published
      BY <1>4, <3>1 DEF Read, ReadSome, BeginFlush, new
    <3>2. CASE ~(group < published)
      BY <1>4, <3>2 DEF Read, ReadNone, BeginFlush
    <3> QED
      BY <3>1, <3>2
  <2>3. group' = AfterRead /\ UNCHANGED <<rows, lastBatch>>
    BY <1>4 DEF Read
  <2>4. \A n : Held(n)' => Held(n) \/ n > group
    BY <2>1, <2>2, <2>3, Emptied DEF Held
  <2> QED
    BY <1>0, <2>1, <2>3, <2>4 DEF Progress
<1>5. CASE ReadFails
  <2>1. UNCHANGED <<buffer, batch, lastBatch, rows>> /\ group <= group'
    BY <1>0, <1>5, ReadResult DEF ReadFails, memory
  <2> QED
    BY <2>1 DEF Progress, Held
<1>6. CASE Flush
  <2>1. batch' = <<>> /\ rows' = Insert(batch) /\ UNCHANGED <<group, buffer, lastBatch>>
    BY <1>6 DEF Flush
  <2> QED
    BY <2>1, InsertedOrNot, Emptied DEF Held, Progress
<1>7. CASE FlushFails
  <2>1. /\ batch' = <<>> /\ rows' \in {rows, Insert(batch)} /\ buffer' = Returned(batch)
        /\ UNCHANGED <<group, lastBatch>>
    BY <1>7 DEF FlushFails
  <2>2. \A n : In(n, Returned(batch)) => In(n, batch) \/ In(n, buffer)
    BY ReturnedTicks DEF TypeOK, Once, WrittenOnce
  <2> QED
    BY <1>0, <2>1, <2>2, InsertedOrNot, Emptied DEF Held, Progress
<1>8. CASE StopFlush
  <2>1. lastBatch' = <<>> /\ rows' = Insert(lastBatch) /\ UNCHANGED <<group, buffer, batch>>
    BY <1>8 DEF StopFlush
  <2> QED
    BY <1>0, <2>1, InsertedOrNot, Emptied DEF Held, Progress
<1>9. CASE StopFlushFails
  <2>1. /\ lastBatch' = <<>> /\ rows' \in {rows, Insert(lastBatch)}
        /\ buffer' = Returned(lastBatch) /\ UNCHANGED <<group, batch>>
    BY <1>9 DEF StopFlushFails
  <2>2. \A n : In(n, Returned(lastBatch)) => In(n, lastBatch) \/ In(n, buffer)
    BY ReturnedTicks DEF TypeOK, Once, WrittenOnce
  <2> QED
    BY <1>0, <2>1, <2>2, InsertedOrNot, Emptied DEF Held, Progress
<1> QED
  BY <1>1, <1>2, <1>3, <1>4, <1>5, <1>6, <1>7, <1>8, <1>9
     DEF Next, ReaderStep, StopStep, Fault

\* BatchWriter: the batch writer implements Consumer.
THEOREM Consumes == Spec => ConsumesOnce
<1> DEFINE fates == [n \in 1 .. MaxStream |-> Fate(n)]
<1>1. Init => Stream!Init
  <2> SUFFICES ASSUME Init, NEW n \in 1 .. MaxStream
               PROVE  Fate(n) = "waiting"
    BY DEF Stream!Init
  <2>1. ~Held(n) /\ rows[n] = 0
    BY Emptied DEF Init, Held
  <2>2. n > group /\ ~(n <= group) /\ ~(rows[n] > 0)
    BY <2>1, WriterAssumption DEF Init
  <2> QED
    BY <2>1, <2>2 DEF Fate
<1>2. TypeOK /\ TypeOK' /\ Once /\ Once' /\ [Next]_vars => [Stream!Next]_fates
  <2> SUFFICES ASSUME TypeOK, TypeOK', Once, Once', [Next]_vars
               PROVE  Stream!Next
    OBVIOUS
  <2>1. Progress
    BY StepProgress
  <2>2. ASSUME NEW n \in 1 .. MaxStream
        PROVE  /\ Fate(n)' \in Stream!Fates
               /\ Fate(n)' = Fate(n) \/ <<Fate(n), Fate(n)'>> \in Stream!Moves
               /\ Fate(n)' = "waiting" <=> n > group'
    <3>1. /\ rows[n] \in Nat /\ rows'[n] \in Nat
          /\ group \in Nat /\ group' \in Nat /\ n \in Nat /\ group <= group'
      BY <2>1, WriterAssumption DEF TypeOK, Progress
    <3>2. /\ Held(n) => n <= group
          /\ Held(n)' => n <= group'
      <4>1. \A s \in Seq(1 .. group) : In(n, s) => n <= group
        BY <3>1, ElementOfSeq, LenProperties DEF In
      <4>2. \A s \in Seq(1 .. group') : In(n, s) => n <= group'
        BY <3>1, ElementOfSeq, LenProperties DEF In
      <4> QED
        BY <4>1, <4>2 DEF Held, TypeOK, Ticked
    <3>3. /\ rows[n] > 0 => n <= group
          /\ rows'[n] > 0 => n <= group'
      BY <3>1 DEF Once
    <3>4. /\ rows'[n] = rows[n] \/ (rows'[n] = rows[n] + 1 /\ Held(n))
          /\ Held(n)' => Held(n) \/ n > group
      BY <2>1 DEF Progress
    <3>5. CASE Held(n)
      <4>1. /\ Fate(n) = "held" /\ n <= group
            /\ Fate(n)' \in {"held", "kept", "dropped"}
        BY <3>1, <3>2, <3>4, <3>5 DEF Fate
      <4> QED
        BY <3>1, <4>1 DEF Stream!Fates, Stream!Moves
    <3>6. CASE ~Held(n)
      <4>1. CASE rows[n] > 0
        <5>1. Fate(n) = "kept" /\ Fate(n)' = "kept"
          BY <3>1, <3>3, <3>4, <3>6, <4>1 DEF Fate
        <5> QED
          BY <3>1, <3>3, <4>1, <5>1 DEF Stream!Fates
      <4>2. CASE ~(rows[n] > 0) /\ n <= group
        <5>1. Fate(n) = "dropped" /\ Fate(n)' = "dropped"
          BY <3>1, <3>4, <3>6, <4>2 DEF Fate
        <5> QED
          BY <3>1, <4>2, <5>1 DEF Stream!Fates
      <4>3. CASE ~(rows[n] > 0) /\ ~(n <= group)
        <5>1. /\ Fate(n) = "waiting"
              /\ Fate(n)' = IF Held(n)' THEN "held"
                            ELSE IF n > group' THEN "waiting" ELSE "dropped"
          BY <3>1, <3>4, <3>6, <4>3 DEF Fate
        <5> QED
          BY <3>1, <3>2, <5>1 DEF Stream!Fates, Stream!Moves
      <4> QED
        BY <4>1, <4>2, <4>3
    <3> QED
      BY <3>5, <3>6
  <2>0. group' \in Nat /\ MaxStream \in Nat
    BY WriterAssumption DEF TypeOK
  <2>3. \A n \in 1 .. MaxStream : fates[n] = Fate(n) /\ fates'[n] = Fate(n)'
    OBVIOUS
  <2>4. fates' \in [1 .. MaxStream -> Stream!Fates]
    BY <2>2
  <2> HIDE DEF fates
  <2>5. \A n \in 1 .. MaxStream :
          fates'[n] = fates[n] \/ <<fates[n], fates'[n]>> \in Stream!Moves
    BY <2>2, <2>3
  <2>6. \A m, n \in 1 .. MaxStream :
          m < n /\ fates'[m] = "waiting" => fates'[n] = "waiting"
    <3> SUFFICES ASSUME NEW m \in 1 .. MaxStream, NEW n \in 1 .. MaxStream,
                        m < n, fates'[m] = "waiting"
                 PROVE  fates'[n] = "waiting"
      OBVIOUS
    <3>1. m > group'
      BY <2>2, <2>3
    <3>2. n > group'
      BY <2>0, <3>1
    <3> QED
      BY <2>2, <2>3, <3>2
  <2> QED
    BY <2>4, <2>5, <2>6, Zenon DEF Stream!Next, fates
<1> QED
  BY <1>1, <1>2, TypeCorrect, OnceAlways, PTL DEF Spec, ConsumesOnce, Stream!Spec
==================================================================================
