----------------------------- MODULE NotifierProofs -----------------------------
(* ToldOnce for any chats, streams, batches and failures.  The entries in hand are  *)
(* those after what each chat has received, and a chat that is not to be sent the   *)
(* first of them any more has received it, or one of the failures explains it.      *)
EXTENDS Notifier, DataLemmas

Numbered == Streams \X Nat

---------------------------------------------------------------------------------
(* The list in hand. *)

\* The entries from an element of the list on: each is one of the list, d further on.
PartOf(part, list) ==
  \E d \in Nat : \A j \in DOMAIN part : j + d \in DOMAIN list /\ part[j] = list[j + d]

\* What Handle leaves of the entries: the rest from the first that is due on.
Taken(entries) ==
  /\ todo' \in Seq(Numbered) /\ left' = {} /\ PartOf(todo', entries)
  /\ \A i \in DOMAIN entries : Due(entries[i]) => entries[i] \in ToSet(todo')
  /\ \/ pc' = "read" /\ todo' = <<>>
     \/ pc' = "members" /\ 1 \in DOMAIN todo' /\ Due(todo'[1])

\* Handle skips entries that are not due, and no other.
LEMMA HandleTakes ==
  ASSUME NEW entries \in Seq(Numbered), Handle(entries)
  PROVE  Taken(entries)
<1> DEFINE due == {i \in DOMAIN entries : Due(entries[i])}
<1>1. DOMAIN entries = 1 .. Len(entries) /\ Len(entries) \in Nat
  OBVIOUS
<1>2. /\ left' = {}
      /\ due = {} => todo' = <<>> /\ pc' = "read"
      /\ due # {} => todo' = SubSeq(entries, Min(due), Len(entries)) /\ pc' = "members"
  BY DEF Handle
<1>3. CASE due = {}
  <2>1. PartOf(<<>>, entries) /\ <<>> \in Seq(Numbered)
    BY DEF PartOf
  <2> QED
    BY <1>2, <1>3, <2>1 DEF Taken
<1>4. CASE due # {}
  <2>1. Min(due) \in due /\ \A i \in due : Min(due) <= i
    <3>1. due \in SUBSET Nat /\ due # {}
      BY <1>1, <1>4
    <3> HIDE DEF due
    <3>2. \E i \in due : \A j \in due : i <= j
      BY <3>1, LeastNat
    <3> QED
      BY <3>2 DEF Min
  <2>2. PICK m \in DOMAIN entries : m = Min(due) /\ Due(entries[m])
    BY <2>1
  <2> DEFINE rest == SubSeq(entries, m, Len(entries))
  <2>3. /\ rest \in Seq(Numbered) /\ DOMAIN rest = 1 .. Len(entries) - (m - 1)
        /\ 1 \in DOMAIN rest
        /\ \A j \in 1 .. Len(entries) - (m - 1) :
             j + (m - 1) \in DOMAIN entries /\ rest[j] = entries[j + (m - 1)]
    BY ListFrom
  <2>4. todo' = rest /\ pc' = "members"
    BY <1>2, <1>4, <2>2
  <2> HIDE DEF rest
  <2>5. m - 1 \in Nat /\ 1 + (m - 1) = m
    BY <1>1
  <2>6. PartOf(rest, entries)
    BY <2>3, <2>5 DEF PartOf
  <2>7. rest[1] = entries[m]
    BY <2>3, <2>5
  <2>8. ASSUME NEW i \in DOMAIN entries, Due(entries[i]) PROVE entries[i] \in ToSet(rest)
    <3>1. m <= i
      BY <2>1, <2>2, <2>8
    <3>2. i - (m - 1) \in 1 .. Len(entries) - (m - 1) /\ (i - (m - 1)) + (m - 1) = i
      BY <1>1, <3>1
    <3> QED
      BY <2>3, <3>2 DEF ToSet
  <2> QED
    BY <1>2, <2>2, <2>3, <2>4, <2>6, <2>7, <2>8 DEF Taken
<1> QED
  BY <1>3, <1>4

\* The rest of the list in hand.
LEMMA TailOfTodo ==
  ASSUME NEW list \in Seq(Numbered), 1 \in DOMAIN list
  PROVE  /\ Tail(list) \in Seq(Numbered) /\ PartOf(Tail(list), list)
         /\ \A j \in DOMAIN Tail(list) : j + 1 \in DOMAIN list /\ Tail(list)[j] = list[j + 1]
         /\ \A i \in DOMAIN list : i = 1 \/ list[i] \in ToSet(Tail(list))
         /\ \A i \in DOMAIN list : i # 1 => i - 1 \in DOMAIN Tail(list) /\ Tail(list)[i - 1] = list[i]
<1>1. list # <<>> /\ Len(list) \in Nat /\ DOMAIN list = 1 .. Len(list)
  OBVIOUS
<1>2. /\ Tail(list) \in Seq(Numbered) /\ Len(Tail(list)) = Len(list) - 1
      /\ \A i \in 1 .. Len(Tail(list)) : Tail(list)[i] = list[i + 1]
  BY <1>1, HeadTailProperties
<1>3. DOMAIN Tail(list) = 1 .. Len(list) - 1
  BY <1>2
<1>4. \A j \in 1 .. Len(list) - 1 : j + 1 \in 1 .. Len(list)
  BY <1>1
<1>5. \A i \in 1 .. Len(list) : i # 1 => i - 1 \in 1 .. Len(list) - 1 /\ (i - 1) + 1 = i
  BY <1>1
<1>6. \A j \in DOMAIN Tail(list) : j + 1 \in DOMAIN list /\ Tail(list)[j] = list[j + 1]
  BY <1>1, <1>2, <1>3, <1>4
<1>7. \A i \in DOMAIN list : i # 1 => i - 1 \in DOMAIN Tail(list) /\ Tail(list)[i - 1] = list[i]
  BY <1>1, <1>3, <1>5, <1>6
<1> QED
  BY <1>2, <1>6, <1>7 DEF PartOf, ToSet

---------------------------------------------------------------------------------
(* Order. *)

Before(d, e) == d[1] = e[1] => d[2] < e[2]

Sorted(list) == \A i, j \in DOMAIN list : i < j => Before(list[i], list[j])
Behind(done, list) == \A i \in DOMAIN done, k \in DOMAIN list : Before(done[i], list[k])
Known(delivered, e) == e[2] >= 1 /\ e[2] <= delivered[e[1]]
AllKnown(delivered, list) == \A i \in DOMAIN list : Known(delivered, list[i])

\* A part of a list is in the order of the list.
LEMMA PartInOrder ==
  ASSUME NEW list \in Seq(Numbered), NEW part \in Seq(Numbered), PartOf(part, list)
  PROVE  /\ Sorted(list) => Sorted(part)
         /\ \A done : Behind(done, list) => Behind(done, part)
         /\ \A g : AllKnown(g, list) => AllKnown(g, part)
<1>1. PICK d \in Nat : \A j \in DOMAIN part : j + d \in DOMAIN list /\ part[j] = list[j + d]
  BY DEF PartOf
<1>2. ASSUME Sorted(list), NEW i \in DOMAIN part, NEW j \in DOMAIN part, i < j
      PROVE  Before(part[i], part[j])
  <2>1. i \in Nat /\ j \in Nat
    OBVIOUS
  <2>2. i + d < j + d
    BY <1>2, <2>1
  <2> QED
    BY <1>1, <1>2, <2>2 DEF Sorted
<1>3. ASSUME NEW done, Behind(done, list) PROVE Behind(done, part)
  BY <1>1, <1>3 DEF Behind
<1>4. ASSUME NEW g, AllKnown(g, list) PROVE AllKnown(g, part)
  BY <1>1, <1>4 DEF AllKnown
<1> QED
  BY <1>2, <1>3, <1>4 DEF Sorted

---------------------------------------------------------------------------------
(* The invariant. *)

\* Where the loop is: it has entries in hand while it tells the chats of the first.
Place ==
  /\ \A s \in Streams : group[s] <= Len(stream[s])
  /\ pc \in {"members", "send"} => 1 \in DOMAIN todo /\ Due(todo[1])
  /\ pc \notin {"members", "send"} => todo = <<>>
  /\ pc # "send" => left = {}
  /\ left \subseteq authorized

\* What a chat has received is before the entries it may still get.
AllDue(list) == \A i \in DOMAIN list : Due(list[i])

Order ==
  /\ AllKnown(group, todo) /\ Sorted(todo)
  /\ \A c \in Chats :
       /\ AllKnown(group, received[c]) /\ AllDue(received[c]) /\ Sorted(received[c])
       /\ 1 \in DOMAIN todo => Behind(received[c], Tail(todo))
       /\ pc = "members" \/ c \in left => Behind(received[c], todo)

Inv == TypeOK /\ Place /\ Order

LEMMA StartsInOrder == Init => Inv
<1> SUFFICES ASSUME Init PROVE Inv
  OBVIOUS
<1> USE DEF Init
<1>1. TypeOK
  BY NotifierAssumption DEF TypeOK, Streams
<1>2. Place
  BY DEF Place, Streams
<1>3. Order
  BY DEF Order, AllKnown, AllDue, Sorted, Behind
<1> QED
  BY <1>1, <1>2, <1>3 DEF Inv

\* The entries a read delivers follow those delivered before.
NewOf(s) == /\ New(s) \in Seq(Numbered)
            /\ \A i \in DOMAIN New(s) : /\ New(s)[i][1] = s /\ New(s)[i][2] = group[s] + i
                                        /\ i <= Delivered[s] - group[s]
            /\ \A n \in 1 .. Delivered[s] : n > group[s] => <<s, n>> \in ToSet(New(s))

LEMMA ReadsOn ==
  ASSUME TypeOK, Place
  PROVE  /\ Delivered \in [Streams -> Nat]
         /\ \A s \in Streams : group[s] <= Delivered[s] /\ Delivered[s] <= Len(stream[s])
         /\ \A s \in Streams : NewOf(s)
<1>1. ASSUME NEW s \in Streams
      PROVE  /\ Delivered[s] \in Nat /\ group[s] <= Delivered[s] /\ Delivered[s] <= Len(stream[s])
             /\ NewOf(s)
  <2>1. group[s] \in Nat /\ Len(stream[s]) \in Nat /\ group[s] <= Len(stream[s]) /\ ReadCount \in Nat
    BY NotifierAssumption DEF TypeOK, Place
  <2> DEFINE n == IF Len(stream[s]) - group[s] < ReadCount THEN Len(stream[s]) - group[s] ELSE ReadCount
             new == [i \in 1 .. n |-> <<s, group[s] + i>>]
  <2>2. n \in Nat /\ group[s] + n <= Len(stream[s]) /\ group[s] + n \in Nat /\ group[s] <= group[s] + n
        /\ (group[s] + n) - group[s] = n
    BY <2>1
  <2>3. New(s) = new
    BY DEF New
  <2> HIDE DEF n
  <2>4. \A i \in 1 .. n : group[s] + i \in Nat /\ <<s, group[s] + i>> \in Numbered
    BY <2>1, <2>2 DEF Numbered
  <2>5. new \in [1 .. n -> Numbered] /\ DOMAIN new = 1 .. n
    BY <2>4
  <2>6. \A i \in 1 .. n : new[i] = <<s, group[s] + i>>
    OBVIOUS
  <2> HIDE DEF new
  <2>7. new \in Seq(Numbered) /\ Len(new) = n
    BY <2>2, <2>5, FunctionIsSeq
  <2>8. Delivered[s] = group[s] + n
    BY <2>3, <2>7 DEF Delivered
  <2>9. ASSUME NEW k \in 1 .. Delivered[s], k > group[s] PROVE <<s, k>> \in ToSet(new)
    <3>1. k - group[s] \in 1 .. n /\ group[s] + (k - group[s]) = k
      BY <2>1, <2>2, <2>8, <2>9
    <3> QED
      BY <2>5, <2>6, <3>1 DEF ToSet
  <2>10. \A i \in DOMAIN new : new[i][1] = s /\ new[i][2] = group[s] + i /\ i <= Delivered[s] - group[s]
    BY <2>2, <2>5, <2>6, <2>8
  <2> QED
    BY <2>2, <2>3, <2>7, <2>8, <2>9, <2>10 DEF NewOf
<1> QED
  BY <1>1 DEF Delivered

---------------------------------------------------------------------------------
(* The steps. *)

\* What is left of such entries is in order as well.
LEMMA TakenInOrder ==
  ASSUME TypeOK', NEW entries \in Seq(Numbered), Taken(entries),
         AllKnown(group', entries), Sorted(entries),
         \A c \in Chats : /\ AllKnown(group', received'[c]) /\ AllDue(received[c])'
                          /\ Sorted(received'[c]) /\ Behind(received'[c], entries)
  PROVE  Order'
<1>1. todo' \in Seq(Numbered) /\ left' = {} /\ PartOf(todo', entries)
  BY DEF Taken
<1>2. /\ Sorted(todo') /\ AllKnown(group', todo')
      /\ \A done : Behind(done, entries) => Behind(done, todo')
  BY <1>1, PartInOrder
<1>3. ASSUME 1 \in DOMAIN todo', NEW done, Behind(done, entries) PROVE Behind(done, Tail(todo'))
  <2>1. Tail(todo') \in Seq(Numbered) /\ PartOf(Tail(todo'), todo')
    BY <1>1, <1>3, TailOfTodo
  <2> QED
    BY <1>1, <1>2, <1>3, <2>1, PartInOrder
<1> QED
  BY <1>2, <1>3 DEF Order

\* Messages that arrived at chats still to be told, none of them one of these.
Heard(chats) ==
  /\ received' \in [Chats -> Seq(Numbered)]
  /\ \A d \in Chats :
       \/ received'[d] = received[d]
       \/ d \in left \ chats /\ received'[d] = Append(received[d], todo[1])

\* The chat that a message arrives at.
HeardIt(d) ==
  /\ received'[d] \in Seq(Numbered)
  /\ AllKnown(group, received'[d]) /\ AllDue(received'[d]) /\ Sorted(received'[d])
  /\ Behind(received'[d], Tail(todo))

LEMMA ArrivesInOrder ==
  ASSUME Inv, NEW chats, Heard(chats), pc \in {"members", "send"}, NEW d \in Chats
  PROVE  HeardIt(d)
<1>1. /\ todo \in Seq(Numbered) /\ 1 \in DOMAIN todo /\ Due(todo[1])
      /\ received[d] \in Seq(Numbered) /\ received'[d] \in Seq(Numbered)
  BY DEF Inv, TypeOK, Place, Heard, Numbered
<1>2. /\ AllKnown(group, todo) /\ Sorted(todo)
      /\ AllKnown(group, received[d]) /\ AllDue(received[d]) /\ Sorted(received[d])
      /\ Behind(received[d], Tail(todo)) /\ (d \in left => Behind(received[d], todo))
  BY <1>1 DEF Inv, Order
<1>3. CASE received'[d] = received[d]
  BY <1>1, <1>2, <1>3 DEF HeardIt
<1>4. CASE d \in left /\ received'[d] = Append(received[d], todo[1])
  <2> DEFINE old == received[d]
             new == received'[d]
  <2>1. /\ DOMAIN new = DOMAIN old \cup {Len(old) + 1} /\ new[Len(old) + 1] = todo[1]
        /\ \A i \in DOMAIN old : new[i] = old[i] /\ i < Len(old) + 1
    BY <1>1, <1>4, AppendAny
  <2>2. Behind(old, todo) /\ Known(group, todo[1])
    BY <1>1, <1>2, <1>4 DEF AllKnown
  <2>3. \A j \in DOMAIN Tail(todo) : Before(todo[1], Tail(todo)[j])
    <3>1. \A j \in DOMAIN Tail(todo) : j \in Nat /\ j + 1 \in DOMAIN todo /\ Tail(todo)[j] = todo[j + 1]
      BY <1>1, TailOfTodo
    <3>2. ASSUME NEW j \in DOMAIN Tail(todo) PROVE 1 < j + 1
      <4>1. j >= 1 /\ j \in Nat
        BY <1>1, TailOfTodo
      <4> QED
        BY <4>1
    <3> QED
      BY <1>1, <1>2, <3>1, <3>2 DEF Sorted
  <2>4. Len(old) \in Nat /\ \A i \in DOMAIN new : i \in DOMAIN old \/ i = Len(old) + 1
    BY <1>1, <2>1
  <2>5. \A i \in DOMAIN old : ~(Len(old) + 1 < i)
    BY <1>1
  <2> HIDE DEF old, new
  <2>6. AllKnown(group, new) /\ AllDue(new)
    BY <1>1, <1>2, <2>1, <2>2, <2>4 DEF AllKnown, AllDue, old
  <2>7. Sorted(new)
    <3> SUFFICES ASSUME NEW i \in DOMAIN new, NEW j \in DOMAIN new, i < j
                 PROVE  Before(new[i], new[j])
      BY DEF Sorted
    <3>1. i \in DOMAIN old
      BY <2>4, <2>5
    <3>2. CASE j \in DOMAIN old
      BY <1>2, <2>1, <3>1, <3>2 DEF Sorted, old
    <3>3. CASE j = Len(old) + 1
      BY <1>1, <2>1, <2>2, <3>1, <3>3 DEF Behind
    <3> QED
      BY <2>4, <3>2, <3>3
  <2>8. Behind(new, Tail(todo))
    BY <1>2, <2>1, <2>3, <2>4 DEF Behind, old
  <2> QED
    BY <1>1, <2>6, <2>7, <2>8 DEF HeardIt, new
<1> QED
  BY <1>3, <1>4 DEF Heard


\* notify_all goes on with some chats, or the loop with the next entry.
Notifies(chats) ==
  /\ chats \subseteq authorized /\ NotifyAll(chats) /\ Heard(chats)
  /\ pc = "members" \/ (pc = "send" /\ chats \subseteq left)
  /\ UNCHANGED <<stream, group, authorized>> /\ {unsent', errors', crashes'} \subseteq Nat

LEMMA NotifiesInOrder == ASSUME Inv, NEW chats, Notifies(chats) PROVE Inv'
<1> chats \subseteq authorized /\ NotifyAll(chats) /\ Heard(chats)
  BY DEF Notifies
<1> pc = "members" \/ (pc = "send" /\ chats \subseteq left)
  BY DEF Notifies
<1> UNCHANGED <<stream, group, authorized>> /\ {unsent', errors', crashes'} \subseteq Nat
  BY DEF Notifies
<1>1. /\ todo \in Seq(Numbered) /\ 1 \in DOMAIN todo /\ Due(todo[1])
      /\ AllKnown(group, todo) /\ Sorted(todo)
  BY DEF Inv, TypeOK, Place, Order, Numbered
<1>2. \A d \in Chats : HeardIt(d)
  BY ArrivesInOrder
<1>3. \A d \in Chats : AllDue(received'[d]) => AllDue(received[d])'
  BY DEF AllDue, Due
<1>4. received' \in [Chats -> Seq(Numbered)] /\ chats \subseteq Chats
  BY DEF Heard, Inv, TypeOK
<1>5. CASE chats = {}
  <2> DEFINE rest == Tail(todo)
  <2>1. rest \in Seq(Numbered) /\ PartOf(rest, todo)
    BY <1>1, TailOfTodo
  <2>2. AllKnown(group, rest) /\ Sorted(rest)
    BY <1>1, <2>1, PartInOrder
  <2>3. Taken(rest)
    BY <1>5, <2>1, HandleTakes DEF NotifyAll
  <2>4. todo' \in Seq(Numbered) /\ left' = {} /\ pc' \in {"read", "members"}
    BY <2>3 DEF Taken
  <2>5. TypeOK'
    BY <1>4, <2>4 DEF Inv, TypeOK, Numbered
  <2>6. Order'
    <3>1. ASSUME NEW d \in Chats
          PROVE  /\ AllKnown(group', received'[d]) /\ AllDue(received[d])'
                 /\ Sorted(received'[d]) /\ Behind(received'[d], rest)
      BY <1>2, <1>3 DEF HeardIt
    <3>2. AllKnown(group', rest)
      BY <2>2
    <3> HIDE DEF rest
    <3> QED
      BY <2>1, <2>2, <2>3, <2>5, <3>1, <3>2, TakenInOrder
  <2>7. Place'
    BY <2>3 DEF Taken, Inv, Place, Due
  <2> QED
    BY <2>5, <2>6, <2>7 DEF Inv
<1>6. CASE chats # {}
  <2>1. todo' = todo /\ left' = chats /\ pc' = "send"
    BY <1>6 DEF NotifyAll
  <2>2. TypeOK'
    BY <1>4, <2>1 DEF Inv, TypeOK, Numbered
  <2>3. Place'
    BY <1>1, <2>1 DEF Inv, Place, Due
  <2>4. ASSUME NEW d \in Chats, d \in chats PROVE Behind(received'[d], todo)
    <3>1. received'[d] = received[d]
      BY <2>4 DEF Heard
    <3> QED
      BY <2>4, <3>1 DEF Inv, Order
  <2>5. Order'
    BY <1>1, <1>2, <1>3, <2>1, <2>4 DEF Order, HeardIt
  <2> QED
    BY <2>2, <2>3, <2>5 DEF Inv
<1> QED
  BY <1>5, <1>6

\* What xreadgroup returned is in order, and after all that was received.
LEMMA ReadInOrder == ASSUME Inv, Read PROVE Inv'
<1> DEFINE a == New("opportunities")
           b == New("trades")
           both == a \o b
<1>1. /\ pc = "read" /\ group' = Delivered /\ Handle(both)
      /\ UNCHANGED <<stream, authorized, received, unsent, errors, crashes>>
  BY DEF Read
<1>2. /\ Delivered \in [Streams -> Nat] /\ NewOf("opportunities") /\ NewOf("trades")
      /\ \A s \in Streams : group[s] <= Delivered[s] /\ Delivered[s] <= Len(stream[s])
  BY ReadsOn DEF Inv, Streams
<1>3. /\ both \in Seq(Numbered) /\ a \in Seq(Numbered) /\ b \in Seq(Numbered)
      /\ Len(a) \in Nat /\ Len(b) \in Nat /\ DOMAIN both = 1 .. Len(a) + Len(b)
      /\ \A i \in DOMAIN both :
           \/ i \in DOMAIN a /\ both[i] = a[i]
           \/ i - Len(a) \in DOMAIN b /\ ~(i <= Len(a)) /\ both[i] = b[i - Len(a)]
  <2>1. a \in Seq(Numbered) /\ b \in Seq(Numbered)
    BY <1>2 DEF NewOf
  <2> HIDE DEF a, b
  <2>2. /\ a \o b \in Seq(Numbered) /\ Len(a) \in Nat /\ Len(b) \in Nat
        /\ DOMAIN a = 1 .. Len(a) /\ DOMAIN b = 1 .. Len(b)
        /\ DOMAIN (a \o b) = 1 .. Len(a) + Len(b)
        /\ \A i \in 1 .. Len(a) + Len(b) :
             (a \o b)[i] = IF i <= Len(a) THEN a[i] ELSE b[i - Len(a)]
    BY <2>1, ConcatProperties
  <2>3. \A m, n \in Nat : \A i \in 1 .. m + n : IF i <= m THEN i \in 1 .. m ELSE i - m \in 1 .. n
    OBVIOUS
  <2> QED
    BY <2>1, <2>2, <2>3
<1>4. /\ \A i \in DOMAIN a : /\ i \in Nat /\ i >= 1 /\ a[i][1] = "opportunities"
                             /\ a[i][2] = group["opportunities"] + i /\ a[i][2] <= Delivered["opportunities"]
      /\ \A i \in DOMAIN b : /\ i \in Nat /\ i >= 1 /\ b[i][1] = "trades"
                             /\ b[i][2] = group["trades"] + i /\ b[i][2] <= Delivered["trades"]
  <2>1. ASSUME NEW s \in Streams, NewOf(s), NEW i \in DOMAIN New(s)
        PROVE  /\ i \in Nat /\ i >= 1 /\ New(s)[i][1] = s
               /\ New(s)[i][2] = group[s] + i /\ New(s)[i][2] <= Delivered[s]
    <3>1. /\ New(s)[i][1] = s /\ New(s)[i][2] = group[s] + i /\ i <= Delivered[s] - group[s]
          /\ i \in Nat /\ i >= 1
      BY <2>1 DEF NewOf
    <3>2. group[s] \in Nat /\ Delivered[s] \in Nat
      BY <1>2 DEF Inv, TypeOK
    <3>3. group[s] + i <= Delivered[s]
      BY <3>1, <3>2
    <3> QED
      BY <3>1, <3>3
  <2> QED
    BY <1>2, <2>1 DEF Streams
<1>5. group["opportunities"] \in Nat /\ group["trades"] \in Nat
  BY DEF Inv, TypeOK, Streams
<1> HIDE DEF a, b
<1>6. \A i \in DOMAIN both : both[i][1] \in Streams /\ both[i][2] > group[both[i][1]]
                             /\ both[i][2] \in Nat /\ both[i][2] <= Delivered[both[i][1]]
  <2> SUFFICES ASSUME NEW i \in DOMAIN both
               PROVE  both[i][1] \in Streams /\ both[i][2] > group[both[i][1]]
                      /\ both[i][2] \in Nat /\ both[i][2] <= Delivered[both[i][1]]
    OBVIOUS
  <2> HIDE DEF both
  <2>1. CASE i \in DOMAIN a /\ both[i] = a[i]
    <3>1. a[i][1] = "opportunities" /\ a[i][2] = group["opportunities"] + i
          /\ a[i][2] <= Delivered["opportunities"] /\ i \in Nat /\ i >= 1
      BY <1>4, <2>1
    <3>2. group["opportunities"] + i > group["opportunities"] /\ group["opportunities"] + i \in Nat
      BY <1>5, <3>1
    <3> QED
      BY <2>1, <3>1, <3>2 DEF Streams
  <2>2. CASE i - Len(a) \in DOMAIN b /\ both[i] = b[i - Len(a)]
    <3> DEFINE k == i - Len(a)
    <3>1. b[k][1] = "trades" /\ b[k][2] = group["trades"] + k
          /\ b[k][2] <= Delivered["trades"] /\ k \in Nat /\ k >= 1
      BY <1>4, <2>2
    <3> HIDE DEF k
    <3>2. group["trades"] + k > group["trades"] /\ group["trades"] + k \in Nat
      BY <1>5, <3>1
    <3>3. both[i] = b[k]
      BY <2>2 DEF k
    <3> QED
      BY <3>1, <3>2, <3>3 DEF Streams
  <2> QED
    BY <1>3, <2>1, <2>2
<1>7. Sorted(both)
  <2> SUFFICES ASSUME NEW i \in DOMAIN both, NEW j \in DOMAIN both, i < j,
                      both[i][1] = both[j][1]
               PROVE  both[i][2] < both[j][2]
    BY DEF Sorted, Before
  <2>1. i \in Nat /\ j \in Nat
    BY <1>3
  <2>2. \/ i \in DOMAIN a /\ both[i] = a[i] /\ j \in DOMAIN a /\ both[j] = a[j]
        \/ i - Len(a) \in DOMAIN b /\ both[i] = b[i - Len(a)]
           /\ j - Len(a) \in DOMAIN b /\ both[j] = b[j - Len(a)]
    <3>1. "opportunities" # "trades"
      OBVIOUS
    <3> HIDE DEF both
    <3> QED
      BY <1>3, <1>4, <3>1
  <2> HIDE DEF both
  <2>3. CASE i \in DOMAIN a /\ both[i] = a[i] /\ j \in DOMAIN a /\ both[j] = a[j]
    <3>1. group["opportunities"] + i < group["opportunities"] + j
      BY <1>5, <2>1
    <3> QED
      BY <1>4, <2>3, <3>1
  <2>4. CASE i - Len(a) \in DOMAIN b /\ both[i] = b[i - Len(a)]
             /\ j - Len(a) \in DOMAIN b /\ both[j] = b[j - Len(a)]
    <3>1. group["trades"] + (i - Len(a)) < group["trades"] + (j - Len(a))
      BY <1>3, <1>5, <2>1
    <3>2. both[i][2] = group["trades"] + (i - Len(a)) /\ both[j][2] = group["trades"] + (j - Len(a))
      BY <1>4, <2>4
    <3> QED
      BY <3>1, <3>2
  <2> QED
    BY <2>2, <2>3, <2>4
<1> HIDE DEF both
<1>8. AllKnown(group', both)
  <2>1. ASSUME NEW i \in DOMAIN both PROVE both[i][2] >= 1
    <3>1. both[i][2] \in Nat /\ both[i][2] > group[both[i][1]] /\ group[both[i][1]] \in Nat
      BY <1>6 DEF Inv, TypeOK
    <3> QED
      BY <3>1
  <2> QED
    BY <1>1, <1>6, <2>1 DEF AllKnown, Known
<1>9. ASSUME NEW c \in Chats
      PROVE  /\ AllKnown(group', received'[c]) /\ AllDue(received[c])'
             /\ Sorted(received'[c]) /\ Behind(received'[c], both)
  <2>1. AllKnown(group, received[c]) /\ AllDue(received[c]) /\ Sorted(received[c])
        /\ received[c] \in Seq(Numbered)
    BY DEF Inv, TypeOK, Order, Numbered
  <2>2. ASSUME NEW i \in DOMAIN received[c]
        PROVE  /\ received[c][i] \in Numbered /\ received[c][i][1] \in Streams
               /\ received[c][i][2] \in Nat /\ group[received[c][i][1]] \in Nat
               /\ received[c][i][2] >= 1 /\ received[c][i][2] <= group[received[c][i][1]]
    <3>1. received[c][i] \in Numbered
      BY <2>1
    <3> QED
      BY <2>1, <3>1 DEF Numbered, AllKnown, Known, Inv, TypeOK
  <2>3. AllKnown(group', received[c])
    <3>1. ASSUME NEW i \in DOMAIN received[c] PROVE received[c][i][2] <= Delivered[received[c][i][1]]
      <4>1. group[received[c][i][1]] <= Delivered[received[c][i][1]]
            /\ Delivered[received[c][i][1]] \in Nat
        BY <1>2, <2>2
      <4> QED
        BY <2>2, <4>1
    <3> QED
      BY <1>1, <2>2, <3>1 DEF AllKnown, Known
  <2>4. Behind(received[c], both)
    <3> SUFFICES ASSUME NEW i \in DOMAIN received[c], NEW k \in DOMAIN both,
                        received[c][i][1] = both[k][1]
                 PROVE  received[c][i][2] < both[k][2]
      BY DEF Behind, Before
    <3>1. both[k][2] > group[both[k][1]] /\ both[k][2] \in Nat
      BY <1>6
    <3> QED
      BY <2>2, <3>1
  <2>5. AllDue(received[c])'
    BY <1>1, <2>1 DEF AllDue, Due
  <2> QED
    BY <1>1, <2>1, <2>3, <2>4, <2>5
<1>10. Taken(both)
  BY <1>1, <1>3, HandleTakes
<1>11. TypeOK'
  <2>1. todo' \in Seq(Numbered) /\ left' = {} /\ pc' \in {"read", "members"}
    BY <1>10 DEF Taken
  <2> QED
    BY <1>1, <1>2, <2>1 DEF Inv, TypeOK, Numbered
<1>12. Order'
  BY <1>3, <1>7, <1>8, <1>9, <1>10, <1>11, TakenInOrder
<1>13. Place'
  BY <1>1, <1>2, <1>10 DEF Taken, Inv, Place, Due
<1> QED
  BY <1>11, <1>12, <1>13 DEF Inv


\* An entry published changes nothing about those delivered.
LEMMA PublishInOrder ==
  ASSUME Inv, NEW s \in Streams, Publish(s)
  PROVE  /\ Inv'
         /\ \A r \in Streams : \A n \in Nat : n >= 1 /\ n <= group[r] => Due(<<r, n>>)' = Due(<<r, n>>)
<1>1. /\ stream \in [Streams -> Seq(BOOLEAN)] /\ group \in [Streams -> Nat]
      /\ todo \in Seq(Numbered) /\ \A c \in Chats : received[c] \in Seq(Numbered)
  BY DEF Inv, TypeOK, Numbered
<1>2. PICK due \in BOOLEAN : stream' = [stream EXCEPT ![s] = Append(@, due)]
  BY DEF Publish
<1>3. UNCHANGED <<group, authorized, received, pc, todo, left, unsent, errors, crashes>>
  BY DEF Publish, process
<1>4. stream' \in [Streams -> Seq(BOOLEAN)]
  BY <1>1, <1>2
<1>5. ASSUME NEW r \in Streams
      PROVE  /\ Len(stream[r]) <= Len(stream'[r]) /\ Len(stream[r]) \in Nat /\ Len(stream'[r]) \in Nat
             /\ \A n \in 1 .. Len(stream[r]) : stream'[r][n] = stream[r][n]
  <2>1. CASE r = s
    <3>1. stream'[r] = Append(stream[r], due) /\ stream[r] \in Seq(BOOLEAN)
      BY <1>1, <1>2, <2>1
    <3> QED
      BY <3>1, AppendProperties
  <2>2. CASE r # s
    <3>1. stream'[r] = stream[r] /\ stream[r] \in Seq(BOOLEAN)
      BY <1>1, <1>2, <2>2
    <3> QED
      BY <3>1
  <2> QED
    BY <2>1, <2>2
<1>6. ASSUME NEW r \in Streams, NEW n \in Nat, n >= 1, n <= group[r]
      PROVE  stream'[r][n] = stream[r][n]
  <2>1. group[r] \in Nat /\ group[r] <= Len(stream[r]) /\ Len(stream[r]) \in Nat
    BY <1>1, <1>5 DEF Inv, Place
  <2>2. n \in 1 .. Len(stream[r])
    BY <1>6, <2>1
  <2> QED
    BY <1>5, <2>2
<1>7. ASSUME NEW list \in Seq(Numbered), AllKnown(group, list), NEW i \in DOMAIN list
      PROVE  stream'[list[i][1]][list[i][2]] = stream[list[i][1]][list[i][2]]
  <2>1. list[i][1] \in Streams /\ list[i][2] \in Nat
    <3>1. list[i] \in Numbered
      OBVIOUS
    <3> QED
      BY <3>1 DEF Numbered
  <2>2. list[i][2] >= 1 /\ list[i][2] <= group[list[i][1]]
    BY <1>7 DEF AllKnown, Known
  <2> QED
    BY <1>6, <2>1, <2>2
<1>8. TypeOK'
  BY <1>3, <1>4 DEF Inv, TypeOK
<1>9. Place'
  <2>1. \A r \in Streams : group[r] <= Len(stream'[r])
    <3> SUFFICES ASSUME NEW r \in Streams PROVE group[r] <= Len(stream'[r])
      OBVIOUS
    <3>1. group[r] \in Nat /\ group[r] <= Len(stream[r])
      BY <1>1 DEF Inv, Place
    <3> QED
      BY <1>5, <3>1
  <2>2. 1 \in DOMAIN todo => stream'[todo[1][1]][todo[1][2]] = stream[todo[1][1]][todo[1][2]]
    BY <1>1, <1>7 DEF Inv, Order
  <2> QED
    BY <1>3, <2>1, <2>2 DEF Inv, Place, Due
<1>10. Order'
  <2>1. ASSUME NEW c \in Chats PROVE AllDue(received[c])'
    <3>1. AllDue(received[c]) /\ AllKnown(group, received[c])
      BY DEF Inv, Order
    <3>2. \A i \in DOMAIN received[c] :
            stream'[received[c][i][1]][received[c][i][2]] = stream[received[c][i][1]][received[c][i][2]]
      BY <1>1, <1>7, <3>1
    <3> QED
      BY <1>3, <3>1, <3>2 DEF AllDue, Due
  <2> QED
    BY <1>3, <2>1 DEF Inv, Order
<1>11. ASSUME NEW r \in Streams, NEW n \in Nat, n >= 1, n <= group[r]
       PROVE  Due(<<r, n>>)' = Due(<<r, n>>)
  BY <1>6, <1>11 DEF Due
<1> QED
  BY <1>8, <1>9, <1>10, <1>11 DEF Inv

\* Nothing but the delivered entries and the place of the loop changes.
LEMMA IdleInOrder ==
  ASSUME Inv, UNCHANGED <<stream, authorized, received>>, todo' = <<>>, left' = {},
         pc' \in {"down", "groupOpportunities", "groupTrades", "dead", "read", "sleep"},
         group' \in {group, Delivered}, {unsent', errors', crashes'} \subseteq Nat
  PROVE  Inv'
<1>1. /\ Delivered \in [Streams -> Nat]
      /\ \A s \in Streams : group[s] <= Delivered[s] /\ Delivered[s] <= Len(stream[s])
  BY ReadsOn DEF Inv
<1>2. /\ group' \in [Streams -> Nat]
      /\ \A s \in Streams : group[s] <= group'[s] /\ group'[s] <= Len(stream[s])
  <2>1. \A s \in Streams : group[s] <= group[s] /\ group[s] <= Len(stream[s])
    BY DEF Inv, TypeOK, Place
  <2> QED
    BY <1>1, <2>1 DEF Inv, TypeOK
<1>3. TypeOK'
  BY <1>2 DEF Inv, TypeOK
<1>4. Place'
  BY <1>2 DEF Inv, Place
<1>5. Order'
  <2>1. ASSUME NEW c \in Chats PROVE AllKnown(group', received[c])
    <3> SUFFICES ASSUME NEW i \in DOMAIN received[c] PROVE Known(group', received[c][i])
      BY DEF AllKnown
    <3>1. received[c] \in Seq(Numbered)
      BY DEF Inv, TypeOK, Numbered
    <3>2. received[c][i] \in Numbered
      BY <3>1
    <3> DEFINE s == received[c][i][1]
               n == received[c][i][2]
    <3>3. s \in Streams /\ n \in Nat
      BY <3>2 DEF Numbered
    <3>4. n >= 1 /\ n <= group[s]
      BY DEF Inv, Order, AllKnown, Known
    <3> HIDE DEF s, n
    <3>5. group[s] \in Nat /\ group'[s] \in Nat /\ group[s] <= group'[s]
      BY <1>2, <3>3 DEF Inv, TypeOK
    <3>6. n <= group'[s]
      BY <3>3, <3>4, <3>5
    <3> QED
      BY <3>4, <3>6 DEF Known, s, n
  <2>2. \A c \in Chats : AllDue(received[c]) => AllDue(received[c])'
    BY DEF AllDue, Due
  <2>3. AllKnown(group', <<>>) /\ Sorted(<<>>)
    BY DEF AllKnown, Sorted
  <2>4. \A c \in Chats : Sorted(received[c]) /\ AllDue(received[c])
    BY DEF Inv, Order
  <2> QED
    BY <2>1, <2>2, <2>3, <2>4 DEF Order
<1> QED
  BY <1>3, <1>4, <1>5 DEF Inv


\* A chat that a message arrives at, and those that are still to be told.
LEMMA SendHears ==
  ASSUME Inv, NEW c \in left, pc = "send",
         Arrives(c) \/ UNCHANGED received
  PROVE  /\ Heard(left \ {c}) /\ c \in Chats /\ 1 \in DOMAIN todo /\ todo[1] \in Numbered
         /\ \A d \in Chats : d # c => received'[d] = received[d]
         /\ received'[c] \in {received[c], Append(received[c], todo[1])}
<1>1. /\ received \in [Chats -> Seq(Numbered)] /\ left \subseteq Chats
      /\ todo \in Seq(Numbered) /\ 1 \in DOMAIN todo
  BY DEF Inv, TypeOK, Place, Numbered
<1>2. c \in Chats /\ todo[1] \in Numbered /\ Head(todo) = todo[1]
  BY <1>1
<1>3. CASE UNCHANGED received
  BY <1>1, <1>2, <1>3 DEF Heard
<1>4. CASE Arrives(c)
  <2>1. received' = [received EXCEPT ![c] = Append(received[c], todo[1])]
    BY <1>2, <1>4 DEF Arrives
  <2>2. Append(received[c], todo[1]) \in Seq(Numbered)
    BY <1>1, <1>2, AppendProperties
  <2> QED
    BY <1>1, <1>2, <2>1, <2>2 DEF Heard
<1> QED
  BY <1>3, <1>4

LEMMA StepsInOrder == ASSUME Inv, [Next]_vars PROVE Inv'
<1> TypeOK /\ Place
  BY DEF Inv
<1>1. errors + 1 \in Nat /\ crashes + 1 \in Nat /\ unsent + 1 \in Nat
      /\ {unsent, errors, crashes} \subseteq Nat
  BY DEF TypeOK
<1>2. CASE CreateGroup
  <2>1. UNCHANGED <<stream, group, authorized, received>> /\ todo' = <<>> /\ left' = {}
        /\ pc' \in {"groupTrades", "read"} /\ {unsent', errors', crashes'} \subseteq Nat
    BY <1>1, <1>2 DEF CreateGroup, outside, Place
  <2> QED
    BY <2>1, IdleInOrder
<1>3. CASE CreateGroupFails
  BY <1>1, <1>3, IdleInOrder DEF CreateGroupFails, Error, outside, Place
<1>4. CASE Read
  BY <1>4, ReadInOrder
<1>5. CASE ReadFails
  BY <1>1, <1>5, IdleInOrder DEF ReadFails, Error, Place
<1>6. CASE Wake
  BY <1>1, <1>6, IdleInOrder DEF Wake, outside, Place
<1>7. CASE Members \/ MembersFails
  <2>1. /\ pc = "members" /\ UNCHANGED outside /\ {unsent', errors', crashes'} \subseteq Nat
        /\ NotifyAll(authorized) \/ NotifyAll({})
    BY <1>1, <1>7 DEF Members, MembersFails, Error
  <2>2. Heard(authorized) /\ Heard({}) /\ UNCHANGED <<stream, group, authorized>>
    BY <2>1 DEF Heard, outside, TypeOK, Numbered
  <2>3. Notifies(authorized) \/ Notifies({})
    BY <2>1, <2>2 DEF Notifies
  <2> QED
    BY <2>3, NotifiesInOrder
<1>8. ASSUME NEW c \in Chats, Send(c) \/ SendFails(c) PROVE Inv'
  <2>1. /\ pc = "send" /\ c \in left /\ NotifyAll(left \ {c})
        /\ (Arrives(c) \/ UNCHANGED outside)
        /\ {unsent', errors', crashes'} \subseteq Nat
    BY <1>1, <1>8 DEF Send, SendFails, SendRaises
  <2>2. UNCHANGED <<stream, group, authorized>> /\ (Arrives(c) \/ UNCHANGED received)
    BY <2>1 DEF Arrives, outside
  <2>3. Heard(left \ {c})
    BY <2>1, <2>2, SendHears
  <2>4. left \ {c} \subseteq authorized /\ left \ {c} \subseteq left
    BY DEF Place
  <2>5. Notifies(left \ {c})
    BY <2>1, <2>2, <2>3, <2>4 DEF Notifies
  <2> QED
    BY <2>5, NotifiesInOrder
<1>9. CASE Boot
  BY <1>1, <1>9, IdleInOrder DEF Boot, outside, Place
<1>10. CASE Crash
  <2>1. /\ pc' = "down" /\ todo' = <<>> /\ left' = {} /\ {unsent', errors', crashes'} \subseteq Nat
        /\ UNCHANGED <<stream, authorized>>
    BY <1>1, <1>10 DEF Crash, Arrives, outside
  <2>2. CASE UNCHANGED received
    <3>1. group' \in {group, Delivered}
      BY <1>10 DEF Crash, Arrives, outside
    <3> QED
      BY <2>1, <2>2, <3>1, IdleInOrder
  <2>3. CASE pc = "send" /\ \E c \in left : Arrives(c)
    <3>1. PICK c \in left : Arrives(c)
      BY <2>3
    <3>2. Heard(left \ {c}) /\ UNCHANGED group
      BY <2>3, <3>1, SendHears DEF Arrives
    <3>3. \A d \in Chats : HeardIt(d)
      BY <2>3, <3>2, ArrivesInOrder
    <3>4. TypeOK'
      BY <2>1, <3>2 DEF TypeOK, Heard, Numbered
    <3>5. Place'
      BY <2>1, <3>2 DEF Place
    <3>6. AllKnown(group', <<>>) /\ Sorted(<<>>)
      BY DEF AllKnown, Sorted
    <3>7. \A d \in Chats : AllDue(received'[d]) => AllDue(received[d])'
      BY <2>1 DEF AllDue, Due
    <3>8. Order'
      BY <2>1, <3>2, <3>3, <3>6, <3>7 DEF Order, HeardIt
    <3> QED
      BY <3>4, <3>5, <3>8 DEF Inv
  <2> QED
    BY <1>10, <2>2, <2>3 DEF Crash, outside
<1>11. ASSUME NEW s \in Streams, Publish(s) PROVE Inv'
  BY <1>11, PublishInOrder
<1>12. CASE UNCHANGED vars
  BY <1>12 DEF vars, outside, process, Inv, TypeOK, Place, Order, AllDue, Due
<1> QED
  BY <1>2, <1>3, <1>4, <1>5, <1>6, <1>7, <1>8, <1>9, <1>10, <1>11, <1>12 DEF Next, LoopStep

LEMMA OrderInvariant == Spec => []Inv
<1>1. Init => Inv
  BY StartsInOrder
<1>2. Inv /\ [Next]_vars => Inv'
  BY StepsInOrder
<1> QED
  BY <1>1, <1>2, PTL DEF Spec

\* Type correctness: an entry in hand is one that was delivered.
THEOREM TypeCorrect == Spec => []TypeOK
<1>1. Inv => TypeOK
  BY DEF Inv
<1> QED
  BY <1>1, OrderInvariant, PTL


---------------------------------------------------------------------------------
(* What the chats miss. *)

\* The entries that are no longer to be sent to a chat, and those of them it should
\* have heard of and has not.
Passed(c, e) ==
  /\ e[2] <= group[e[1]]
  /\ e \in ToSet(todo) => pc = "send" /\ e = todo[1] /\ c \notin left
Skipped(c) == {e \in Entries : Passed(c, e) /\ Due(e) /\ e \notin ToSet(received[c])}

Costs ==
  errors = 0 /\ crashes = 0 =>
    SumFunction([c \in authorized |-> Cardinality(Skipped(c))]) <= unsent

LEMMA EntriesFinite ==
  /\ IsFiniteSet(Entries)
  /\ \A e \in Entries : e \in Numbered /\ e[1] \in Streams /\ e[2] \in Nat /\ e[2] >= 1
                        /\ e = <<e[1], e[2]>>
<1>1. Entries = Streams \X (1 .. MaxStream)
  BY DEF Entries
<1>2. IsFiniteSet(Streams) /\ IsFiniteSet(1 .. MaxStream)
  <2>1. Streams = {} \cup {"opportunities"} \cup {"trades"} /\ IsFiniteSet({})
    BY FS_EmptySet DEF Streams
  <2>2. IsFiniteSet({} \cup {"opportunities"})
    BY <2>1, FS_AddElement
  <2>3. IsFiniteSet(Streams)
    BY <2>1, <2>2, FS_AddElement
  <2>4. MaxStream \in Nat
    BY NotifierAssumption
  <2> QED
    BY <2>3, <2>4, CountUpTo
<1>3. IsFiniteSet(Streams \X (1 .. MaxStream))
  BY <1>2, FS_Product
<1>4. \A e \in Streams \X (1 .. MaxStream) :
        e \in Numbered /\ e[1] \in Streams /\ e[2] \in Nat /\ e[2] >= 1 /\ e = <<e[1], e[2]>>
  BY NotifierAssumption DEF Numbered
<1> QED
  BY <1>1, <1>3, <1>4

\* The sum of the misses does not grow if none of the terms does.
LEMMA NoCost ==
  ASSUME TypeOK, Costs, UNCHANGED <<authorized, unsent, errors, crashes>>,
         \A c \in authorized : Skipped(c)' \subseteq Skipped(c)
  PROVE  Costs'
<1> DEFINE f == [c \in authorized |-> Cardinality(Skipped(c))]
           e == [c \in authorized |-> Cardinality(Skipped(c)')]
<1>1. ASSUME NEW c \in authorized
      PROVE  e[c] \in Int /\ f[c] \in Int /\ e[c] <= f[c]
  <2>1. Skipped(c) \subseteq Entries /\ IsFiniteSet(Entries)
    BY EntriesFinite DEF Skipped
  <2>2. IsFiniteSet(Skipped(c))
    BY <2>1, FS_Subset
  <2>3. /\ Cardinality(Skipped(c)') \in Nat /\ Cardinality(Skipped(c)) \in Nat
        /\ Cardinality(Skipped(c)') <= Cardinality(Skipped(c))
    <3>1. Skipped(c)' \in SUBSET Skipped(c)
      OBVIOUS
    <3> QED
      BY <2>2, <3>1, NotMore
  <2> QED
    BY <2>3
<1>2. IsFiniteSet(authorized)
  BY NotifierAssumption, FS_Subset DEF TypeOK
<1> DEFINE was == SumFunctionOnSet(f, authorized)
           is == SumFunctionOnSet(e, authorized)
<1>3. is <= was /\ is \in Int /\ was \in Int
  <2> HIDE DEF e, f
  <2> QED
    BY <1>1, <1>2, SumNotMore, SumOnSet
<1>4. SumFunction(f) = was /\ SumFunction(e) = is
  BY DEF SumFunction
<1>5. SumFunction([c \in authorized |-> Cardinality(Skipped(c))])' = is
  BY <1>4
<1> HIDE DEF was, is
<1>6. SUFFICES ASSUME errors' = 0, crashes' = 0 PROVE is <= unsent'
  BY <1>5 DEF Costs
<1>7. was <= unsent /\ unsent' = unsent /\ unsent \in Nat
  BY <1>4, <1>6 DEF Costs, TypeOK
<1> QED
  BY <1>3, <1>7


\* A failure that costs one chat one message costs the sum one.
LEMMA OneCost ==
  ASSUME TypeOK, Costs, UNCHANGED <<authorized, errors, crashes>>, unsent' = unsent + 1,
         NEW y \in authorized, NEW m, Skipped(y)' \subseteq Skipped(y) \cup {m},
         \A c \in authorized \ {y} : Skipped(c)' \subseteq Skipped(c)
  PROVE  Costs'
<1> DEFINE f == [c \in authorized |-> Cardinality(Skipped(c))]
           e == [c \in authorized |-> Cardinality(Skipped(c)')]
<1>1. ASSUME NEW c \in authorized
      PROVE  /\ e[c] \in Int /\ f[c] \in Int
             /\ c # y => e[c] <= f[c]
             /\ c = y => e[c] <= f[c] + 1
  <2>1. Skipped(c) \subseteq Entries /\ IsFiniteSet(Entries)
    BY EntriesFinite DEF Skipped
  <2>2. IsFiniteSet(Skipped(c))
    BY <2>1, FS_Subset
  <2>3. CASE c # y
    <3>1. Skipped(c)' \in SUBSET Skipped(c)
      BY <2>3
    <3>2. /\ Cardinality(Skipped(c)') \in Nat /\ Cardinality(Skipped(c)) \in Nat
          /\ Cardinality(Skipped(c)') <= Cardinality(Skipped(c))
      BY <2>2, <3>1, NotMore
    <3> QED
      BY <2>3, <3>2
  <2>4. CASE c = y
    <3>1. Skipped(c)' \subseteq Skipped(c) \cup {m}
      BY <2>4
    <3>2. /\ Cardinality(Skipped(c)') \in Nat /\ Cardinality(Skipped(c)) \in Nat
          /\ Cardinality(Skipped(c)') <= Cardinality(Skipped(c)) + 1
      BY <2>2, <3>1, OneMore, FS_CardinalityType
    <3> QED
      BY <2>4, <3>2
  <2> QED
    BY <2>3, <2>4
<1>2. IsFiniteSet(authorized)
  BY NotifierAssumption, FS_Subset DEF TypeOK
<1> DEFINE was == SumFunctionOnSet(f, authorized)
           is == SumFunctionOnSet(e, authorized)
<1>3. is <= was + 1 /\ is \in Int /\ was \in Int
  <2> HIDE DEF e, f
  <2> QED
    BY <1>1, <1>2, SumOneMore, SumOnSet
<1>4. SumFunction(f) = was /\ SumFunction(e) = is
  BY DEF SumFunction
<1>5. SumFunction([c \in authorized |-> Cardinality(Skipped(c))])' = is
  BY <1>4
<1> HIDE DEF was, is
<1>6. SUFFICES ASSUME errors' = 0, crashes' = 0 PROVE is <= unsent'
  BY <1>5 DEF Costs
<1>7. was <= unsent /\ unsent' = unsent + 1 /\ unsent \in Nat
  BY <1>4, <1>6 DEF Costs, TypeOK
<1> QED
  BY <1>3, <1>7

\* After failures of other kinds nothing is claimed.
LEMMA Excused == ASSUME errors' # 0 \/ crashes' # 0 PROVE Costs'
BY DEF Costs

\* What the loop leaves of the entries in hand was handled, or is not due.
LEMMA NothingDropped ==
  ASSUME Inv, NEW e \in Entries, UNCHANGED stream, Due(e),
         pc \in {"members", "send"}, Taken(Tail(todo)), e \notin ToSet(todo')
  PROVE  e \notin ToSet(todo) \/ e = todo[1]
<1>1. todo \in Seq(Numbered) /\ 1 \in DOMAIN todo
  BY DEF Inv, TypeOK, Place, Numbered
<1>2. ASSUME e \in ToSet(Tail(todo)) PROVE FALSE
  <2>1. PICK i \in DOMAIN Tail(todo) : e = Tail(todo)[i]
    BY <1>2 DEF ToSet
  <2> QED
    BY <2>1 DEF Taken
<1>3. ASSUME e \in ToSet(todo) PROVE e = todo[1]
  <2>1. PICK i \in DOMAIN todo : e = todo[i]
    BY <1>3 DEF ToSet
  <2>2. i = 1 \/ todo[i] \in ToSet(Tail(todo))
    BY <1>1, TailOfTodo
  <2> QED
    BY <1>2, <2>1, <2>2
<1> QED
  BY <1>3

\* Sending to a chat: only that chat is through with the entry, and when it has
\* received the entry it misses nothing.
LEMMA SendCosts ==
  ASSUME Inv, NEW y \in left, pc = "send", NotifyAll(left \ {y}),
         Arrives(y) \/ UNCHANGED received, UNCHANGED <<stream, group, authorized>>
  PROVE  /\ \A c \in authorized \ {y} : Skipped(c)' \subseteq Skipped(c)
         /\ Skipped(y)' \subseteq Skipped(y) \cup {todo[1]}
         /\ Arrives(y) => Skipped(y)' \subseteq Skipped(y)
<1>1. /\ todo \in Seq(Numbered) /\ 1 \in DOMAIN todo /\ authorized \subseteq Chats
      /\ left \subseteq authorized
  BY DEF Inv, TypeOK, Place, Numbered
<1>2. /\ \A d \in Chats : d # y => received'[d] = received[d]
      /\ received'[y] \in {received[y], Append(received[y], todo[1])}
      /\ received[y] \in Seq(Numbered) /\ received'[y] \in Seq(Numbered)
  <2>1. /\ Heard(left \ {y}) /\ y \in Chats
        /\ \A d \in Chats : d # y => received'[d] = received[d]
        /\ received'[y] \in {received[y], Append(received[y], todo[1])}
    BY SendHears
  <2>2. received \in [Chats -> Seq(Numbered)] /\ received' \in [Chats -> Seq(Numbered)]
    BY <2>1 DEF Heard, Inv, TypeOK, Numbered
  <2> QED
    BY <2>1, <2>2
<1>3. /\ ToSet(received[y]) \subseteq ToSet(received'[y])
      /\ Arrives(y) => todo[1] \in ToSet(received'[y])
  <2> DEFINE old == received[y]
             new == Append(old, todo[1])
  <2>1. /\ DOMAIN new = DOMAIN old \cup {Len(old) + 1} /\ new[Len(old) + 1] = todo[1]
        /\ \A i \in DOMAIN old : new[i] = old[i]
    BY <1>2, AppendAny
  <2>2. Arrives(y) => received'[y] = Append(received[y], todo[1])
    <3>1. Head(todo) = todo[1] /\ y \in Chats /\ received \in [Chats -> Seq(Numbered)]
      BY <1>1 DEF Inv, TypeOK, Numbered
    <3> QED
      BY <3>1 DEF Arrives
  <2>3. ToSet(old) \subseteq ToSet(new) /\ todo[1] \in ToSet(new)
    <3> HIDE DEF old, new
    <3> QED
      BY <2>1 DEF ToSet
  <2> QED
    BY <1>2, <2>2, <2>3
<1>4. ASSUME NEW c \in authorized, NEW e \in Skipped(c)'
      PROVE  /\ e \in Entries /\ Due(e) /\ e \notin ToSet(received[c]) /\ e \notin ToSet(received'[c])
             /\ e \in Skipped(c) \/ (c = y /\ e = todo[1])
  <2>1. /\ e \in Entries /\ Due(e) /\ e \notin ToSet(received'[c]) /\ e[2] <= group[e[1]]
        /\ e \in ToSet(todo') => pc' = "send" /\ e = todo'[1] /\ c \notin left'
    BY DEF Skipped, Passed, Due, Entries
  <2>2. e \notin ToSet(received[c])
    BY <1>1, <1>2, <1>3, <2>1
  <2>3. CASE left \ {y} # {}
    <3>1. todo' = todo /\ left' = left \ {y}
      BY <2>3 DEF NotifyAll
    <3> QED
      BY <2>1, <2>2, <3>1 DEF Skipped, Passed
  <2>4. CASE left \ {y} = {}
    <3>1. Handle(Tail(todo)) /\ Tail(todo) \in Seq(Numbered)
      BY <1>1, <2>4, TailOfTodo DEF NotifyAll
    <3>2. Taken(Tail(todo))
      BY <3>1, HandleTakes
    <3>3. e \notin ToSet(todo')
      BY <2>1, <3>2 DEF Taken
    <3>4. e \notin ToSet(todo) \/ e = todo[1]
      BY <2>1, <3>2, <3>3, NothingDropped
    <3>5. c # y => c \notin left
      BY <2>4
    <3> QED
      BY <2>1, <2>2, <3>4, <3>5 DEF Skipped, Passed
  <2> QED
    BY <2>1, <2>2, <2>3, <2>4
<1>5. y \in authorized
  BY <1>1
<1> QED
  BY <1>3, <1>4, <1>5


LEMMA CostsExplained == ASSUME Inv, Costs, [Next]_vars PROVE Costs'
<1> TypeOK /\ Place
  BY DEF Inv
<1>1. ASSUME UNCHANGED <<stream, group, authorized, received, unsent, errors, crashes>>,
             todo = <<>>, pc' # "send"
      PROVE  Costs'
  <2>1. \A c : \A e \in Entries : e \in Skipped(c)' => e \in Skipped(c)
    BY <1>1 DEF Skipped, Passed, Due, Entries, ToSet
  <2>2. \A c \in authorized : Skipped(c)' \subseteq Skipped(c)
    BY <2>1 DEF Skipped, Entries
  <2> QED
    BY <1>1, <2>2, NoCost
<1>2. CASE CreateGroup \/ Wake \/ Boot
  <2>1. /\ UNCHANGED <<stream, group, authorized, received, unsent, errors, crashes>>
        /\ todo = <<>> /\ pc' # "send"
    BY <1>2 DEF CreateGroup, Wake, Boot, outside, Place
  <2> QED
    BY <1>1, <2>1
<1>3. CASE CreateGroupFails \/ ReadFails \/ MembersFails \/ Crash
  <2>1. errors \in Nat /\ crashes \in Nat
    BY DEF TypeOK
  <2>2. errors' = errors + 1 \/ crashes' = crashes + 1
    BY <1>3 DEF CreateGroupFails, ReadFails, MembersFails, Crash, Error
  <2>3. errors' # 0 \/ crashes' # 0
    BY <2>1, <2>2
  <2> QED
    BY <2>3, Excused
<1>4. CASE Read
  <2> DEFINE both == New("opportunities") \o New("trades")
  <2>1. /\ todo = <<>> /\ group' = Delivered /\ Handle(both)
        /\ UNCHANGED <<stream, authorized, received, unsent, errors, crashes>>
    BY <1>4 DEF Read, Place
  <2>2. \A s \in Streams : NewOf(s) /\ Delivered[s] \in Nat
    BY ReadsOn DEF Inv
  <2>3. /\ both \in Seq(Numbered)
        /\ \A s \in Streams : ToSet(New(s)) \subseteq ToSet(both)
    <3>1. New("opportunities") \in Seq(Numbered) /\ New("trades") \in Seq(Numbered)
      BY <2>2 DEF NewOf, Streams
    <3> QED
      BY <3>1, SetOfConcat DEF Streams
  <2> HIDE DEF both
  <2>4. Taken(both)
    BY <2>1, <2>3, HandleTakes
  <2>5. ASSUME NEW c \in authorized, NEW e \in Skipped(c)' PROVE e \in Skipped(c)
    <3>1. /\ e \in Entries /\ Due(e) /\ e \notin ToSet(received[c]) /\ e[2] <= Delivered[e[1]]
          /\ e \in ToSet(todo') => pc' = "send"
      BY <2>1, <2>5 DEF Skipped, Passed, Due, Entries
    <3>2. e \notin ToSet(todo')
      BY <2>4, <3>1 DEF Taken
    <3>3. e \notin ToSet(both)
      BY <2>4, <3>1, <3>2 DEF Taken, ToSet
    <3>4. e[1] \in Streams /\ e[2] \in Nat /\ e[2] >= 1 /\ e = <<e[1], e[2]>>
      BY <3>1, EntriesFinite
    <3>5. e[2] \in 1 .. Delivered[e[1]]
      BY <2>2, <3>1, <3>4
    <3>6. ~(e[2] > group[e[1]])
      BY <2>2, <2>3, <3>3, <3>4, <3>5 DEF NewOf
    <3>7. e[2] <= group[e[1]]
      BY <3>4, <3>6 DEF TypeOK
    <3> QED
      BY <2>1, <3>1, <3>7 DEF Skipped, Passed, ToSet
  <2>6. \A c \in authorized : Skipped(c)' \subseteq Skipped(c)
    BY <2>5
  <2> QED
    BY <2>1, <2>6, NoCost
<1>5. CASE Members
  <2>1. UNCHANGED <<stream, group, authorized, received, unsent, errors, crashes>>
    BY <1>5 DEF Members, outside
  <2>2. ASSUME NEW c \in authorized, NEW e \in Skipped(c)' PROVE e \in Skipped(c)
    <3>1. todo' = todo /\ left' = authorized /\ pc = "members"
      BY <1>5, <2>2 DEF Members, NotifyAll
    <3> QED
      BY <2>1, <2>2, <3>1 DEF Skipped, Passed, Due, Entries
  <2>3. \A c \in authorized : Skipped(c)' \subseteq Skipped(c)
    BY <2>2
  <2> QED
    BY <2>1, <2>3, NoCost
<1>6. ASSUME NEW y \in Chats, Send(y) PROVE Costs'
  <2>1. /\ pc = "send" /\ y \in left /\ Arrives(y) /\ NotifyAll(left \ {y})
        /\ UNCHANGED <<unsent, errors, crashes>> /\ UNCHANGED <<stream, group, authorized>>
    BY <1>6 DEF Send, Arrives
  <2>2. \A c \in authorized : Skipped(c)' \subseteq Skipped(c)
    BY <2>1, SendCosts
  <2> QED
    BY <2>1, <2>2, NoCost
<1>7. ASSUME NEW y \in Chats, SendFails(y) PROVE Costs'
  <2>1. /\ pc = "send" /\ y \in left /\ (Arrives(y) \/ UNCHANGED outside)
        /\ NotifyAll(left \ {y}) /\ unsent' = unsent + 1 /\ UNCHANGED <<errors, crashes>>
    BY <1>7 DEF SendFails, SendRaises
  <2>2. (Arrives(y) \/ UNCHANGED received) /\ UNCHANGED <<stream, group, authorized>>
    BY <2>1 DEF Arrives, outside
  <2>3. /\ \A c \in authorized \ {y} : Skipped(c)' \subseteq Skipped(c)
        /\ Skipped(y)' \subseteq Skipped(y) \cup {todo[1]}
    BY <2>1, <2>2, SendCosts
  <2>4. y \in authorized
    BY <2>1 DEF Place
  <2> QED
    BY <2>1, <2>2, <2>3, <2>4, OneCost
<1>8. ASSUME NEW s \in Streams, Publish(s) PROVE Costs'
  <2>1. UNCHANGED <<group, authorized, received, pc, todo, left, unsent, errors, crashes>>
    BY <1>8 DEF Publish, process
  <2>2. \A r \in Streams : \A n \in Nat : n >= 1 /\ n <= group[r] => Due(<<r, n>>)' = Due(<<r, n>>)
    BY <1>8, PublishInOrder
  <2>3. ASSUME NEW c \in authorized, NEW e \in Skipped(c)' PROVE e \in Skipped(c)
    <3>1. e \in Entries /\ Passed(c, e) /\ e \notin ToSet(received[c])
      BY <2>1, <2>3 DEF Skipped, Passed, Entries
    <3>2. Due(e)'
      BY <2>3 DEF Skipped, Entries, Due
    <3>3. e[1] \in Streams /\ e[2] \in Nat /\ e[2] >= 1 /\ e[2] <= group[e[1]]
      BY <3>1, EntriesFinite DEF Passed
    <3>4. stream'[e[1]][e[2]] = stream[e[1]][e[2]]
      BY <2>2, <3>3 DEF Due
    <3> QED
      BY <3>1, <3>2, <3>4 DEF Skipped, Due
  <2>4. \A c \in authorized : Skipped(c)' \subseteq Skipped(c)
    BY <2>3
  <2> QED
    BY <2>1, <2>4, NoCost
<1>9. CASE UNCHANGED vars
  <2>1. UNCHANGED <<stream, group, authorized, received, pc, todo, left, unsent, errors, crashes>>
    BY <1>9 DEF vars, outside, process
  <2>2. ASSUME NEW c \in authorized, NEW e \in Skipped(c)' PROVE e \in Skipped(c)
    BY <2>1, <2>2 DEF Skipped, Passed, Due, Entries
  <2>3. \A c \in authorized : Skipped(c)' \subseteq Skipped(c)
    BY <2>2
  <2> QED
    BY <2>1, <2>3, NoCost
<1> QED
  BY <1>2, <1>3, <1>4, <1>5, <1>6, <1>7, <1>8, <1>9 DEF Next, LoopStep

LEMMA CostsInvariant == Spec => [](Inv /\ Costs)
<1>1. Init => Inv /\ Costs
  <2> SUFFICES ASSUME Init PROVE Costs
    BY StartsInOrder
  <2>1. Inv
    BY StartsInOrder
  <2> DEFINE e == [c \in authorized |-> Cardinality(Skipped(c))]
             zero == [c \in authorized |-> 0]
  <2>2. \A c \in authorized : Skipped(c) = {}
    <3> SUFFICES ASSUME NEW c \in authorized, NEW x \in Skipped(c) PROVE FALSE
      OBVIOUS
    <3>1. x \in Entries /\ x[2] <= group[x[1]]
      BY DEF Skipped, Passed
    <3>2. x[1] \in Streams /\ x[2] \in Nat /\ x[2] >= 1 /\ group[x[1]] = 0
      BY <3>1, EntriesFinite DEF Init
    <3> QED
      BY <3>1, <3>2
  <2>3. e = zero
    BY <2>2, FS_EmptySet
  <2>4. IsFiniteSet(authorized)
    BY <2>1, NotifierAssumption, FS_Subset DEF Inv, TypeOK
  <2>5. SumFunctionOnSet(zero, authorized) = 0
    <3> DEFINE Q == {T \in SUBSET authorized : SumFunctionOnSet(zero, T) = 0}
    <3>1. ASSUME NEW T \in SUBSET authorized
          PROVE  /\ T = {} => SumFunctionOnSet(zero, T) = 0
                 /\ \A x \in T : SumFunctionOnSet(zero, T) = 0 + SumFunctionOnSet(zero, T \ {x})
      <4>1. IsFiniteSet(T) /\ \A x \in T : zero[x] \in Int /\ zero[x] = 0
        BY <2>4, FS_Subset
      <4> HIDE DEF zero
      <4> QED
        BY <4>1, SumOnSet
    <3> HIDE DEF zero
    <3>2. {} \in Q
      BY <3>1
    <3>3. ASSUME NEW T \in SUBSET authorized, T # {}, \A x \in T : T \ {x} \in Q PROVE T \in Q
      <4>1. PICK x \in T : SumFunctionOnSet(zero, T \ {x}) = 0
        BY <3>3
      <4>2. SumFunctionOnSet(zero, T) = 0 + 0
        BY <3>1, <4>1
      <4> QED
        BY <4>2
    <3> HIDE DEF Q
    <3>4. SUBSET authorized \subseteq Q
      BY <2>4, <3>2, <3>3, SetInduct
    <3> QED
      BY <3>4 DEF Q
  <2>6. SumFunction(e) = 0
    BY <2>3, <2>5 DEF SumFunction
  <2> QED
    BY <2>6 DEF Costs, Init
<1>2. Inv /\ Costs /\ [Next]_vars => Inv' /\ Costs'
  BY StepsInOrder, CostsExplained
<1> QED
  BY <1>1, <1>2, PTL DEF Spec

\* A chat hears of every due entry once and in the order of the streams, whatever fails
\* or restarts; while only send_message fails, each failure costs one chat one message
\* at most.
THEOREM Told == Spec => []ToldOnce
<1>1. ASSUME Inv PROVE ReceivedInOrder
  BY <1>1 DEF Inv, Order, AllDue, Sorted, Before, ReceivedInOrder
<1>2. ASSUME Inv, Costs PROVE MissedExplained
  <2> SUFFICES ASSUME errors = 0, crashes = 0
               PROVE  SumFunction([c \in authorized |-> Cardinality(MissedBy(c))]) <= unsent
    BY DEF MissedExplained
  <2> DEFINE e == [c \in authorized |-> Cardinality(MissedBy(c))]
             f == [c \in authorized |-> Cardinality(Skipped(c))]
  <2>1. ASSUME NEW c \in authorized PROVE e[c] \in Int /\ f[c] \in Int /\ e[c] <= f[c]
    <3>1. Skipped(c) \subseteq Entries /\ IsFiniteSet(Entries)
      BY EntriesFinite DEF Skipped
    <3>2. IsFiniteSet(Skipped(c))
      BY <3>1, FS_Subset
    <3>3. MissedBy(c) \in SUBSET Skipped(c)
      BY DEF MissedBy, Handled, Skipped, Passed
    <3>4. /\ Cardinality(MissedBy(c)) \in Nat /\ Cardinality(Skipped(c)) \in Nat
          /\ Cardinality(MissedBy(c)) <= Cardinality(Skipped(c))
      BY <3>2, <3>3, NotMore
    <3> QED
      BY <3>4
  <2>2. IsFiniteSet(authorized)
    BY <1>2, NotifierAssumption, FS_Subset DEF Inv, TypeOK
  <2> DEFINE missed == SumFunctionOnSet(e, authorized)
             skipped == SumFunctionOnSet(f, authorized)
  <2>3. missed <= skipped /\ missed \in Int /\ skipped \in Int
    <3> HIDE DEF e, f
    <3> QED
      BY <2>1, <2>2, SumNotMore, SumOnSet
  <2>4. SumFunction(e) = missed /\ SumFunction(f) = skipped
    BY DEF SumFunction
  <2> HIDE DEF missed, skipped
  <2>5. skipped <= unsent /\ unsent \in Nat
    BY <1>2, <2>4 DEF Costs, Inv, TypeOK
  <2> QED
    BY <2>3, <2>4, <2>5
<1>3. Inv /\ Costs => ToldOnce
  BY <1>1, <1>2 DEF ToldOnce
<1> QED
  BY <1>3, CostsInvariant, PTL

=================================================================================
