------------------------------- MODULE Notifier --------------------------------
(****************************************************************************)
(* The notifier service: redis_consumer_loop of notifier/main.py, which     *)
(* reads two streams through group notifier-cg, and notify_all of bot.py,   *)
(* which sends a message to each chat of a Redis set.  No service writes    *)
(* that set; somebody filled it before the service was started.             *)
(*                                                                          *)
(* As in Executor, an action performs the call the loop awaits and the code *)
(* up to its next await.  Left out: the texts of messages, the commands     *)
(* that only answer, counters, and the task of TelegramQueue: its list      *)
(* stays empty, since enqueue has no caller.                                *)
(****************************************************************************)
EXTENDS Integers, FiniteSets, SequencesExt

CONSTANTS
  Chats,
  ReadCount,      \* count= of the xreadgroup call (10)
  MaxStream,      \* bound on the entries of each stream
  MaxErrors, MaxCrashes   \* bounds

ASSUME NotifierAssumption ==
  /\ IsFiniteSet(Chats) /\ ReadCount \in Nat \ {0}
  /\ {MaxStream, MaxErrors, MaxCrashes} \subseteq Nat

VARIABLES
  (* Redis and Telegram. *)
  stream,     \* of each of Streams: its entries, TRUE when it is due
  group,      \* of each: the last entry delivered to notifier-cg
  authorized, \* telegram:authorized_chats
  received,   \* of each chat: the entries it got a message of, in order
  (* The process. *)
  pc,         \* the await redis_consumer_loop is in
  todo,       \* the entry being handled and the rest of those read: <<stream, number>>
  left,       \* chats that notify_all has still to send the first of them to
  (* History: read by no action. *)
  unsent,     \* send_message raised so many times
  (* Bounds: all failed calls but those, and ends of the process. *)
  errors, crashes

outside == <<stream, group, authorized, received>>
process == <<pc, todo, left>>
vars    == <<outside, process, unsent, errors, crashes>>

Streams == {"opportunities", "trades"}

Init ==
  /\ stream = [s \in Streams |-> <<>>] /\ group = [s \in Streams |-> 0]
  /\ authorized \in SUBSET Chats /\ received = [c \in Chats |-> <<>>]
  /\ pc = "down" /\ todo = <<>> /\ left = {}
  /\ unsent = 0 /\ errors = 0 /\ crashes = 0

Error == errors + unsent < MaxErrors /\ errors' = errors + 1

\* External: scanner and executor add an entry.  An opportunity is due when its gross
\* spread reaches NOTIFICATION_THRESHOLD, a trade always.
Publish(s) ==
  /\ Len(stream[s]) < MaxStream
  /\ \E due \in BOOLEAN :
       /\ s = "trades" => due
       /\ stream' = [stream EXCEPT ![s] = Append(@, due)]
  /\ UNCHANGED <<group, authorized, received, process, unsent, errors, crashes>>
----------------------------------------------------------------------------
(* lifespan, and the first calls of redis_consumer_loop. *)

Boot ==
  /\ pc = "down" /\ pc' = "groupOpportunities"
  /\ UNCHANGED <<outside, todo, left, unsent, errors, crashes>>

CreateGroup ==
  /\ \/ pc = "groupOpportunities" /\ pc' = "groupTrades"
     \/ pc = "groupTrades" /\ pc' = "read"
  /\ UNCHANGED <<outside, todo, left, unsent, errors, crashes>>

\* An exception other than "already exists" ends the task, unobserved.
CreateGroupFails ==
  /\ pc \in {"groupOpportunities", "groupTrades"} /\ pc' = "dead" /\ Error
  /\ UNCHANGED <<outside, todo, left, unsent, crashes>>
----------------------------------------------------------------------------
(* The loop. *)

Due(e) == stream[e[1]][e[2]]

\* The for loops go on with these entries, up to the next await: smembers of the first
\* that is due, or xreadgroup.
Handle(entries) ==
  LET due == {i \in DOMAIN entries : Due(entries[i])}
  IN  /\ left' = {}
      /\ IF due = {} THEN todo' = <<>> /\ pc' = "read"
         ELSE todo' = SubSeq(entries, Min(due), Len(entries)) /\ pc' = "members"

New(s) ==
  LET n == IF Len(stream[s]) - group[s] < ReadCount THEN Len(stream[s]) - group[s] ELSE ReadCount
  IN  [i \in 1 .. n |-> <<s, group[s] + i>>]

Delivered == [s \in Streams |-> group[s] + Len(New(s))]

\* xreadgroup returns what both streams have, ReadCount entries of each at most; while
\* they have nothing it is called again and again.
Read ==
  /\ pc = "read" /\ Delivered # group /\ group' = Delivered
  /\ Handle(New("opportunities") \o New("trades"))
  /\ UNCHANGED <<stream, authorized, received, unsent, errors, crashes>>

\* An exception, perhaps after the entries were delivered, and sleep(1).
ReadFails ==
  /\ pc = "read" /\ Error /\ pc' = "sleep"
  /\ group' \in {group, Delivered}
  /\ UNCHANGED <<stream, authorized, received, todo, left, unsent, crashes>>

\* Mutant of Wake: the exception has left the loop.
Wake_Outside ==
  /\ pc = "sleep" /\ pc' = "left"
  /\ UNCHANGED <<outside, todo, left, unsent, errors, crashes>>

Wake ==
  /\ pc = "sleep" /\ pc' = "read"
  /\ UNCHANGED <<outside, todo, left, unsent, errors, crashes>>

\* notify_all goes on with these chats, or returns.
NotifyAll(chats) ==
  IF chats = {} THEN Handle(Tail(todo))
  ELSE left' = chats /\ pc' = "send" /\ UNCHANGED todo

Members ==
  /\ pc = "members" /\ NotifyAll(authorized)
  /\ UNCHANGED <<outside, unsent, errors, crashes>>

\* notify_all logs the exception, and the loop goes on with the next entry.
MembersFails ==
  /\ pc = "members" /\ Error /\ NotifyAll({})
  /\ UNCHANGED <<outside, unsent, crashes>>

\* Telegram has the message.
Arrives(c) ==
  /\ received' = [received EXCEPT ![c] = Append(@, Head(todo))]
  /\ UNCHANGED <<stream, group, authorized>>

Send(c) ==
  /\ pc = "send" /\ c \in left /\ Arrives(c) /\ NotifyAll(left \ {c})
  /\ UNCHANGED <<unsent, errors, crashes>>

SendRaises == pc = "send" /\ errors + unsent < MaxErrors /\ unsent' = unsent + 1

\* Mutant of SendFails: a message that failed is sent again.
SendFails_Repeats(c) ==
  /\ SendRaises /\ c \in left
  /\ Arrives(c) \/ UNCHANGED outside
  /\ UNCHANGED <<process, errors, crashes>>

\* send_message raises, perhaps for a message that has arrived.  It is logged, and the
\* next chat has its turn.
SendFails(c) ==
  /\ SendRaises /\ c \in left /\ NotifyAll(left \ {c})
  /\ Arrives(c) \/ UNCHANGED outside
  /\ UNCHANGED <<errors, crashes>>

\* A crash, or the shutdown that cancels the loop at the await it is in; the call under
\* way may have had its effect.
Crash ==
  /\ pc # "down" /\ pc' = "down" /\ todo' = <<>> /\ left' = {}
  /\ crashes < MaxCrashes /\ crashes' = crashes + 1
  /\ \/ UNCHANGED outside
     \/ pc = "send" /\ \E c \in left : Arrives(c)
     \/ /\ pc = "read" /\ group' = Delivered
        /\ UNCHANGED <<stream, authorized, received>>
  /\ UNCHANGED <<unsent, errors>>
----------------------------------------------------------------------------
LoopStep ==
  \/ CreateGroup \/ CreateGroupFails \/ Read \/ ReadFails \/ Wake \/ Members \/ MembersFails
  \/ \E c \in Chats : Send(c) \/ SendFails(c)

Next ==
  \/ LoopStep \/ Boot \/ Crash
  \/ \E s \in Streams : Publish(s)

Spec == Init /\ [][Next]_vars

\* The task runs, its awaits end, and docker-compose restarts the service.
FairSpec == Spec /\ WF_vars(LoopStep) /\ WF_vars(Boot)
----------------------------------------------------------------------------
(* Properties. *)

TypeOK ==
  /\ stream \in [Streams -> Seq(BOOLEAN)]
  /\ group \in [Streams -> Nat] /\ authorized \subseteq Chats
  /\ received \in [Chats -> Seq(Streams \X Nat)]
  /\ pc \in {"down", "groupOpportunities", "groupTrades", "dead", "read", "sleep", "members",
             "send"}
  /\ todo \in Seq(Streams \X Nat) /\ left \subseteq Chats
  /\ {unsent, errors, crashes} \subseteq Nat

\* Of each stream in its order, and of each entry once, if it is due.
ReceivedInOrder ==
  \A c \in Chats : \A i, j \in DOMAIN received[c] :
    /\ Due(received[c][i])
    /\ i < j /\ received[c][i][1] = received[c][j][1] => received[c][i][2] < received[c][j][2]

\* Entries that the loop is through with.
Handled(e) == e[2] <= group[e[1]] /\ e \notin ToSet(todo)
Entries == {<<s, n>> : s \in Streams, n \in 1 .. MaxStream}
MissedBy(c) == {e \in Entries : Handled(e) /\ Due(e) /\ e \notin ToSet(received[c])}

\* While only send_message fails, each failure costs one chat one message at most.
MissedExplained ==
  errors = 0 /\ crashes = 0 =>
    SumFunction([c \in authorized |-> Cardinality(MissedBy(c))]) <= unsent

\* A chat hears of every due entry of both streams exactly once and in stream order,
\* but for failures (main.py:72-112, bot.py:19-34): whatever fails or restarts, none is
\* sent again or out of order; and while only send_message fails, a failure for one chat
\* loses neither the other chats nor the entries after it anything.
ToldOnce == ReceivedInOrder /\ MissedExplained

\* Entries of both streams are handled, neither stream waiting for the other for ever,
\* after any failures and restarts (main.py:72-110); the one exception is a loop that
\* could not create its groups.
NoticesHandled ==
  \A e \in Entries : e[2] <= Len(stream[e[1]]) ~> Handled(e) \/ pc = "dead"
====
