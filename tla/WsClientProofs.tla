---------------------------- MODULE WsClientProofs -----------------------------
(****************************************************************************)
(* Proof that a feed loses no client from sight, ClientsClosed of WsClient, *)
(* for any number of faults.  The invariant says who may hold what: at the  *)
(* head of the loop there is no client, the client being closed is the one  *)
(* held if any is, and once stop() has begun no other comes.                *)
(****************************************************************************)
EXTENDS WsClient, TLAPS

\* Where start() and stop() stand with the client.
Hold ==
  /\ pc = "start" => exchange = 0
  /\ pc \in {"closing", "restClosing"} => exchange \in {closing, 0}
  /\ stopping # "no" => ~running
  /\ stopping = "closing" => exchange \in {stopClosing, 0}

Seen == unclosed \/ (clients \subseteq {exchange} \ {0} /\ (pc = "ended" => clients = {}))

Inv == Hold /\ Seen

\* A new client is none that is open, and not the absent one, when none is open.
LEMMA NewIsOne == clients = {} => NewClient # 0
<1>1. 1 \in Clients
  BY WsClientAssumption DEF Clients
<1> QED
  BY <1>1 DEF NewClient, Clients

\* Each action keeps the relation of start() and stop() to the client.
LEMMA HoldKept == Hold /\ [Next]_vars => Hold'
<1> SUFFICES ASSUME Hold, [Next]_vars PROVE Hold'
  OBVIOUS
<1>1. CASE StartStep
  <2> USE <1>1 DEF Hold, stopVars, AtHead
  <2>1. CASE Leave \/ Connect \/ Book \/ BookEmpty \/ Handed \/ Woken
    BY <2>1 DEF Leave, Connect, Book, BookEmpty, Handed, Woken
  <2>2. CASE ConnectFails \/ WatchFails
    BY <2>2 DEF ConnectFails, WatchFails, Except
  <2>3. CASE Finally \/ Closed \/ CloseFails
    BY <2>3 DEF Finally, Closed, CloseFails
  <2>4. CASE RestLeave \/ RestAsk \/ RestAskFails \/ Ticker
    BY <2>4 DEF RestLeave, RestAsk, RestAskFails, Ticker
  <2>5. CASE RestHanded \/ RestFails \/ RestClosed
    BY <2>5 DEF RestHanded, RestFails, RestClosed
  <2> QED
    BY <2>1, <2>2, <2>3, <2>4, <2>5 DEF StartStep
<1>2. CASE StopStep
  BY <1>2 DEF Hold, StopStep, Stop, StopCloses, StopCloseFails
<1>3. CASE UNCHANGED vars
  BY <1>3 DEF Hold, vars
<1> QED
  BY <1>1, <1>2, <1>3 DEF Next

\* Each action keeps the clients in sight.
LEMMA SeenKept == Inv /\ [Next]_vars => Seen'
<1> SUFFICES ASSUME Hold, Seen, [Next]_vars PROVE Seen'
  BY DEF Inv
<1>1. CASE unclosed
  <2>1. CASE StartStep
    BY <1>1, <2>1 DEF Seen, StartStep, Leave, Connect, ConnectFails, Book, BookEmpty, Handed,
       WatchFails, Woken, Finally, Closed, CloseFails, RestLeave, RestAsk, RestAskFails,
       Ticker, RestHanded, RestFails, RestClosed
  <2>2. CASE StopStep \/ UNCHANGED vars
    BY <1>1, <2>2 DEF Seen, StopStep, Stop, StopCloses, StopCloseFails, vars
  <2> QED
    BY <2>1, <2>2 DEF Next
<1>2. CASE ~unclosed
  <2> USE <1>2 DEF Hold, Seen
  <2>1. CASE Leave
    BY <2>1 DEF Leave, AtHead
  <2>2. CASE Connect
    <3>1. clients = {}
      BY <2>2 DEF Connect, AtHead
    <3> QED
      BY <2>2, <3>1, NewIsOne DEF Connect
  <2>3. CASE ConnectFails \/ WatchFails
    BY <2>3 DEF ConnectFails, WatchFails, Except
  <2>4. CASE Book \/ BookEmpty \/ Handed \/ Woken \/ Finally
    BY <2>4 DEF Book, BookEmpty, Handed, Woken, Finally
  <2>5. CASE Closed \/ CloseFails
    BY <2>5 DEF Closed, CloseFails
  <2>6. CASE RestAsk
    <3>1. CASE exchange = 0
      BY <2>6, <3>1, NewIsOne DEF RestAsk
    <3>2. CASE exchange # 0
      BY <2>6, <3>2 DEF RestAsk
    <3> QED
      BY <3>1, <3>2
  <2>7. CASE RestLeave \/ RestAskFails \/ Ticker \/ RestHanded \/ RestFails
    BY <2>7 DEF RestLeave, RestAskFails, Ticker, RestHanded, RestFails
  <2>8. CASE RestClosed
    BY <2>8 DEF RestClosed
  <2>9. CASE StopStep
    BY <2>9 DEF StopStep, Stop, StopCloses, StopCloseFails
  <2>10. CASE UNCHANGED vars
    BY <2>10 DEF vars
  <2> QED
    BY <2>1, <2>2, <2>3, <2>4, <2>5, <2>6, <2>7, <2>8, <2>9, <2>10 DEF Next, StartStep
<1> QED
  BY <1>1, <1>2

\* The only open client is the one the feed holds, and a feed that ended holds none,
\* unless a close raised (ws_client.py:84-88, 169-180, 195-202).
THEOREM ClientsInSight == Spec => []ClientsClosed
<1>1. Init => Inv
  BY DEF Init, Inv, Hold, Seen
<1>2. Inv /\ [Next]_vars => Inv'
  BY HoldKept, SeenKept DEF Inv
<1>3. Inv => ClientsClosed
  BY DEF Inv, Seen, ClientsClosed
<1> QED
  BY <1>1, <1>2, <1>3, PTL DEF Spec
====
