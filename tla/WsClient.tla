------------------------------- MODULE WsClient --------------------------------
(****************************************************************************)
(* One feed of the collector: ExchangeCollector of ws_client.py, whose      *)
(* start() runs as a task of its own, reads order books over a WebSocket    *)
(* and reconnects, or falls back to polling over REST; stop() runs in the   *)
(* task that shuts the service down.  They share `exchange', the CCXT       *)
(* client, which either may close.                                          *)
(*                                                                          *)
(* A step goes from one await to the next.  Times are in tenths of a second *)
(* and pass in the awaits of start(): a failed call takes one of Took, a    *)
(* sleep its length.  Whatever a call of CCXT or on_tick does wrong is one  *)
(* of at most MaxFaults faults.                                             *)
(****************************************************************************)
EXTENDS Integers, Sequences, FiniteSets

CONSTANTS Took, MaxFaults

ASSUME WsClientAssumption == Took \subseteq Nat /\ Took # {} /\ MaxFaults \in Nat

VARIABLES
  pc,       \* the await start() is in, or the head of a loop or of `finally' it is at:
            \* "handing" and "restHanding" are the awaits of on_tick, "reconnect" and
            \* "restSleep" the sleeps, "closing" and "restClosing" the awaits of close
  running, connected,
  exchange, \* a client, or 0
  reconnect_attempt,
  ws_fallback_since,  \* how long ago it was set, or Unset
  clients,  \* the clients that are not closed
  stopping, \* stop(): "no", "closing", "done", or "failed" when its close raised
  closing, stopClosing,   \* the clients that start() and stop() are closing
  faults,   \* bound
  (* History: read by no action. *)
  failing,  \* how long the WebSocket has brought nothing but failures
  unclosed  \* a close raised

vars == <<pc, running, connected, exchange, reconnect_attempt, ws_fallback_since, clients,
          stopping, closing, stopClosing, faults, failing, unclosed>>

stopVars == <<running, stopping, stopClosing>>

Unset == -1
Limit == 300            \* 30 seconds
reconnect_delays == <<1, 10, 50, 300, 600>>

\* A time is not told apart from others beyond the limit.
Later(age, d) ==
  IF age = Unset THEN Unset ELSE IF age + d > Limit THEN Limit + 1 ELSE age + d

Init ==
  /\ pc = "start" /\ running = TRUE /\ connected = FALSE /\ exchange = 0
  /\ reconnect_attempt = 0 /\ ws_fallback_since = Unset /\ clients = {}
  /\ stopping = "no" /\ closing = 0 /\ stopClosing = 0
  /\ faults = 0 /\ failing = Unset /\ unclosed = FALSE

Fault == faults < MaxFaults /\ faults' = faults + 1

\* A client that stop() closed under a call makes the call fail: no fault.
Refused(client) == client \notin clients /\ UNCHANGED faults

Clients == 1 .. MaxFaults + 1
NewClient == CHOOSE c \in Clients : c \notin clients
----------------------------------------------------------------------------
(* start() *)

AtHead == pc = "start"

\* The handler of an error that took d to appear, up to the sleep of _reconnect or to
\* the loop of _run_rest.  From the fifth attempt on, the delay is the longest.
Except(d, since, attempt) ==
  /\ failing' = IF failing = Unset THEN 0 ELSE Later(failing, d)
  /\ IF since # Unset /\ Later(since, d) > Limit
     THEN /\ pc' = "rest" /\ connected' = TRUE
          /\ ws_fallback_since' = Later(since, d) /\ reconnect_attempt' = attempt
     ELSE /\ pc' = "reconnect" /\ UNCHANGED connected
          /\ ws_fallback_since' = (IF since = Unset THEN 0 ELSE Later(since, d))
          /\ reconnect_attempt' = IF attempt < 5 THEN attempt + 1 ELSE attempt

\* The head of the loop.
Leave ==
  /\ AtHead /\ ~running /\ pc' = "ended"
  /\ UNCHANGED <<stopVars, connected, exchange, reconnect_attempt, ws_fallback_since, clients,
                 closing, faults, failing, unclosed>>

\* _run_ws and the head of _watch_loop, which takes itself to be connected.
Connect ==
  /\ AtHead /\ running /\ pc' = "watch"
  /\ exchange' = NewClient /\ clients' = clients \cup {NewClient}
  /\ reconnect_attempt' = 0 /\ ws_fallback_since' = Unset /\ connected' = TRUE
  /\ UNCHANGED <<stopVars, closing, faults, failing, unclosed>>

\* The constructor of the client raises.
ConnectFails ==
  /\ AtHead /\ running /\ Fault
  /\ Except(0, ws_fallback_since, reconnect_attempt)
  /\ UNCHANGED <<stopVars, exchange, clients, closing, unclosed>>

\* A book with both sides is handed over.
Book ==
  /\ pc = "watch" /\ exchange \in clients /\ pc' = "handing" /\ failing' = Unset
  /\ UNCHANGED <<stopVars, connected, exchange, reconnect_attempt, ws_fallback_since, clients,
                 closing, faults, unclosed>>

\* A side is missing.
BookEmpty ==
  /\ pc = "watch" /\ exchange \in clients /\ Fault /\ pc' = IF running THEN "watch" ELSE "finally"
  /\ UNCHANGED <<stopVars, connected, exchange, reconnect_attempt, ws_fallback_since, clients,
                 closing, failing, unclosed>>

\* on_tick returns, and the loop goes on or ends.
Handed ==
  /\ pc = "handing" /\ pc' = IF running THEN "watch" ELSE "finally"
  /\ UNCHANGED <<stopVars, connected, exchange, reconnect_attempt, ws_fallback_since, clients,
                 closing, faults, failing, unclosed>>

\* watch_order_book or on_tick raises.
WatchFails ==
  /\ pc \in {"watch", "handing"}
  /\ Fault \/ (pc = "watch" /\ Refused(exchange))
  /\ \E d \in Took : Except(d, ws_fallback_since, reconnect_attempt)
  /\ UNCHANGED <<stopVars, exchange, clients, closing, unclosed>>

\* The sleep of _reconnect.
Woken ==
  /\ pc = "reconnect" /\ pc' = "finally"
  /\ LET d == reconnect_delays[reconnect_attempt]
     IN  failing' = Later(failing, d) /\ ws_fallback_since' = Later(ws_fallback_since, d)
  /\ UNCHANGED <<stopVars, connected, exchange, reconnect_attempt, clients, closing, faults,
                 unclosed>>

\* finally: up to its await, or to the head of the loop when there is nothing to close.
Finally ==
  /\ pc = "finally"
  /\ IF exchange # 0
     THEN pc' = "closing" /\ closing' = exchange /\ UNCHANGED connected
     ELSE pc' = "start" /\ connected' = FALSE /\ UNCHANGED closing
  /\ UNCHANGED <<stopVars, exchange, reconnect_attempt, ws_fallback_since, clients, faults,
                 failing, unclosed>>

Closed ==
  /\ pc = "closing" /\ pc' = "start"
  /\ clients' = clients \ {closing} /\ exchange' = 0 /\ connected' = FALSE /\ closing' = 0
  /\ UNCHANGED <<stopVars, reconnect_attempt, ws_fallback_since, faults, failing, unclosed>>

\* The error leaves start(): the task ends, and gather keeps the error to itself.
CloseFails ==
  /\ pc = "closing" /\ Fault /\ pc' = "ended" /\ closing' = 0 /\ unclosed' = TRUE
  /\ UNCHANGED <<stopVars, connected, exchange, reconnect_attempt, ws_fallback_since, clients,
                 failing>>
----------------------------------------------------------------------------
(* _run_rest, which ends only with the feed. *)

\* The head of its loop.
RestLeave ==
  /\ pc \in {"rest", "restSleep"} /\ ~running /\ pc' = "finally"
  /\ UNCHANGED <<stopVars, connected, exchange, reconnect_attempt, ws_fallback_since, clients,
                 closing, faults, failing, unclosed>>

RestAsk ==
  /\ pc \in {"rest", "restSleep"} /\ running /\ pc' = "fetch"
  /\ IF exchange = 0
     THEN exchange' = NewClient /\ clients' = clients \cup {NewClient}
     ELSE UNCHANGED <<exchange, clients>>
  /\ UNCHANGED <<stopVars, connected, reconnect_attempt, ws_fallback_since, closing, faults,
                 failing, unclosed>>

\* The constructor raises; the loop sleeps.
RestAskFails ==
  /\ pc \in {"rest", "restSleep"} /\ running /\ exchange = 0 /\ Fault /\ pc' = "restSleep"
  /\ UNCHANGED <<stopVars, connected, exchange, reconnect_attempt, ws_fallback_since, clients,
                 closing, failing, unclosed>>

\* The price is handed over.
Ticker ==
  /\ pc = "fetch" /\ exchange \in clients /\ pc' = "restHanding"
  /\ UNCHANGED <<stopVars, connected, exchange, reconnect_attempt, ws_fallback_since, clients,
                 closing, faults, failing, unclosed>>

\* on_tick returns, or there was no price; the loop sleeps.
RestHanded ==
  /\ \/ pc = "restHanding" /\ UNCHANGED faults
     \/ pc = "fetch" /\ exchange \in clients /\ Fault
  /\ pc' = "restSleep"
  /\ UNCHANGED <<stopVars, connected, exchange, reconnect_attempt, ws_fallback_since, clients,
                 closing, failing, unclosed>>

\* Mutant of RestFails: the client is dropped but not closed.
RestFails_Drops ==
  /\ \/ pc \in {"fetch", "restHanding"} /\ Fault
     \/ pc = "fetch" /\ Refused(exchange)
  /\ pc' = "restSleep" /\ exchange' = 0
  /\ UNCHANGED <<stopVars, connected, reconnect_attempt, ws_fallback_since, clients, closing,
                 failing, unclosed>>

\* An error in the loop: the client is closed first, if stop() has not taken it away.
RestFails ==
  /\ \/ pc \in {"fetch", "restHanding"} /\ Fault
     \/ pc = "fetch" /\ Refused(exchange)
  /\ IF exchange # 0 THEN pc' = "restClosing" /\ closing' = exchange
     ELSE pc' = "restSleep" /\ UNCHANGED closing
  /\ UNCHANGED <<stopVars, connected, exchange, reconnect_attempt, ws_fallback_since, clients,
                 failing, unclosed>>

\* Mutant of RestClosed: the closed client stays.
RestClosed_Keeps ==
  /\ pc = "restClosing" /\ pc' = "restSleep" /\ closing' = 0
  /\ \/ clients' = clients \ {closing} /\ UNCHANGED <<faults, unclosed>>
     \/ Fault /\ unclosed' = TRUE /\ UNCHANGED clients
  /\ UNCHANGED <<stopVars, connected, exchange, reconnect_attempt, ws_fallback_since, failing>>

\* Whether that close raises or not, the next client is a new one, after a sleep.
RestClosed ==
  /\ pc = "restClosing" /\ pc' = "restSleep" /\ exchange' = 0 /\ closing' = 0
  /\ \/ clients' = clients \ {closing} /\ UNCHANGED <<faults, unclosed>>
     \/ Fault /\ unclosed' = TRUE /\ UNCHANGED clients
  /\ UNCHANGED <<stopVars, connected, reconnect_attempt, ws_fallback_since, failing>>
----------------------------------------------------------------------------
(* stop(), which runs while start() is in an await or over: the tasks of the feeds
   have begun long before the service can be shut down. *)

Elsewhere == pc \notin {"start", "finally", "rest"}

Stop ==
  /\ Elsewhere /\ stopping = "no" /\ running' = FALSE /\ connected' = FALSE
  /\ IF exchange # 0 THEN stopping' = "closing" /\ stopClosing' = exchange
     ELSE stopping' = "done" /\ UNCHANGED stopClosing
  /\ UNCHANGED <<pc, exchange, reconnect_attempt, ws_fallback_since, clients, closing, faults,
                 failing, unclosed>>

StopCloses ==
  /\ Elsewhere /\ stopping = "closing" /\ stopping' = "done" /\ stopClosing' = 0
  /\ clients' = clients \ {stopClosing} /\ exchange' = 0
  /\ UNCHANGED <<pc, running, connected, reconnect_attempt, ws_fallback_since, closing, faults,
                 failing, unclosed>>

\* The error leaves stop() and stop_collectors: the feeds after this one run on.
StopCloseFails ==
  /\ Elsewhere /\ stopping = "closing" /\ Fault /\ stopping' = "failed" /\ stopClosing' = 0
  /\ unclosed' = TRUE
  /\ UNCHANGED <<pc, running, connected, exchange, reconnect_attempt, ws_fallback_since, clients,
                 closing, failing>>
----------------------------------------------------------------------------
StartStep ==
  \/ Leave \/ Connect \/ ConnectFails \/ Book \/ BookEmpty \/ Handed \/ WatchFails \/ Woken
  \/ Finally \/ Closed \/ CloseFails
  \/ RestLeave \/ RestAsk \/ RestAskFails \/ Ticker \/ RestHanded \/ RestFails \/ RestClosed

StopStep == Stop \/ StopCloses \/ StopCloseFails

Next == StartStep \/ StopStep

\* The task runs, and its awaits end: the exchange answers or the call fails.
Fairness == WF_vars(StartStep) /\ WF_vars(StopCloses)

Spec == Init /\ [][Next]_vars /\ Fairness
----------------------------------------------------------------------------
(* Properties. *)

TypeOK ==
  /\ pc \in {"start", "watch", "handing", "reconnect", "finally", "closing", "rest", "fetch",
             "restHanding", "restSleep", "restClosing", "ended"}
  /\ {running, connected, unclosed} \subseteq BOOLEAN
  /\ {exchange, closing, stopClosing} \subseteq Clients \cup {0} /\ clients \subseteq Clients
  /\ reconnect_attempt \in 0 .. 5 /\ {ws_fallback_since, failing} \subseteq Unset .. Limit + 1
  /\ stopping \in {"no", "closing", "done", "failed"} /\ faults \in 0 .. MaxFaults

\* No client is lost from sight while it is open: whichever of start() and stop()
\* closes it, and at whatever await the other is (ws_client.py:84-88, 169-180,
\* 195-202), the only open client is the one the feed holds, and a feed that ended
\* holds none, unless a close raised.
ClientsClosed ==
  unclosed \/ (clients \subseteq {exchange} /\ (pc = "ended" => clients = {}))

\* A feed whose exchange recovers hands over ticks again, over one way or the other,
\* until it is stopped, and stop() ends it (ws_client.py:64-88, 137-181); a close that
\* raises is the one error that may end it.
FeedReturns ==
  /\ []<>(pc \in {"handing", "restHanding"} \/ ~running \/ unclosed)
  /\ ~running ~> pc = "ended"

\* "If the WebSocket does not work for more than 30 s, fall back to REST" (line 74):
\* a feed does not go on reconnecting that has met only failures for longer.
FallbackAfterLongFailure == pc = "reconnect" => failing <= Limit
====
