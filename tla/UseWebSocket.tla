------------------------------ MODULE UseWebSocket ------------------------------
(****************************************************************************)
(* The live connection of the dashboard, frontend/src/hooks/useWebSocket.ts *)
(*                                                                          *)
(* Layout calls the hook, so every mount of Layout runs its effect once, or *)
(* twice with a clean-up in between when React's StrictMode doubles the     *)
(* effects of a development build (main.tsx).  A call of `connect' lives on *)
(* as a socket, then as the timer its onclose starts, then as the socket    *)
(* that timer opens: a handle is whichever of them exists.  The clean-up    *)
(* knows one socket, wsRef.  The flag is the store's wsConnected.           *)
(*                                                                          *)
(* Left out: the delay of the timers (any of them may be the next to fire)  *)
(* and the constructor's exception, which a URL made of the page's own      *)
(* location does not raise.                                                 *)
(****************************************************************************)
EXTENDS Naturals, FiniteSets

CONSTANTS
  Handle,       \* identities of sockets and of reconnect timers
  MaxMounts,    \* bound on the mounts of Layout between two loads of the page
  NoHandle,
  MaxDrops      \* bound on connections refused or lost

ASSUME SocketAssumption ==
  /\ IsFiniteSet(Handle) /\ NoHandle \notin Handle
  /\ MaxMounts \in Nat /\ MaxDrops \in Nat

VARIABLES
  effects,       \* runs of an effect per mount: 2 under StrictMode in development
  handle,        \* what each handle is: "none", a socket's readyState or "timer"
  owner,         \* the mount whose `connect' made it
  wsRef,         \* of each mount: the socket its ref holds
  mount,         \* mounts since the page was loaded; the last one may be current
  layoutMounted,
  wsConnected,   \* of the dashboard store
  lastOpened,    \* history: the handle of the last onopen
  drops          \* bound: connections dropped so far

socketVars ==
  <<effects, handle, owner, wsRef, mount, layoutMounted, wsConnected, lastOpened, drops>>

Mounts == 1 .. MaxMounts
Used == {h \in Handle : handle[h] # "none"}
HandlesOf(i) == {h \in Used : owner[h] = i}

SocketInit ==
  /\ effects \in {1, 2}
  /\ handle = [h \in Handle |-> "none"] /\ owner = [h \in Handle |-> 0]
  /\ wsRef = [i \in Mounts |-> NoHandle] /\ mount = 0 /\ layoutMounted = FALSE
  /\ wsConnected = FALSE /\ lastOpened = NoHandle /\ drops = 0

\* The handle of the next socket: one not in use and not in S.
Fresh(S) == CHOOSE h \in (Handle \ Used) \ S : TRUE
HasFresh(n) == \E h1, h2 \in Handle \ Used : n = 2 => h1 # h2
----------------------------------------------------------------------------
(* The effect of Layout. *)

\* `connect'.  When effects are doubled the clean-up closes that first socket, and
\* `connect' runs again.
Mount ==
  LET h == Fresh({})
      second == IF effects = 2 THEN Fresh({h}) ELSE h
  IN  /\ ~layoutMounted /\ mount + 1 \in Mounts /\ HasFresh(effects)
      /\ handle' = [handle EXCEPT ![h] = "closing", ![second] = "connecting"]
      /\ owner' = [owner EXCEPT ![h] = mount + 1, ![second] = mount + 1]
      /\ wsRef' = [wsRef EXCEPT ![mount + 1] = second]
      /\ mount' = mount + 1 /\ layoutMounted' = TRUE /\ wsConnected' = FALSE
      /\ UNCHANGED <<effects, lastOpened, drops>>

\* The clean-up: close the socket of wsRef.  A timer is left to fire, and nothing
\* keeps the closed socket's onclose from starting one.
Unmount ==
  /\ layoutMounted /\ layoutMounted' = FALSE
  /\ \E h \in {wsRef[mount]} :
       handle' = [handle EXCEPT ![h] =
                    IF handle[h] \in {"connecting", "open"} THEN "closing" ELSE @]
  /\ UNCHANGED <<effects, owner, wsRef, mount, wsConnected, lastOpened, drops>>

\* The page is loaded again: the memory, the sockets and the timers go with it.
Unload ==
  /\ handle' = [h \in Handle |-> "none"] /\ owner' = [h \in Handle |-> 0]
  /\ wsRef' = [i \in Mounts |-> NoHandle] /\ mount' = 0 /\ layoutMounted' = FALSE
  /\ wsConnected' = FALSE /\ lastOpened' = NoHandle /\ UNCHANGED <<effects, drops>>
----------------------------------------------------------------------------
(* The callbacks of a socket and of its timer. *)

\* Mutant of Opened: a socket that wsRef no longer names does not set the flag.
Opened_CurrentOnly(h) ==
  /\ handle[h] = "connecting" /\ handle' = [handle EXCEPT ![h] = "open"]
  /\ wsConnected' = (wsConnected \/ (mount > 0 /\ h = wsRef[mount])) /\ lastOpened' = h
  /\ UNCHANGED <<effects, owner, wsRef, mount, layoutMounted, drops>>

\* onopen.
Opened(h) ==
  /\ handle[h] = "connecting" /\ handle' = [handle EXCEPT ![h] = "open"]
  /\ wsConnected' = TRUE /\ lastOpened' = h
  /\ UNCHANGED <<effects, owner, wsRef, mount, layoutMounted, drops>>

\* Mutant of Closed: the flag is set where the connection is opened only.
Closed_FlagKept(h) ==
  /\ \/ handle[h] = "closing" /\ UNCHANGED drops
     \/ handle[h] \in {"connecting", "open"} /\ drops < MaxDrops /\ drops' = drops + 1
  /\ handle' = [handle EXCEPT ![h] = "timer"]
  /\ UNCHANGED <<effects, owner, wsRef, mount, layoutMounted, wsConnected, lastOpened>>

\* onclose, of a socket that was closed or of a connection refused or lost (after
\* onerror, whose close() does nothing then): setTimeout(connect, delay).
Closed(h) ==
  /\ \/ handle[h] = "closing" /\ UNCHANGED drops
     \/ handle[h] \in {"connecting", "open"} /\ drops < MaxDrops /\ drops' = drops + 1
  /\ handle' = [handle EXCEPT ![h] = "timer"] /\ wsConnected' = FALSE
  /\ UNCHANGED <<effects, owner, wsRef, mount, layoutMounted, lastOpened>>

\* Mutant of Fire: setInterval for setTimeout.
Fire_Interval(h) ==
  /\ handle[h] = "timer" /\ HasFresh(1)
  /\ handle' = [handle EXCEPT ![Fresh({})] = "connecting"]
  /\ owner' = [owner EXCEPT ![Fresh({})] = owner[h]]
  /\ wsRef' = [wsRef EXCEPT ![owner[h]] = Fresh({})] /\ wsConnected' = FALSE
  /\ UNCHANGED <<effects, mount, layoutMounted, lastOpened, drops>>

\* The timer calls `connect', which closes over the refs of its own mount.
Fire(h) ==
  LET new == Fresh({})
  IN  /\ handle[h] = "timer" /\ HasFresh(1)
      /\ handle' = [handle EXCEPT ![h] = "none", ![new] = "connecting"]
      /\ owner' = [owner EXCEPT ![new] = owner[h]]
      /\ wsRef' = [wsRef EXCEPT ![owner[h]] = new] /\ wsConnected' = FALSE
      /\ UNCHANGED <<effects, mount, layoutMounted, lastOpened, drops>>

SocketStep == \E h \in Handle : Opened(h) \/ Closed(h) \/ Fire(h)
SocketNext == Mount \/ Unmount \/ Unload \/ SocketStep

SocketSpec == SocketInit /\ [][SocketNext]_socketVars
----------------------------------------------------------------------------
(* Properties. *)

SocketTypeOK ==
  /\ effects \in {1, 2}
  /\ handle \in [Handle -> {"none", "connecting", "open", "closing", "timer"}]
  /\ mount \in {0} \cup Mounts /\ layoutMounted \in BOOLEAN /\ (layoutMounted => mount > 0)
  /\ owner \in [Handle -> 0 .. mount]
  /\ wsRef \in [Mounts -> Handle \cup {NoHandle}]
  /\ wsConnected \in BOOLEAN /\ lastOpened \in Handle \cup {NoHandle} /\ drops \in Nat

\* Every run of the hook's effect keeps exactly one socket or pending timer, through
\* refusals, losses and reconnections (lines 65-70): none is left with nothing that
\* would connect again, and none grows a second connection.  It holds of the mounts
\* that are over as well: their clean-up (line 78) stops nothing, so each return to
\* Layout adds a connection to those the page already keeps.
OneHandlePerEffect ==
  \A i \in 1 .. mount : Cardinality(HandlesOf(i)) = effects

\* Layout says "Live" only while the socket that was opened last is open or about
\* to report its end (lines 18, 21, 66), however many sockets set the flag; and a
\* page that keeps one handle does say it while that socket is open.
LiveFlagHonest ==
  /\ wsConnected => lastOpened \in Handle /\ handle[lastOpened] \in {"open", "closing"}
  /\ \A h \in Used : Used = {h} /\ handle[h] = "open" => wsConnected
====
