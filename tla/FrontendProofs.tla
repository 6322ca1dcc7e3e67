----------------------------- MODULE FrontendProofs -----------------------------
(****************************************************************************)
(* Proofs about the frontend, for every value of the constants: the console *)
(* for any number of handles, mounts, drops and submissions; the settings   *)
(* page; the sidebar and the carousel; the lists of the store and the pages *)
(* that show them; the components without state.                            *)
(****************************************************************************)
EXTENDS Console, Pages, SettingsPage, UiSidebar, UiCarousel, UiShown, DataLemmas

----------------------------------------------------------------------------
(* The connections. *)

\* UseWebSocket: a fresh handle is one that is not in use.
LEMMA FreshHandle ==
  ASSUME NEW n, HasFresh(n), n \in {1, 2}
  PROVE  /\ Fresh({}) \in Handle \ Used
         /\ n = 2 => Fresh({Fresh({})}) \in (Handle \ Used) \ {Fresh({})}
<1>1. PICK h1, h2 \in Handle \ Used : n = 2 => h1 # h2
  BY DEF HasFresh
<1>2. Fresh({}) \in Handle \ Used
  BY <1>1 DEF Fresh
<1>3. ASSUME n = 2
      PROVE  \E h \in (Handle \ Used) \ {Fresh({})} : TRUE
  BY <1>1, <1>3
<1> QED
  BY <1>2, <1>3 DEF Fresh

\* What a step of the connections preserves, besides the properties: a handle in use
\* belongs to a mount.
Owned == \A h \in Used : owner[h] \in 1 .. mount

SocketInv == SocketTypeOK /\ Owned /\ OneHandlePerEffect /\ LiveFlagHonest

\* Steps that take no handle into or out of use and no mount away from one.
LEMMA SameHandles ==
  ASSUME SocketTypeOK, Owned, OneHandlePerEffect, Used' = Used,
         UNCHANGED <<owner, mount, effects>>
  PROVE  Owned' /\ OneHandlePerEffect'
<1>1. \A i : HandlesOf(i)' = HandlesOf(i)
  BY DEF HandlesOf
<1> QED
  BY <1>1 DEF Owned, OneHandlePerEffect

\* A mount adds the handles of its own effects.
LEMMA MountStep ==
  ASSUME SocketInv, Mount
  PROVE  SocketInv'
<1> DEFINE h == Fresh({})
           second == IF effects = 2 THEN Fresh({h}) ELSE h
<1> USE DEF SocketInv
<1>1. /\ h \in Handle \ Used /\ second \in Handle \ Used
      /\ effects = 2 => second # h
      /\ effects = 1 => second = h
      /\ effects \in {1, 2}
  BY FreshHandle DEF Mount, SocketTypeOK
<1>2. /\ handle' = [handle EXCEPT ![h] = "closing", ![second] = "connecting"]
      /\ owner' = [owner EXCEPT ![h] = mount + 1, ![second] = mount + 1]
      /\ wsRef' = [wsRef EXCEPT ![mount + 1] = second]
      /\ mount' = mount + 1 /\ mount + 1 \in Mounts
      /\ layoutMounted' = TRUE /\ wsConnected' = FALSE
      /\ UNCHANGED <<effects, lastOpened, drops>>
  BY DEF Mount
<1>3. mount \in Nat /\ mount' \in 1 .. MaxMounts
  BY <1>2, SocketAssumption DEF SocketTypeOK, Mounts
<1> HIDE DEF h, second
<1>4. SocketTypeOK'
  <2>1. mount + 1 \in 0 .. mount' /\ \A n \in 0 .. mount : n \in 0 .. mount'
    BY <1>2, <1>3
  <2>2. owner' \in [Handle -> 0 .. mount']
    BY <1>1, <1>2, <2>1 DEF SocketTypeOK
  <2>3. wsRef' \in [Mounts -> Handle \cup {NoHandle}]
    BY <1>1, <1>2 DEF SocketTypeOK
  <2>4. handle' \in [Handle -> {"none", "connecting", "open", "closing", "timer"}]
    BY <1>1, <1>2 DEF SocketTypeOK
  <2>5. mount' \in {0} \cup Mounts /\ layoutMounted' /\ mount' > 0
    BY <1>2, <1>3
  <2> QED
    BY <1>2, <2>2, <2>3, <2>4, <2>5 DEF SocketTypeOK, Mounts
<1>5. Used' = Used \cup {h, second}
  BY <1>1, <1>2 DEF Used, SocketTypeOK
<1>6. \A g \in Used : owner'[g] = owner[g]
  BY <1>1, <1>2 DEF Used, SocketTypeOK
<1>7. owner'[h] = mount + 1 /\ owner'[second] = mount + 1
  BY <1>1, <1>2 DEF SocketTypeOK
<1>8. Owned'
  <2>1. mount + 1 \in 1 .. mount' /\ \A n \in 1 .. mount : n \in 1 .. mount'
    BY <1>2, <1>3
  <2>2. ASSUME NEW g \in Used'
        PROVE  owner'[g] \in 1 .. mount'
    BY <2>1, <1>5, <1>6, <1>7 DEF Owned
  <2> QED
    BY <2>2 DEF Owned
<1>9. ASSUME NEW i \in 1 .. mount'
      PROVE  Cardinality(HandlesOf(i)') = effects'
  <2>1. CASE i = mount + 1
    <3>1. HandlesOf(i)' = {h, second}
      BY <2>1, <1>3, <1>5, <1>6, <1>7 DEF HandlesOf, Owned
    <3>2. CASE effects = 1
      <4>1. {h, second} = {h} /\ Cardinality({h}) = 1
        BY <3>2, <1>1, FS_Singleton
      <4> QED
        BY <4>1, <3>1, <3>2, <1>2
    <3>3. CASE effects = 2
      <4>1. Cardinality({h}) = 1 /\ IsFiniteSet({h}) /\ second \notin {h}
        BY <3>3, <1>1, FS_Singleton
      <4>2. {h} \cup {second} = {h, second}
        OBVIOUS
      <4>3. Cardinality({h} \cup {second}) = Cardinality({h}) + 1
        BY <4>1, FS_AddElement
      <4> QED
        BY <3>1, <3>3, <4>1, <4>2, <4>3, <1>2
    <3> QED
      BY <3>2, <3>3, <1>1
  <2>2. CASE i # mount + 1
    <3>1. i \in 1 .. mount
      BY <2>2, <1>2, <1>3
    <3>2. HandlesOf(i)' = HandlesOf(i)
      BY <2>2, <1>5, <1>6, <1>7 DEF HandlesOf
    <3> QED
      BY <3>1, <3>2, <1>2 DEF OneHandlePerEffect
  <2> QED
    BY <2>1, <2>2
<1>10. LiveFlagHonest'
  <2>1. second \in Used' /\ handle'[second] = "connecting"
    BY <1>1, <1>2, <1>5 DEF SocketTypeOK
  <2> QED
    BY <2>1, <1>2 DEF LiveFlagHonest
<1> QED
  BY <1>4, <1>8, <1>9, <1>10 DEF OneHandlePerEffect

\* A timer that fires hands its place to the socket it opens.
LEMMA FireStep ==
  ASSUME SocketInv, NEW h \in Handle, Fire(h)
  PROVE  SocketInv'
<1> DEFINE new == Fresh({})
<1> USE DEF SocketInv
<1>1. new \in Handle \ Used
  BY FreshHandle DEF Fire
<1>2. /\ handle[h] = "timer"
      /\ handle' = [handle EXCEPT ![h] = "none", ![new] = "connecting"]
      /\ owner' = [owner EXCEPT ![new] = owner[h]]
      /\ wsRef' = [wsRef EXCEPT ![owner[h]] = new] /\ wsConnected' = FALSE
      /\ UNCHANGED <<effects, mount, layoutMounted, lastOpened, drops>>
  BY DEF Fire
<1> HIDE DEF new
<1>3. h \in Used /\ h # new /\ owner[h] \in 1 .. mount
  BY <1>1, <1>2 DEF Used, Owned
<1>4. SocketTypeOK'
  BY <1>1, <1>2, <1>3 DEF SocketTypeOK
<1>5. Used' = (Used \ {h}) \cup {new}
  BY <1>1, <1>2, <1>3 DEF Used, SocketTypeOK
<1>6. (\A g \in Used : owner'[g] = owner[g]) /\ owner'[new] = owner[h]
  BY <1>1, <1>2 DEF Used, SocketTypeOK
<1>7. Owned'
  BY <1>2, <1>3, <1>5, <1>6 DEF Owned
<1>8. ASSUME NEW i \in 1 .. mount
      PROVE  Cardinality(HandlesOf(i)') = effects
  <2>1. CASE i # owner[h]
    <3>1. HandlesOf(i)' = HandlesOf(i)
      BY <2>1, <1>5, <1>6 DEF HandlesOf
    <3> QED
      BY <3>1 DEF OneHandlePerEffect
  <2>2. CASE i = owner[h]
    <3> DEFINE Old == HandlesOf(i)
    <3>1. HandlesOf(i)' = (Old \ {h}) \cup {new} /\ h \in Old /\ new \notin Old
      BY <2>2, <1>1, <1>3, <1>5, <1>6 DEF HandlesOf
    <3>2. IsFiniteSet(Old)
      BY SocketAssumption, FS_Subset DEF HandlesOf, Used
    <3>3. Cardinality(Old) = effects /\ Cardinality(Old) \in Nat
      BY <3>2, FS_CardinalityType DEF OneHandlePerEffect
    <3>4. IsFiniteSet(Old \ {h}) /\ Cardinality(Old \ {h}) = Cardinality(Old) - 1
      BY <3>1, <3>2, FS_RemoveElement
    <3>5. Cardinality((Old \ {h}) \cup {new}) = Cardinality(Old \ {h}) + 1
      BY <3>1, <3>4, FS_AddElement
    <3> HIDE DEF Old
    <3> QED
      BY <3>1, <3>3, <3>4, <3>5
  <2> QED
    BY <2>1, <2>2
<1>9. LiveFlagHonest'
  <2>1. new \in Used' /\ handle'[new] = "connecting"
    BY <1>1, <1>2, <1>5 DEF SocketTypeOK
  <2> QED
    BY <2>1, <1>2 DEF LiveFlagHonest
<1> QED
  BY <1>2, <1>4, <1>7, <1>8, <1>9 DEF OneHandlePerEffect

\* A socket that opens is the one opened last, and sets the flag.
LEMMA OpenedStep ==
  ASSUME SocketInv, NEW h \in Handle, Opened(h)
  PROVE  SocketInv'
<1> USE DEF SocketInv
<1>1. SocketTypeOK' /\ Used' = Used
  BY DEF Opened, SocketTypeOK, Used
<1>2. Owned' /\ OneHandlePerEffect'
  BY <1>1, SameHandles DEF Opened
<1>3. LiveFlagHonest'
  BY <1>1 DEF Opened, LiveFlagHonest, SocketTypeOK
<1> QED
  BY <1>1, <1>2, <1>3

\* A socket that closes becomes a timer, and clears the flag.
LEMMA ClosedStep ==
  ASSUME SocketInv, NEW h \in Handle, Closed(h)
  PROVE  SocketInv'
<1> USE DEF SocketInv
<1>1. SocketTypeOK'
  <2>1. drops' \in Nat
    BY DEF Closed, SocketTypeOK
  <2> QED
    BY <2>1 DEF Closed, SocketTypeOK
<1>2. Used' = Used
  BY DEF Closed, SocketTypeOK, Used
<1>3. Owned' /\ OneHandlePerEffect'
  BY <1>2, SameHandles DEF Closed
<1>4. LiveFlagHonest'
  <2>1. h \in Used' /\ handle'[h] = "timer" /\ wsConnected' = FALSE
    BY <1>2 DEF Closed, SocketTypeOK, Used
  <2> QED
    BY <2>1 DEF LiveFlagHonest
<1> QED
  BY <1>1, <1>3, <1>4

\* A clean-up changes the readyState of one socket only.
LEMMA UnmountStep ==
  ASSUME SocketInv, Unmount
  PROVE  SocketInv'
<1> USE DEF SocketInv
<1>1. PICK h : handle' = [handle EXCEPT ![h] =
                            IF handle[h] \in {"connecting", "open"} THEN "closing" ELSE @]
  BY DEF Unmount
<1>2. SocketTypeOK' /\ Used' = Used
  BY <1>1 DEF Unmount, SocketTypeOK, Used
<1>3. Owned' /\ OneHandlePerEffect'
  BY <1>2, SameHandles DEF Unmount
<1>4. LiveFlagHonest'
  BY <1>1, <1>2 DEF Unmount, LiveFlagHonest, SocketTypeOK
<1> QED
  BY <1>2, <1>3, <1>4

\* A page that goes takes every handle with it.
LEMMA UnloadStep ==
  ASSUME SocketInv, Unload
  PROVE  SocketInv'
<1>1. SocketTypeOK'
  <2>1. 0 \in 0 .. mount' /\ mount' = 0 /\ layoutMounted' = FALSE
    BY DEF Unload
  <2> QED
    BY <2>1 DEF SocketInv, SocketTypeOK, Unload, Mounts
<1>2. Used' = {} /\ 1 .. mount' = {} /\ wsConnected' = FALSE
  BY DEF Unload, Used
<1> QED
  BY <1>1, <1>2 DEF SocketInv, Owned, OneHandlePerEffect, LiveFlagHonest

\* The invariant of the connection is kept by all its steps.
LEMMA SocketsStep ==
  ASSUME SocketInv, [SocketNext]_socketVars
  PROVE  SocketInv'
<1>1. CASE UNCHANGED socketVars
  BY <1>1 DEF socketVars, SocketInv, SocketTypeOK, Owned, OneHandlePerEffect, LiveFlagHonest,
              Used, HandlesOf
<1> QED
  BY <1>1, MountStep, UnmountStep, UnloadStep, OpenedStep, ClosedStep, FireStep
  DEF SocketNext, SocketStep

\* No mount, no handle.
LEMMA SocketsInit == SocketInit => SocketInv
<1> SUFFICES ASSUME SocketInit PROVE SocketInv
  OBVIOUS
<1>1. SocketTypeOK
  <2>1. 0 \in 0 .. mount /\ mount = 0 /\ layoutMounted = FALSE /\ 0 \in Nat
    BY DEF SocketInit
  <2> QED
    BY <2>1 DEF SocketInit, SocketTypeOK, Mounts
<1>2. Used = {} /\ 1 .. mount = {} /\ wsConnected = FALSE
  BY DEF SocketInit, Used
<1> QED
  BY <1>1, <1>2 DEF SocketInv, Owned, OneHandlePerEffect, LiveFlagHonest
----------------------------------------------------------------------------
(* The session. *)

\* A route of the Layout is shown to a session only.
SessionInv ==
  /\ SessionTypeOK /\ NoAnonymousRequests
  /\ route # "login" => token # 0

\* What the user does asks with the token there is, or not at all.
LEMMA UserStep ==
  ASSUME SessionInv,
         \/ \E p \in Passwords : Submit(p)
         \/ \E r \in Routes : Visit(r)
         \/ Ask \/ Logout
  PROVE  SessionInv'
<1> USE DEF SessionInv, SessionTypeOK, NoAnonymousRequests
<1>1. ASSUME NEW p \in Passwords, Submit(p)
      PROVE  SessionInv'
  <2>1. submits' \in Nat
    BY <1>1 DEF Submit
  <2> QED
    BY <1>1, <2>1 DEF Submit
<1>2. ASSUME NEW r \in Routes, Visit(r)
      PROVE  SessionInv'
  <2>1. /\ route' \in Routes /\ (route' # "login" => token # 0)
        /\ \/ asking' = asking
           \/ asking' = asking \cup {token} /\ token # 0
        /\ submitted' = "none" /\ abandoned' = Left(abandoned)
        /\ UNCHANGED <<token, issued, expired, page, submits>>
    BY <1>2 DEF Visit, Show, Protected, Routes
  <2>2. abandoned' \in [Passwords -> Nat]
    BY <2>1 DEF Left, Passwords
  <2> QED
    BY <2>1, <2>2
<1>3. CASE Ask
  BY <1>3 DEF Ask, LayoutShown
<1>4. CASE Logout
  <2>1. 0 \in 0 .. issued
    OBVIOUS
  <2> QED
    BY <1>4, <2>1 DEF Logout, Routes
<1> QED
  BY <1>1, <1>2, <1>3, <1>4

\* An answer signs in or out and asks with the token it leaves.
LEMMA AnswerStep ==
  ASSUME SessionInv,
         \/ \E own \in BOOLEAN :
              \/ LoggedIn(own) \/ LoginRefused(own)
              \/ \E p \in Passwords : LoginFails(p, own)
         \/ \E t \in 0 .. issued, last \in BOOLEAN : Answer(t, last) \/ Refused(t, last)
  PROVE  SessionInv'
<1> USE DEF SessionInv, SessionTypeOK, NoAnonymousRequests
<1>1. 0 \in 0 .. issued /\ issued \in Nat
  OBVIOUS
<1>2. ASSUME NEW own \in BOOLEAN, LoggedIn(own)
      PROVE  SessionInv'
  <2>1. /\ token' = issued + 1 /\ issued' = issued + 1 /\ submitted' = "none"
        /\ UNCHANGED <<expired, page, submits>>
    BY <1>2 DEF LoggedIn
  <2>2. /\ token' \in 0 .. issued' /\ token' # 0 /\ issued' \in Nat
        /\ \A n \in 0 .. issued : n \in 0 .. issued'
        /\ \A n \in 1 .. issued : n \in 1 .. issued'
    BY <2>1
  <2>3. route' \in Routes /\ (asking' = asking \/ asking' = asking \cup {token'})
    BY <1>2, <2>2 DEF LoggedIn, Show, Protected, Routes
  <2>4. abandoned' \in [Passwords -> Nat]
    <3> DEFINE less == [abandoned EXCEPT !["good"] = @ - 1]
    <3>1. ~own => abandoned' = Left(less) /\ less \in [Passwords -> Nat]
      BY <1>2 DEF LoggedIn, Passwords
    <3>2. ASSUME less \in [Passwords -> Nat]
          PROVE  Left(less) \in [Passwords -> Nat]
      <4> HIDE DEF less
      <4> QED
        BY <3>2 DEF Left, Passwords
    <3>3. own => abandoned' = abandoned
      BY <1>2 DEF LoggedIn
    <3> QED
      BY <3>1, <3>2, <3>3
  <2>5. asking' \subseteq 0 .. issued' /\ expired' \subseteq 1 .. issued'
    BY <2>1, <2>2, <2>3
  <2> QED
    BY <2>1, <2>2, <2>3, <2>4, <2>5
<1>3. ASSUME NEW own \in BOOLEAN, NEW p \in Passwords, Ends(p, own)
      PROVE  submitted' \in Passwords \cup {"none"} /\ abandoned' \in [Passwords -> Nat]
  BY <1>3 DEF Ends
<1>4. ASSUME NEW own \in BOOLEAN, LoginRefused(own)
      PROVE  SessionInv'
  BY <1>1, <1>3, <1>4 DEF LoginRefused, Unauthorized, Routes, Passwords
<1>5. ASSUME NEW own \in BOOLEAN, NEW p \in Passwords, LoginFails(p, own)
      PROVE  SessionInv'
  BY <1>3, <1>5 DEF LoginFails
<1>6. ASSUME NEW t \in 0 .. issued, NEW last \in BOOLEAN, Answer(t, last)
      PROVE  SessionInv'
  BY <1>6 DEF Answer
<1>7. ASSUME NEW t \in 0 .. issued, NEW last \in BOOLEAN, Refused(t, last)
      PROVE  SessionInv'
  BY <1>1, <1>7 DEF Refused, Unauthorized, Routes
<1> QED
  BY <1>2, <1>4, <1>5, <1>6, <1>7

\* Leaving and loading a page, and the gateway's clock.
LEMMA BrowserStep ==
  ASSUME SessionInv, LeavePage \/ Load \/ \E t \in 1 .. issued : Expire(t)
  PROVE  SessionInv'
<1> USE DEF SessionInv, SessionTypeOK, NoAnonymousRequests
<1>1. CASE LeavePage
  BY <1>1 DEF LeavePage, Routes
<1>2. CASE Load
  BY <1>2 DEF Load, Protected, Routes
<1>3. ASSUME NEW t \in 1 .. issued, Expire(t)
      PROVE  SessionInv'
  BY <1>3 DEF Expire
<1> QED
  BY <1>1, <1>2, <1>3

\* The invariant of the session is kept by all its steps.
LEMMA SessionsStep ==
  ASSUME SessionInv, SessionStep \/ LeavePage \/ UNCHANGED sessionVars
  PROVE  SessionInv'
<1>1. CASE UNCHANGED sessionVars
  BY <1>1 DEF sessionVars, SessionInv, SessionTypeOK, NoAnonymousRequests
<1> QED
  BY <1>1, UserStep, AnswerStep, BrowserStep DEF SessionStep

\* Nobody is signed in and nothing is asked.
LEMMA SessionsInit == SessionInit => SessionInv
<1> SUFFICES ASSUME SessionInit PROVE SessionInv
  OBVIOUS
<1>1. token \in 0 .. issued /\ issued \in Nat /\ submits \in Nat /\ abandoned \in [Passwords -> Nat]
  BY DEF SessionInit
<1> QED
  BY <1>1 DEF SessionInit, SessionInv, SessionTypeOK, NoAnonymousRequests, Routes
----------------------------------------------------------------------------
(* The console. *)

ConsoleInv == SocketInv /\ SessionInv /\ layoutMounted = LayoutShown

\* Layout is mounted exactly while the session shows it.
LEMMA ConsoleStep ==
  ASSUME ConsoleInv, [Next]_vars
  PROVE  ConsoleInv'
<1> USE DEF ConsoleInv
<1>1. [SocketNext]_socketVars
  BY DEF Next, Act, Away, CallBack, Rendered, SocketNext, vars
<1>2. SessionStep \/ LeavePage \/ UNCHANGED sessionVars
  BY DEF Next, Act, Away, CallBack, vars
<1>3. layoutMounted' = LayoutShown'
  <2>1. CASE Act
    <3>1. LayoutShown' \in BOOLEAN /\ layoutMounted \in BOOLEAN
      BY DEF LayoutShown
    <3>2. CASE LayoutShown' = layoutMounted
      BY <2>1, <3>2 DEF Act, Rendered, socketVars
    <3>3. CASE LayoutShown' # layoutMounted
      <4>1. CASE layoutMounted
        <5>1. layoutMounted' = FALSE /\ ~LayoutShown'
          BY <2>1, <3>1, <3>3, <4>1, Zenon DEF Act, Rendered, Unmount
        <5> QED
          BY <5>1, <3>1
      <4>2. CASE ~layoutMounted
        <5>1. layoutMounted' = TRUE /\ LayoutShown'
          BY <2>1, <3>1, <3>3, <4>2, Zenon DEF Act, Rendered, Mount
        <5> QED
          BY <5>1, <3>1
      <4> QED
        BY <4>1, <4>2
    <3> QED
      BY <3>2, <3>3
  <2>2. CASE Away
    BY <2>2 DEF Away, LeavePage, Unload, LayoutShown
  <2>3. CASE CallBack
    <3>1. layoutMounted' = layoutMounted
      BY <2>3 DEF CallBack, SocketStep, Opened, Closed, Fire
    <3>2. page' = page /\ route' = route
      BY <2>3 DEF CallBack, sessionVars
    <3> QED
      BY <3>1, <3>2 DEF LayoutShown
  <2>4. CASE UNCHANGED vars
    BY <2>4 DEF vars, socketVars, sessionVars, LayoutShown
  <2> QED
    BY <2>1, <2>2, <2>3, <2>4 DEF Next
<1> QED
  BY <1>1, <1>2, <1>3, SocketsStep, SessionsStep

\* Both invariants, and the link between them, in every reachable state.
LEMMA ConsoleCorrect == Spec => []ConsoleInv
<1>1. Init => ConsoleInv
  <2> SUFFICES ASSUME Init PROVE ConsoleInv
    OBVIOUS
  <2>1. SocketInv /\ SessionInv
    BY SocketsInit, SessionsInit DEF Init
  <2> QED
    BY <2>1 DEF Init, SocketInit, SessionInit, LayoutShown, ConsoleInv
<1> QED
  BY <1>1, ConsoleStep, PTL DEF Spec

\* Console: every variable keeps its type, and Layout is mounted exactly while a
\* route of the Layout is shown.
THEOREM ConsoleTypeCorrect == Spec => []TypeOK
<1>1. ConsoleInv => TypeOK
  BY DEF ConsoleInv, SocketInv, SessionInv, TypeOK
<1> QED
  BY <1>1, ConsoleCorrect, PTL

\* Console: every run of the effect of useWebSocket has one socket or timer for as
\* long as the page lives, for any number of visits to Layout and of lost connections.
THEOREM HandlesCounted == Spec => []OneHandlePerEffect
<1>1. ConsoleInv => OneHandlePerEffect
  BY DEF ConsoleInv, SocketInv
<1> QED
  BY <1>1, ConsoleCorrect, PTL

\* Console: the "Live" of Layout is the state of the socket opened last.
THEOREM FlagHonest == Spec => []LiveFlagHonest
<1>1. ConsoleInv => LiveFlagHonest
  BY DEF ConsoleInv, SocketInv
<1> QED
  BY <1>1, ConsoleCorrect, PTL

\* Console: no request of the protected pages goes out without a token.
THEOREM RequestsCarryToken == Spec => []NoAnonymousRequests
<1>1. ConsoleInv => NoAnonymousRequests
  BY DEF ConsoleInv, SessionInv
<1> QED
  BY <1>1, ConsoleCorrect, PTL

\* Console: the page signs a session out by itself only when a 401 was due.
THEOREM SessionEndExplained == Spec => SessionEndsForReason
<1>1. [Next]_vars =>
        [token # 0 /\ page = "running" /\ page' = "unloading" =>
           \/ asking \cap expired # {}
           \/ submitted = "bad" \/ abandoned["bad"] > 0]_vars
  <2> SUFFICES ASSUME Next, page = "running", page' = "unloading"
               PROVE  \/ asking \cap expired # {}
                      \/ submitted = "bad" \/ abandoned["bad"] > 0
    BY Zenon DEF vars
  <2>1. SessionStep
    BY DEF Next, Act, Away, CallBack, LeavePage, sessionVars
  <2>2. \/ \E own \in BOOLEAN : LoginRefused(own)
        \/ \E t \in 0 .. issued, last \in BOOLEAN : Refused(t, last)
    BY <2>1 DEF SessionStep, Submit, Visit, Ask, Logout, LoggedIn, LoginFails, Answer, Expire,
                Load
  <2> QED
    BY <2>2 DEF LoginRefused, Ends, Refused
<1> QED
  BY <1>1, PTL DEF Spec, SessionEndsForReason

----------------------------------------------------------------------------
(* The settings page.  The invariant: while the page is shown it waits for at most
   one PUT, its own; undisturbed, there is no other; and of that one the keys written
   are stored as the form had them, while the original still holds for the rest. *)

Typed ==
  /\ visit \in Nat /\ shown \in BOOLEAN /\ (shown => visit # 0)
  /\ s \in Settings /\ original \in Settings /\ stored \in Settings
  /\ puts \subseteq [of : Nat, value : Settings, left : SUBSET Keys]

\* The key of the original is as the page would read it.
Kept(k) == original[k] = stored[k] \/ original[k] = Read(k)

OnePut ==
  /\ \A p \in puts : p.of # 0 => shown /\ ~loading /\ saving /\ p.of = visit
  /\ \A p, q \in puts : p.of # 0 /\ q.of # 0 => p = q
  /\ shown /\ ~disturbed => \A p \in puts : p.of # 0

PutKept ==
  shown /\ ~disturbed =>
    \A p \in puts : /\ \A k \in Keys \ p.left : stored[k] = p.value[k]
                    /\ \A k \in p.left : Kept(k)

OriginalKept == shown /\ ~loading /\ ~disturbed /\ puts = {} => \A k \in Keys : Kept(k)

SettingsInv == Typed /\ OnePut /\ PutKept /\ OriginalKept

\* The invariant holds at first: no page, no request.
LEMMA SettingsStarts == SettingsInit => SettingsInv
  BY SettingsAssumption
  DEF SettingsInit, SettingsInv, Typed, OnePut, PutKept, OriginalKept, Settings

\* The types are kept.
LEMMA TypedKept == Typed /\ [SettingsNext]_settingsVars => Typed'
<1> SUFFICES ASSUME Typed, [SettingsNext]_settingsVars PROVE Typed'
  OBVIOUS
<1> USE DEF Typed
<1>d. Default \in Settings /\ 0 \in Values /\ Values \subseteq Nat
  BY SettingsAssumption
<1>0. CASE ShowPage
  <2>0. visit \in Nat /\ visit' = visit + 1
    BY <1>0 DEF ShowPage
  <2>1. visit' \in Nat /\ visit' # 0
    BY <2>0
  <2>2. shown' = TRUE /\ s' \in Settings /\ original' \in Settings
    BY <1>0, <1>d DEF ShowPage
  <2>3. UNCHANGED <<puts, stored>>
    BY <1>0 DEF ShowPage
  <2> QED
    BY <2>1, <2>2, <2>3
<1>1. CASE Hide
  <2>1. puts' \subseteq [of : Nat, value : Settings, left : SUBSET Keys]
    BY <1>1 DEF Hide
  <2> QED
    BY <1>1, <2>1 DEF Hide
<1>2. CASE Loaded
  <2>1. \A k \in Keys : Read(k) \in Values
    BY <1>d DEF Read, Settings
  <2>2. s' \in Settings
    BY <1>2, <2>1 DEF Loaded, Settings
  <2> QED
    BY <1>2, <2>2 DEF Loaded
<1>3. CASE LoadFails \/ Reset \/ SavedExpires
  BY <1>3 DEF LoadFails, Reset, SavedExpires, Form
<1>11. CASE AskKill \/ CancelKill \/ Kill
  BY <1>11 DEF AskKill, CancelKill, Kill, Form
<1>4. CASE \E k \in Keys, v \in Values : Edit(k, v)
  BY <1>4 DEF Edit, Settings
<1>5. CASE Save
  BY <1>5 DEF Save, Form
<1>6. ASSUME NEW p \in puts, Write(p) PROVE Typed'
  <2>1. PICK k \in Keys : /\ stored' = [stored EXCEPT ![k] = p.value[k]]
                          /\ puts' = (puts \ {p}) \cup {[p EXCEPT !.left = @ \ {k}]}
    BY <1>6 DEF Write, Keys
  <2>2. stored' \in Settings
    BY <2>1 DEF Settings
  <2>3. puts' \subseteq [of : Nat, value : Settings, left : SUBSET Keys]
    BY <2>1
  <2> QED
    BY <1>6, <2>2, <2>3 DEF Write, pageVars
<1>7. ASSUME NEW p \in puts, Saved(p) PROVE Typed'
  BY <1>7 DEF Saved
<1>8. ASSUME NEW p \in puts, NEW goesOn \in BOOLEAN, SaveFails(p, goesOn) PROVE Typed'
  <2>1. puts' \subseteq [of : Nat, value : Settings, left : SUBSET Keys]
    BY <1>8 DEF SaveFails
  <2> QED
    BY <1>8, <2>1 DEF SaveFails
<1>9. ASSUME NEW p \in puts, Forgotten(p) PROVE Typed'
  BY <1>9 DEF Forgotten, pageVars
<1>10. CASE UNCHANGED settingsVars
  BY <1>10 DEF settingsVars, pageVars
<1> QED
  BY <1>0, <1>1, <1>2, <1>3, <1>4, <1>5, <1>6, <1>7, <1>8, <1>9, <1>10, <1>11 DEF SettingsNext

\* So is the rest, by each action.
LEMMA SettingsKept ==
  ASSUME SettingsInv, [SettingsNext]_settingsVars
  PROVE  OnePut' /\ PutKept' /\ OriginalKept'
<1> USE DEF SettingsInv
<1>1. CASE ShowPage
  BY <1>1 DEF ShowPage, Typed, OnePut, PutKept, OriginalKept
<1>2. CASE Hide
  BY <1>2 DEF Hide, Typed, OnePut, PutKept, OriginalKept
<1>3. CASE Loaded
  <2>1. \A k \in Keys : original'[k] = Read(k)'
    BY <1>3 DEF Loaded, Read
  <2>2. OnePut' /\ (shown /\ ~disturbed => puts = {})
    BY <1>3 DEF Loaded, OnePut
  <2> QED
    BY <1>3, <2>1, <2>2 DEF Loaded, PutKept, OriginalKept, Kept
<1>4. CASE LoadFails
  BY <1>4 DEF LoadFails, OnePut, PutKept, OriginalKept
<1>5. ASSUME UNCHANGED <<visit, shown, original, loading, saving, puts, stored, disturbed>>
      PROVE  OnePut' /\ PutKept' /\ OriginalKept'
  BY <1>5 DEF OnePut, PutKept, OriginalKept, Kept, Read
<1>6. CASE Reset \/ SavedExpires \/ AskKill \/ CancelKill \/ Kill
           \/ (\E k \in Keys, v \in Values : Edit(k, v)) \/ UNCHANGED settingsVars
  BY <1>5, <1>6 DEF Reset, SavedExpires, AskKill, CancelKill, Kill, Edit, settingsVars, pageVars
<1>7. CASE Save
  <2> DEFINE new == [of |-> visit, value |-> s, left |-> Keys]
  <2>1. puts' = puts \cup {new} /\ shown /\ ~loading /\ ~saving /\ saving'
    BY <1>7 DEF Save, Form
  <2>2. \A p \in puts : p.of = 0
    BY <2>1 DEF OnePut
  <2>3. UNCHANGED <<visit, shown, original, loading, stored, disturbed>>
    BY <1>7 DEF Save
  <2>4. shown /\ ~disturbed => puts = {} /\ \A k \in Keys : Kept(k)
    BY <2>1, <2>2 DEF OnePut, OriginalKept
  <2>5. \A k \in Keys : Kept(k)' <=> Kept(k)
    BY <2>3 DEF Kept, Read
  <2>6. OnePut'
    BY <2>1, <2>2, <2>3, <2>4 DEF OnePut, Typed
  <2>7. PutKept'
    BY <2>1, <2>3, <2>4, <2>5 DEF PutKept
  <2>8. OriginalKept'
    BY <2>1 DEF OriginalKept
  <2> QED
    BY <2>6, <2>7, <2>8
<1>8. ASSUME NEW p \in puts, Write(p) PROVE OnePut' /\ PutKept' /\ OriginalKept'
  <2>1. PICK k \in p.left : /\ stored' = [stored EXCEPT ![k] = p.value[k]]
                            /\ puts' = (puts \ {p}) \cup {[p EXCEPT !.left = @ \ {k}]}
    BY <1>8 DEF Write, Typed, Keys
  <2> DEFINE q == [p EXCEPT !.left = @ \ {k}]
  <2>2. UNCHANGED <<visit, shown, original, loading, saving, disturbed>>
    BY <1>8 DEF Write, pageVars
  <2>3. q.of = p.of /\ q.value = p.value /\ q.left = p.left \ {k}
    BY DEF Typed
  <2>4. puts' = (puts \ {p}) \cup {q}
    BY <2>1
  <2> HIDE DEF q
  <2>5. OnePut'
    BY <2>2, <2>3, <2>4 DEF OnePut
  <2>6. ASSUME shown, ~disturbed PROVE puts' = {q}
    BY <2>4, <2>6 DEF OnePut
  <2>7. \A j \in Keys : j # k => stored'[j] = stored[j] /\ Read(j)' = Read(j)
    BY <2>1 DEF Typed, Settings, Read
  <2>8. k \in Keys /\ stored'[k] = p.value[k]
    BY <2>1 DEF Typed, Settings
  <2>9. PutKept'
    <3>1. ASSUME shown, ~disturbed
          PROVE  /\ \A j \in Keys \ q.left : stored'[j] = q.value[j]
                 /\ \A j \in q.left : Kept(j)'
      <4>1. /\ \A j \in Keys \ p.left : stored[j] = p.value[j]
            /\ \A j \in p.left : Kept(j)
        BY <3>1 DEF PutKept
      <4>2. \A j \in q.left : Kept(j)'
        BY <4>1, <2>2, <2>3, <2>7 DEF Kept, Typed
      <4> QED
        BY <4>1, <4>2, <2>3, <2>7, <2>8
    <3> QED
      BY <3>1, <2>2, <2>6 DEF PutKept
  <2>10. OriginalKept'
    BY <2>4 DEF OriginalKept
  <2> QED
    BY <2>5, <2>9, <2>10
<1>9. ASSUME NEW p \in puts, Saved(p) PROVE OnePut' /\ PutKept' /\ OriginalKept'
  <2>1. p.left = {} /\ puts' = puts \ {p} /\ UNCHANGED <<visit, shown, loading, stored, disturbed>>
    BY <1>9 DEF Saved
  <2>2. CASE p.of = visit /\ shown
    <3>1. original' = p.value /\ p.of # 0
      BY <1>9, <2>2 DEF Saved, Typed
    <3>2. \A q \in puts' : q.of = 0
      BY <2>1, <3>1 DEF OnePut
    <3>3. ASSUME ~disturbed PROVE puts' = {} /\ \A k \in Keys : Kept(k)'
      <4>1. puts' = {}
        BY <2>1, <2>2, <3>2, <3>3 DEF OnePut
      <4>2. \A k \in Keys : stored[k] = p.value[k]
        BY <2>1, <2>2, <3>3 DEF PutKept
      <4> QED
        BY <2>1, <3>1, <4>1, <4>2 DEF Kept
    <3> QED
      BY <2>1, <2>2, <3>2, <3>3 DEF OnePut, PutKept, OriginalKept
  <2>3. CASE p.of # visit \/ ~shown
    <3>1. p.of = 0
      BY <2>3 DEF OnePut
    <3>2. shown => disturbed
      BY <3>1 DEF OnePut
    <3>3. shown => UNCHANGED <<original, saving>>
      BY <1>9, <2>3 DEF Saved
    <3>4. ~shown => \A q \in puts' : q.of = 0
      BY <2>1 DEF OnePut
    <3> QED
      BY <2>1, <3>2, <3>3, <3>4 DEF OnePut, PutKept, OriginalKept
  <2> QED
    BY <2>2, <2>3
<1>10. ASSUME NEW p \in puts, NEW goesOn \in BOOLEAN, SaveFails(p, goesOn)
       PROVE  OnePut' /\ PutKept' /\ OriginalKept'
  <2>1. p.of # 0 /\ UNCHANGED <<visit, shown, original, loading, stored>>
    BY <1>10 DEF SaveFails
  <2>2. \A q \in puts \ {p} : q.of = 0
    BY <2>1 DEF OnePut
  <2>3. \A q \in puts' : q.of = 0
    BY <1>10, <2>2 DEF SaveFails, Typed
  <2>4. ASSUME shown, ~disturbed'
        PROVE  ~disturbed /\ puts' = {} /\ \A k \in Keys : Kept(k)
    <3>1. ~disturbed /\ ~goesOn /\ p.left = Keys
      BY <1>10, <2>4 DEF SaveFails
    <3>2. puts' = {}
      BY <1>10, <2>2, <2>4, <3>1 DEF SaveFails, OnePut
    <3> QED
      BY <2>4, <3>1, <3>2 DEF PutKept
  <2>5. \A k \in Keys : Kept(k)' <=> Kept(k)
    BY <2>1 DEF Kept, Read
  <2> QED
    BY <2>1, <2>3, <2>4, <2>5 DEF OnePut, PutKept, OriginalKept
<1>11. ASSUME NEW p \in puts, Forgotten(p) PROVE OnePut' /\ PutKept' /\ OriginalKept'
  <2>1. /\ p.of = 0 /\ puts' = puts \ {p}
        /\ UNCHANGED <<visit, shown, original, loading, saving, stored, disturbed>>
    BY <1>11 DEF Forgotten, pageVars
  <2>2. shown => disturbed
    BY <2>1 DEF OnePut
  <2> QED
    BY <2>1, <2>2 DEF OnePut, PutKept, OriginalKept
<1> QED
  BY <1>1, <1>2, <1>3, <1>4, <1>6, <1>7, <1>8, <1>9, <1>10, <1>11 DEF SettingsNext

\* What the page takes for the stored values is what the table holds once none of its
\* saves is under way, excepted the visits that were disturbed (Settings.tsx:36, 42;
\* settings.py:36-40).
THEOREM OriginalStored == SettingsSpec => []OriginalIsStored
<1>1. SettingsInv /\ [SettingsNext]_settingsVars => SettingsInv'
  BY TypedKept, SettingsKept DEF SettingsInv
<1>2. SettingsInv => OriginalIsStored
  <2>1. ASSUME SettingsInv, shown, ~loading, ~disturbed, \A p \in puts : p.of # visit
        PROVE  \A k \in Keys : original[k] \in {stored[k], Read(k)}
    <3>1. puts = {}
      BY <2>1 DEF SettingsInv, OnePut
    <3> QED
      BY <2>1, <3>1 DEF SettingsInv, OriginalKept, Kept
  <2> QED
    BY <2>1 DEF OriginalIsStored
<1> QED
  BY SettingsStarts, <1>1, <1>2, PTL DEF SettingsSpec
----------------------------------------------------------------------------
(* The sidebar. *)

\* A toggle that the layout on the screen shows changes what is in sight.
LEMMA ToggleSeen ==
  ASSUME open \in BOOLEAN, openMobile \in BOOLEAN, toggleSidebar, collapsible # "none",
         isMobile \/ (~narrow /\ parent # "refuses")
  PROVE  Look' # Look
<1>1. CASE isMobile
  <2>1. openMobile' # openMobile /\ isMobile' /\ collapsible' # "none"
    BY <1>1 DEF toggleSidebar
  <2>2. InSight = openMobile
    BY <1>1 DEF InSight, Placement, contextValue
  <2>3. InSight' = openMobile'
    BY <2>1 DEF InSight, Placement, contextValue
  <2> QED
    BY <2>1, <2>2, <2>3 DEF Look
<1>2. CASE ~isMobile
  <2>1. /\ open' = ~open /\ UNCHANGED <<isMobile, collapsible, narrow>>
        /\ ~narrow
    BY <1>2 DEF toggleSidebar, setOpen
  <2>2. CASE collapsible = "icon"
    <3>1. IconsOnly = ~open
      BY <1>2, <2>2 DEF IconsOnly, Placement, contextValue
    <3>2. IconsOnly' = ~open'
      BY <1>2, <2>1, <2>2 DEF IconsOnly, Placement, contextValue
    <3> QED
      BY <2>1, <3>1, <3>2 DEF Look
  <2>3. CASE collapsible # "icon"
    <3>1. InSight = open
      BY <1>2, <2>1, <2>3 DEF InSight, Placement, contextValue
    <3>2. InSight' = open'
      BY <1>2, <2>1, <2>3 DEF InSight, Placement, contextValue
    <3> QED
      BY <2>1, <3>1, <3>2 DEF Look
  <2> QED
    BY <2>2, <2>3
<1> QED
  BY <1>1, <1>2

\* A menu button in sight has its text or its tooltip, the cookie holds the flag of a
\* provider that keeps it, and a toggle changes what is in sight (sidebar.tsx:71-96, 173,
\* 536-543).
THEOREM SidebarIsCoherent == SidebarSpec => SidebarCoherent
<1> DEFINE Flags == open \in BOOLEAN /\ openMobile \in BOOLEAN
           Cookie == parent = "none" => cookie \in {"unset", Text(open)}
           FlagKept == Flags /\ Cookie
<1>1. SidebarInit => FlagKept
  BY DEF SidebarInit
<1>2. FlagKept /\ [SidebarNext]_sidebarVars => FlagKept'
  <2> SUFFICES ASSUME FlagKept, [SidebarNext]_sidebarVars PROVE FlagKept'
    OBVIOUS
  <2>1. CASE Shortcut \/ SidebarTrigger \/ SidebarRail
    BY <2>1 DEF Shortcut, SidebarTrigger, SidebarRail, toggleSidebar, setOpen
  <2>2. CASE Resize \/ FirstEffect \/ MediaChange \/ ParentSets \/ CloseSheet
             \/ UNCHANGED sidebarVars
    BY <2>2 DEF Resize, FirstEffect, MediaChange, ParentSets, CloseSheet, sidebarVars
  <2> QED
    BY <2>1, <2>2 DEF SidebarNext
<1>3. FlagKept => SidebarStates
  <2>1. InSight /\ collapsible # "none" => (IconsOnly <=> TooltipEnabled)
    BY DEF InSight, IconsOnly, TooltipEnabled, Placement, contextValue
  <2>2. /\ "text" \in SidebarMenuButton("text") <=> ~IconsOnly
        /\ "tooltip" \in SidebarMenuButton("text") <=> TooltipEnabled
    BY DEF SidebarMenuButton
  <2> QED
    BY <2>1, <2>2 DEF SidebarStates
<1>4. FlagKept /\ [SidebarNext]_sidebarVars =>
        [toggleSidebar /\ collapsible # "none" /\ (isMobile \/ (~narrow /\ parent # "refuses"))
           => Look' # Look]_sidebarVars
  BY ToggleSeen
<1> QED
  BY <1>1, <1>2, <1>3, <1>4, PTL DEF SidebarSpec, SidebarCoherent, TogglesShow
----------------------------------------------------------------------------
(* The carousel. *)

\* The engine selects a slide that is there.
Engine == slides \in Nat /\ selected \in Nat /\ (selected < slides \/ slides = 0)

\* Every step leaves the engine at a slide.
LEMMA EngineKept == Engine /\ [CarouselNext]_carouselVars => Engine'
<1> SUFFICES ASSUME Engine, [CarouselNext]_carouselVars PROVE Engine'
  OBVIOUS
<1>1. CASE scrollPrev \/ scrollNext \/ handleKeyDown
  BY <1>1 DEF scrollPrev, scrollNext, handleKeyDown, Select, CanPrev, CanNext, Engine
<1>2. CASE Drag
  BY <1>2 DEF Drag, Select, Engine
<1>3. CASE \E n \in 0 .. MaxSlides : n # slides /\ ReInit(n)
  BY <1>3, CarouselAssumption DEF ReInit, Engine
<1>4. CASE Attach \/ Turn \/ UNCHANGED carouselVars
  BY <1>4 DEF Attach, Turn, carouselVars, Engine
<1> QED
  BY <1>1, <1>2, <1>3, <1>4 DEF CarouselNext

\* What the buttons may do.
Buttons ==
  /\ canScrollPrev = (attached /\ CanPrev(slides, selected))
  /\ canScrollNext = (attached /\ CanNext(slides, selected))
  /\ attached \in BOOLEAN

\* Every step that moves the engine once the component listens sets the buttons.
LEMMA ButtonsKept == Buttons /\ [CarouselNext]_carouselVars => Buttons'
<1> SUFFICES ASSUME Buttons, [CarouselNext]_carouselVars PROVE Buttons'
  OBVIOUS
<1>1. ASSUME onSelect, attached' = TRUE PROVE Buttons'
  BY <1>1 DEF onSelect, Buttons, CanPrev, CanNext
<1>2. CASE Attach
  BY <1>1, <1>2 DEF Attach
<1>3. CASE scrollPrev \/ scrollNext \/ handleKeyDown \/ Drag
  <2>1. attached' = TRUE /\ onSelect
    BY <1>3 DEF scrollPrev, scrollNext, handleKeyDown, Drag, Select, Buttons
  <2> QED
    BY <1>1, <2>1
<1>4. CASE Turn \/ \E n \in 0 .. MaxSlides : n # slides /\ ReInit(n)
  <2>1. CASE attached
    <3>1. attached' = TRUE /\ onSelect
      BY <1>4, <2>1 DEF Turn, ReInit, Buttons
    <3> QED
      BY <1>1, <3>1
  <2>2. CASE ~attached
    BY <1>4, <2>2 DEF Turn, ReInit, Buttons
  <2> QED
    BY <2>1, <2>2
<1>5. CASE UNCHANGED carouselVars
  BY <1>5 DEF carouselVars, Buttons, CanPrev, CanNext
<1> QED
  BY <1>2, <1>3, <1>4, <1>5 DEF CarouselNext

\* Once attached, a button is enabled exactly when there is a slide on its side, and the
\* slides lie along the axis of the engine (carousel.tsx:52-66, 94-103, 135-170).
THEOREM ButtonsAgree == CarouselSpec => []CarouselAgrees
<1>1. CarouselInit => Engine /\ Buttons
  <2>1. CarouselInit => Engine
    BY CarouselAssumption DEF CarouselInit, Engine
  <2>2. CarouselInit => Buttons
    BY DEF CarouselInit, Buttons
  <2> QED
    BY <2>1, <2>2
<1>2. Engine /\ Buttons /\ [CarouselNext]_carouselVars => (Engine /\ Buttons)'
  BY EngineKept, ButtonsKept
<1>3. Engine /\ Buttons => CarouselButtons
  <2>1. Engine => selected \in 0 .. slides - 1 \/ slides = 0
    BY DEF Engine
  <2> QED
    BY <2>1 DEF Buttons, CarouselButtons
<1>4. LaidAlong
  BY DEF LaidAlong, engineOptions, CarouselContent, CarouselItem
<1> QED
  BY <1>1, <1>2, <1>3, <1>4, PTL DEF CarouselSpec, CarouselAgrees
----------------------------------------------------------------------------
(* The lists: what filter leaves of them. *)

\* p lists the places I in their order.
Enumerates(p, k, I) ==
  /\ k \in Nat /\ p \in [1 .. k -> I]
  /\ \A m, n \in 1 .. k : m < n => p[m] < p[n]
  /\ \A i \in I : \E n \in 1 .. k : p[n] = i

\* t is the elements of list at the places I.
Listed(list, I, t) ==
  \E k \in Nat : \E p : /\ Enumerates(p, k, I) /\ Len(t) = k
                        /\ \A n \in 1 .. k : t[n] = list[p[n]]

\* The next element is listed or not.
LEMMA ListedNext ==
  ASSUME NEW S, NEW list \in Seq(S), NEW I \in SUBSET (DOMAIN list),
         NEW n \in Nat, n + 1 \in DOMAIN list,
         NEW t \in Seq(S), Listed(list, I \cap (1 .. n), t)
  PROVE  /\ n + 1 \in I => /\ t \o <<list[n + 1]>> \in Seq(S)
                           /\ Listed(list, I \cap (1 .. n + 1), t \o <<list[n + 1]>>)
         /\ n + 1 \notin I => Listed(list, I \cap (1 .. n + 1), t)
<1>0. PICK k \in Nat : \E p : /\ Enumerates(p, k, I \cap (1 .. n)) /\ Len(t) = k
                              /\ \A m \in 1 .. k : t[m] = list[p[m]]
  BY DEF Listed
<1>1. PICK p : /\ Enumerates(p, k, I \cap (1 .. n)) /\ Len(t) = k
               /\ \A m \in 1 .. k : t[m] = list[p[m]]
  BY <1>0
<1>2. list[n + 1] \in S
  OBVIOUS
<1>3. CASE n + 1 \notin I
  <2>1. I \cap (1 .. n + 1) = I \cap (1 .. n)
    BY <1>3
  <2> QED
    BY <1>3, <2>1
<1>4. CASE n + 1 \in I
  <2> DEFINE last == <<list[n + 1]>>
             J == I \cap (1 .. n)
             q == [m \in 1 .. k + 1 |-> IF m = k + 1 THEN n + 1 ELSE p[m]]
  <2>1. last \in Seq(S) /\ Len(last) = 1 /\ last[1] = list[n + 1]
    BY <1>2
  <2> HIDE DEF last
  <2>2. /\ t \o last \in Seq(S) /\ Len(t \o last) = k + 1
        /\ \A m \in 1 .. k + 1 : (t \o last)[m] = IF m <= k THEN t[m] ELSE last[m - k]
    <3>1. /\ t \o last \in Seq(S) /\ Len(t \o last) = Len(t) + Len(last)
          /\ \A m \in 1 .. Len(t) + Len(last) :
               (t \o last)[m] = IF m <= Len(t) THEN t[m] ELSE last[m - Len(t)]
      BY <2>1, ConcatProperties
    <3> QED
      BY <1>1, <2>1, <3>1
  <2>3. I \cap (1 .. n + 1) = J \cup {n + 1}
    BY <1>4
  <2>4. /\ p \in [1 .. k -> J] /\ J \subseteq 1 .. n
        /\ \A m, l \in 1 .. k : m < l => p[m] < p[l]
        /\ \A i \in J : \E m \in 1 .. k : p[m] = i
    BY <1>1 DEF Enumerates
  <2> HIDE DEF J
  <2>5. \A m \in 1 .. k + 1 : m \in 1 .. k \/ m = k + 1
    OBVIOUS
  <2>6. \A m \in 1 .. k : m \in 1 .. k + 1 /\ m # k + 1 /\ q[m] = p[m] /\ p[m] \in J /\ p[m] \in 1 .. n
    <3>1. \A m \in 1 .. k : m \in 1 .. k + 1 /\ m # k + 1
      OBVIOUS
    <3>2. \A m \in 1 .. k : p[m] \in J /\ p[m] \in 1 .. n
      BY <2>4
    <3> QED
      BY <3>1, <3>2
  <2>7. q[k + 1] = n + 1 /\ k + 1 \in 1 .. k + 1
    OBVIOUS
  <2>8. q \in [1 .. k + 1 -> J \cup {n + 1}]
    BY <2>5, <2>6
  <2> HIDE DEF q
  <2>9. ASSUME NEW m \in 1 .. k + 1, NEW l \in 1 .. k + 1, m < l PROVE q[m] < q[l]
    <3>1. m \in 1 .. k
      BY <2>5, <2>9
    <3>2. CASE l \in 1 .. k
      BY <2>4, <2>6, <2>9, <3>1, <3>2
    <3>3. CASE l = k + 1
      <4>1. q[m] = p[m] /\ p[m] \in 1 .. n /\ q[l] = n + 1
        BY <2>6, <2>7, <3>1, <3>3
      <4> QED
        BY <4>1
    <3> QED
      BY <2>5, <3>2, <3>3
  <2>10. Enumerates(q, k + 1, J \cup {n + 1})
    <3>1. \A i \in J \cup {n + 1} : \E m \in 1 .. k + 1 : q[m] = i
      BY <2>4, <2>6, <2>7
    <3> QED
      BY <2>8, <2>9, <3>1 DEF Enumerates
  <2>11. ASSUME NEW m \in 1 .. k + 1 PROVE (t \o last)[m] = list[q[m]]
    <3>1. CASE m \in 1 .. k
      <4>1. m <= k
        BY <3>1
      <4> QED
        BY <1>1, <2>2, <2>6, <3>1, <4>1
    <3>2. CASE m = k + 1
      <4>1. ~(m <= k) /\ m - k = 1
        BY <3>2
      <4>2. (t \o last)[m] = last[1]
        BY <2>2, <4>1
      <4> QED
        BY <2>1, <2>7, <3>2, <4>2
    <3> QED
      BY <2>5, <3>1, <3>2
  <2>12. Listed(list, I \cap (1 .. n + 1), t \o last)
    <3>1. Enumerates(q, k + 1, I \cap (1 .. n + 1))
      BY <2>3, <2>10, Zenon
    <3>2. k + 1 \in Nat
      OBVIOUS
    <3>3. \A m \in 1 .. k + 1 : (t \o last)[m] = list[q[m]]
      BY <2>11
    <3>4. Len(t \o last) = k + 1
      BY <2>2
    <3> DEFINE long == t \o last
               l == k + 1
    <3>5. /\ Enumerates(q, l, I \cap (1 .. n + 1)) /\ Len(long) = l /\ l \in Nat
          /\ \A m \in 1 .. l : long[m] = list[q[m]]
      BY <3>1, <3>2, <3>3, <3>4
    <3> HIDE DEF long, l
    <3>6. Listed(list, I \cap (1 .. n + 1), long)
      BY <3>5 DEF Listed
    <3> QED
      BY <3>6 DEF long
  <2> QED
    BY <1>4, <2>2, <2>12 DEF last
<1> QED
  BY <1>3, <1>4

\* What filter leaves of a list: its elements at those places.
LEMMA RowsListed ==
  ASSUME NEW S, NEW list \in Seq(S), NEW I \in SUBSET (DOMAIN list)
  PROVE  RowsAt(list, I) \in Seq(S) /\ Listed(list, I, RowsAt(list, I))
<1> DEFINE parts == [i \in DOMAIN list |-> IF i \in I THEN <<list[i]>> ELSE <<>>]
<1>1. Len(list) \in Nat /\ DOMAIN list = 1 .. Len(list) /\ \A i \in DOMAIN list : list[i] \in S
  OBVIOUS
<1>2. /\ parts \in Seq(Seq(S)) /\ Len(parts) = Len(list)
      /\ \A i \in 1 .. Len(list) : parts[i] = IF i \in I THEN <<list[i]>> ELSE <<>>
  <2>1. \A i \in 1 .. Len(list) : (IF i \in I THEN <<list[i]>> ELSE <<>>) \in Seq(S)
    BY <1>1
  <2>2. parts \in [1 .. Len(list) -> Seq(S)]
    BY <1>1, <2>1
  <2>3. parts \in Seq(Seq(S)) /\ Len(parts) = Len(list)
    <3> HIDE DEF parts
    <3> QED
      BY <1>1, <2>2, FunctionIsSeq
  <2> QED
    BY <1>1, <2>3
<1>3. RowsAt(list, I) = FlattenSeq(parts)
  BY DEF RowsAt
<1> HIDE DEF parts
<1>4. <<>> \in Seq(S) /\ Listed(list, I \cap (1 .. 0), <<>>)
  <2> DEFINE none == [m \in 1 .. 0 |-> m]
  <2>1. Enumerates(none, 0, I \cap (1 .. 0)) /\ Len(<<>>) = 0 /\ 0 \in Nat
    BY DEF Enumerates
  <2> HIDE DEF none
  <2> QED
    BY <2>1 DEF Listed
<1>5. CASE Len(list) = 0
  <2>1. FlattenSeq(parts) = parts /\ parts = <<>>
    BY <1>2, <1>5, EmptySeq DEF FlattenSeq
  <2>2. I \cap (1 .. 0) = I
    BY <1>1, <1>5
  <2> QED
    BY <1>3, <1>4, <2>1, <2>2
<1>6. CASE Len(list) # 0
  <2>1. PICK f \in [1 .. Len(list) -> Seq(S)] :
          Flattens(f, parts, Len(list)) /\ FlattenSeq(parts) = f[Len(list)]
    BY <1>2, <1>6, FlattenUnfold
  <2> DEFINE P == {n \in Nat : n \in 1 .. Len(list) => Listed(list, I \cap (1 .. n), f[n])}
  <2>2. 0 \in P
    OBVIOUS
  <2>3. ASSUME NEW n \in Nat, n \in P PROVE n + 1 \in P
    <3> SUFFICES ASSUME n + 1 \in 1 .. Len(list) PROVE Listed(list, I \cap (1 .. n + 1), f[n + 1])
      OBVIOUS
    <3>1. PICK t \in Seq(S) : Listed(list, I \cap (1 .. n), t) /\ f[n + 1] = t \o parts[n + 1]
      <4>1. CASE n = 0
        <5>1. f[n + 1] = parts[n + 1] /\ parts[n + 1] \in Seq(S)
          <6>1. n + 1 = 1 /\ 1 \in 1 .. Len(list)
            BY <1>1, <1>6, <4>1
          <6> QED
            BY <1>2, <2>1, <6>1 DEF Flattens
        <5>2. <<>> \o parts[n + 1] = parts[n + 1]
          BY <5>1
        <5> QED
          BY <1>4, <4>1, <5>1, <5>2
      <4>2. CASE n # 0
        <5>1. n \in 1 .. Len(list) /\ n + 1 > 1 /\ (n + 1) - 1 = n
          BY <1>1, <4>2
        <5>2. f[n + 1] = f[n] \o parts[n + 1] /\ f[n] \in Seq(S)
          BY <2>1, <5>1 DEF Flattens
        <5> QED
          BY <2>3, <5>1, <5>2
      <4> QED
        BY <4>1, <4>2
    <3>2. n + 1 \in DOMAIN list
      BY <1>1
    <3>3. parts[n + 1] = IF n + 1 \in I THEN <<list[n + 1]>> ELSE <<>>
      BY <1>2
    <3>4. CASE n + 1 \in I
      <4>1. f[n + 1] = t \o <<list[n + 1]>>
        BY <3>1, <3>3, <3>4
      <4> QED
        BY <3>1, <3>2, <3>4, <4>1, ListedNext
    <3>5. CASE n + 1 \notin I
      <4>1. f[n + 1] = t
        BY <3>1, <3>3, <3>5
      <4> QED
        BY <3>1, <3>2, <3>5, <4>1, ListedNext
    <3> QED
      BY <3>4, <3>5
  <2> HIDE DEF P
  <2>4. Nat \subseteq P
    BY <2>2, <2>3, NatInduct
  <2>5. Len(list) \in 1 .. Len(list) /\ Len(list) \in P
    BY <1>1, <1>6, <2>4
  <2>6. I \cap (1 .. Len(list)) = I /\ f[Len(list)] \in Seq(S)
    BY <1>1, <2>5
  <2> QED
    BY <1>3, <2>1, <2>5, <2>6 DEF P
<1> QED
  BY <1>5, <1>6

\* The number of places, and of those up to the n-th.
Counts(p, k, I) ==
  /\ IsFiniteSet(I) /\ Cardinality(I) = k
  /\ \A n \in 1 .. k : p[n] \in I /\ Cardinality({i \in I : i <= p[n]}) = n

LEMMA Counted ==
  ASSUME NEW I \in SUBSET Nat, NEW k, NEW p, Enumerates(p, k, I)
  PROVE  Counts(p, k, I)
<1>0. /\ k \in Nat /\ p \in [1 .. k -> I] /\ \A m, n \in 1 .. k : m < n => p[m] < p[n]
      /\ \A i \in I : \E n \in 1 .. k : p[n] = i
  BY DEF Enumerates
<1>1. /\ k \in Nat /\ p \in [1 .. k -> I] /\ \A m, n \in 1 .. k : m < n => p[m] < p[n]
      /\ \A i \in I : \E n \in 1 .. k : p[n] = i
      /\ \A n \in 1 .. k : p[n] \in Nat /\ n \in Nat
  <2>1. \A n \in 1 .. k : p[n] \in Nat
    BY <1>0
  <2>2. \A n \in 1 .. k : n \in Nat
    OBVIOUS
  <2> QED
    BY <1>0, <2>1, <2>2
<1>2. ASSUME NEW n \in 0 .. k
      PROVE  IsFiniteSet({p[m] : m \in 1 .. n}) /\ Cardinality({p[m] : m \in 1 .. n}) = n
  <2> DEFINE f == [m \in 1 .. n |-> p[m]]
  <2>1. n \in Nat /\ 1 .. n \subseteq 1 .. k
    BY <1>1
  <2>2. IsFiniteSet(1 .. n) /\ Cardinality(1 .. n) = n
    BY <2>1, CountUpTo
  <2>3. \A a, b \in 1 .. n : f[a] = f[b] => a = b
    <3> SUFFICES ASSUME NEW a \in 1 .. n, NEW b \in 1 .. n, p[a] = p[b] PROVE a = b
      OBVIOUS
    <3>1. ~(a < b) /\ ~(b < a)
      <4>1. p[a] \in Nat /\ p[b] \in Nat /\ a \in 1 .. k /\ b \in 1 .. k
        BY <1>1, <2>1
      <4>2. ~(p[a] < p[b]) /\ ~(p[b] < p[a])
        BY <4>1
      <4> QED
        BY <1>1, <4>1, <4>2
    <3> QED
      BY <2>1, <3>1
  <2>4. DOMAIN f = 1 .. n /\ {f[m] : m \in 1 .. n} = {p[m] : m \in 1 .. n}
    OBVIOUS
  <2> HIDE DEF f
  <2>5. IsFiniteSet({f[m] : m \in 1 .. n}) /\ Cardinality({f[m] : m \in 1 .. n}) = n
    BY <2>2, <2>3, <2>4, FiniteImage
  <2> QED
    BY <2>4, <2>5
<1>3. I = {p[m] : m \in 1 .. k}
  BY <1>1
<1>4. ASSUME NEW n \in 1 .. k PROVE {i \in I : i <= p[n]} = {p[m] : m \in 1 .. n}
  <2>1. ASSUME NEW i \in I, i <= p[n] PROVE \E m \in 1 .. n : i = p[m]
    <3>1. PICK m \in 1 .. k : p[m] = i
      BY <1>1
    <3>2. ~(p[n] < p[m]) /\ m \in Nat /\ n \in Nat
      BY <1>1, <2>1, <3>1
    <3>3. ~(n < m)
      BY <1>1, <3>2
    <3>4. m \in 1 .. n
      BY <3>2, <3>3
    <3> QED
      BY <3>1, <3>4
  <2>2. ASSUME NEW m \in 1 .. n PROVE p[m] \in I /\ p[m] <= p[n]
    <3>1. m \in 1 .. k /\ (m < n \/ m = n) /\ p[n] \in Nat
      BY <1>1
    <3>2. p[m] \in I /\ p[m] \in Nat /\ (p[m] < p[n] \/ p[m] = p[n])
      BY <1>1, <3>1
    <3> QED
      BY <3>1, <3>2
  <2> QED
    BY <2>1, <2>2
<1>5. k \in 0 .. k /\ \A n \in 1 .. k : n \in 0 .. k /\ p[n] \in I
  BY <1>1
<1> QED
  BY <1>2, <1>3, <1>4, <1>5 DEF Counts

\* There is one list of the elements at some places.
LEMMA ListedOnce ==
  ASSUME NEW S, NEW list \in Seq(S), NEW I \in SUBSET (DOMAIN list),
         NEW t \in Seq(S), NEW u \in Seq(S), Listed(list, I, t), Listed(list, I, u)
  PROVE  t = u
<1>0. I \in SUBSET Nat
  OBVIOUS
<1>1. PICK k \in Nat : \E p : /\ Enumerates(p, k, I) /\ Len(t) = k
                              /\ \A n \in 1 .. k : t[n] = list[p[n]]
  BY DEF Listed
<1>2. PICK p : Enumerates(p, k, I) /\ Len(t) = k /\ \A n \in 1 .. k : t[n] = list[p[n]]
  BY <1>1
<1>3. PICK l \in Nat : \E q : /\ Enumerates(q, l, I) /\ Len(u) = l
                              /\ \A n \in 1 .. l : u[n] = list[q[n]]
  BY DEF Listed
<1>4. PICK q : Enumerates(q, l, I) /\ Len(u) = l /\ \A n \in 1 .. l : u[n] = list[q[n]]
  BY <1>3
<1>5. Counts(p, k, I) /\ Counts(q, l, I)
  BY <1>0, <1>2, <1>4, Counted
<1>6. k = l /\ IsFiniteSet(I)
  BY <1>5 DEF Counts
<1>7. ASSUME NEW n \in 1 .. k PROVE p[n] = q[n]
  <2> DEFINE A == {i \in I : i <= p[n]}
             B == {i \in I : i <= q[n]}
  <2>1. Cardinality(A) = n /\ p[n] \in I
    BY <1>5 DEF Counts
  <2>2. Cardinality(B) = n /\ q[n] \in I
    BY <1>5, <1>6 DEF Counts
  <2>3. IsFiniteSet(I)
    BY <1>6
  <2>4. p[n] \in Nat /\ q[n] \in Nat /\ p[n] \in A /\ q[n] \in B /\ IsFiniteSet(A) /\ IsFiniteSet(B)
    BY <1>0, <2>1, <2>2, <2>3, FS_Subset
  <2>5. A \subseteq B \/ B \subseteq A
    <3>1. \A i \in I : i \in Nat
      BY <1>0
    <3> QED
      BY <2>4, <3>1
  <2> HIDE DEF A, B
  <2>6. A = B
    BY <2>1, <2>2, <2>4, <2>5, FS_Subset
  <2>7. p[n] <= q[n] /\ q[n] <= p[n]
    BY <2>4, <2>6 DEF A, B
  <2> QED
    BY <2>4, <2>7
<1>8. \A n \in 1 .. k : t[n] = u[n]
  BY <1>2, <1>4, <1>6, <1>7
<1> QED
  BY <1>2, <1>4, <1>6, <1>8

\* What is listed at some places is what RowsAt returns.
LEMMA IsRowsAt ==
  ASSUME NEW S, NEW list \in Seq(S), NEW I \in SUBSET (DOMAIN list),
         NEW t \in Seq(S), Listed(list, I, t)
  PROVE  RowsAt(list, I) = t
BY RowsListed, ListedOnce

\* All rows.
LEMMA AllRows ==
  ASSUME NEW S, NEW list \in Seq(S)
  PROVE  RowsAt(list, DOMAIN list) = list
<1> DEFINE D == DOMAIN list
           p == [n \in 1 .. Len(list) |-> n]
<1>1. Len(list) \in Nat /\ D = 1 .. Len(list) /\ D \in SUBSET (DOMAIN list)
  OBVIOUS
<1>2. Enumerates(p, Len(list), D) /\ \A n \in 1 .. Len(list) : list[n] = list[p[n]]
  BY <1>1 DEF Enumerates
<1> HIDE DEF p, D
<1>3. Listed(list, D, list)
  BY <1>1, <1>2 DEF Listed
<1>4. RowsAt(list, D) = list
  BY <1>1, <1>3, IsRowsAt
<1> QED
  BY <1>4 DEF D

\* Those of the places I where list has a row of D.
Among(list, I, D) == {i \in I : list[i] \in D}

\* The rows of D among the rows at some places.
LEMMA RowsOfRows ==
  ASSUME NEW S, NEW list \in Seq(S), NEW I \in SUBSET (DOMAIN list), NEW D
  PROVE  RowsAt(list, Among(list, I, D)) =
           RowsAt(RowsAt(list, I), Among(RowsAt(list, I), DOMAIN RowsAt(list, I), D))
<1> USE DEF Among
<1> DEFINE t == RowsAt(list, I)
           J == Among(list, I, D)
           K == Among(t, DOMAIN t, D)
           u == RowsAt(t, K)
<1>1. t \in Seq(S) /\ Listed(list, I, t)
  BY RowsListed
<1> HIDE DEF t
<1>2. K \in SUBSET (DOMAIN t) /\ J \in SUBSET (DOMAIN list) /\ DOMAIN t = 1 .. Len(t)
  BY <1>1
<1>3. \A n \in K : n \in DOMAIN t /\ t[n] \in D
  OBVIOUS
<1>4. \A n \in DOMAIN t : t[n] \in D => n \in K
  OBVIOUS
<1>5. \A i \in J : i \in I /\ list[i] \in D
  OBVIOUS
<1>6. \A i \in I : list[i] \in D => i \in J
  OBVIOUS
<1> HIDE DEF J, K
<1>7. u \in Seq(S) /\ Listed(t, K, u)
  BY <1>1, <1>2, RowsListed
<1> HIDE DEF u
<1>8. PICK k \in Nat : \E p : Enumerates(p, k, I) /\ Len(t) = k /\ \A n \in 1 .. k : t[n] = list[p[n]]
  BY <1>1 DEF Listed
<1>9. PICK p : Enumerates(p, k, I) /\ Len(t) = k /\ \A n \in 1 .. k : t[n] = list[p[n]]
  BY <1>8
<1>10. PICK l \in Nat : \E q : Enumerates(q, l, K) /\ Len(u) = l /\ \A n \in 1 .. l : u[n] = t[q[n]]
  BY <1>7 DEF Listed
<1>11. PICK q : Enumerates(q, l, K) /\ Len(u) = l /\ \A n \in 1 .. l : u[n] = t[q[n]]
  BY <1>10
<1>12. /\ \A n \in 1 .. l : q[n] \in K /\ q[n] \in 1 .. k
       /\ \A m, n \in 1 .. l : m < n => q[m] < q[n]
       /\ \A j \in K : \E n \in 1 .. l : q[n] = j
  <2>1. \A n \in 1 .. l : q[n] \in K
    BY <1>11 DEF Enumerates
  <2>2. \A n \in K : n \in 1 .. k
    BY <1>2, <1>9
  <2> QED
    BY <1>11, <2>1, <2>2 DEF Enumerates
<1>13. /\ \A n \in 1 .. k : p[n] \in I
       /\ \A m, n \in 1 .. k : m < n => p[m] < p[n]
       /\ \A i \in I : \E n \in 1 .. k : p[n] = i
  BY <1>9 DEF Enumerates
<1> DEFINE r == [n \in 1 .. l |-> p[q[n]]]
<1>14. \A n \in 1 .. l : r[n] = p[q[n]] /\ r[n] \in J
  <2>1. ASSUME NEW n \in 1 .. l PROVE p[q[n]] \in J
    <3>1. q[n] \in 1 .. k /\ t[q[n]] \in D
      BY <1>3, <1>12
    <3>2. p[q[n]] \in I /\ list[p[q[n]]] \in D
      BY <1>9, <1>13, <3>1
    <3> QED
      BY <1>6, <3>2
  <2> QED
    BY <2>1
<1>15. r \in [1 .. l -> J]
  BY <1>14
<1> HIDE DEF r
<1>16. \A i \in J : \E n \in 1 .. l : r[n] = i
  <2> SUFFICES ASSUME NEW i \in J PROVE \E n \in 1 .. l : r[n] = i
    OBVIOUS
  <2>1. PICK m \in 1 .. k : p[m] = i
    BY <1>5, <1>13
  <2>2. m \in K
    BY <1>2, <1>4, <1>5, <1>9, <2>1
  <2>3. PICK n \in 1 .. l : q[n] = m
    BY <1>12, <2>2
  <2> QED
    BY <1>14, <2>1, <2>3
<1>17. \A m, n \in 1 .. l : m < n => r[m] < r[n]
  BY <1>12, <1>13, <1>14
<1>18. Enumerates(r, l, J)
  BY <1>15, <1>16, <1>17 DEF Enumerates
<1>19. \A n \in 1 .. l : u[n] = list[r[n]]
  BY <1>9, <1>11, <1>12, <1>14
<1>20. Listed(list, J, u)
  BY <1>11, <1>18, <1>19 DEF Listed
<1>21. RowsAt(list, J) = u
  BY <1>2, <1>7, <1>20, IsRowsAt
<1> QED
  BY <1>21 DEF J, u, K, t

\* A row in front.
LEMMA InFront ==
  ASSUME NEW S, NEW row \in S, NEW list \in Seq(S)
  PROVE  /\ <<row>> \o list \in Seq(S) /\ Len(<<row>> \o list) = Len(list) + 1
         /\ (<<row>> \o list)[1] = row
         /\ \A n \in 1 .. Len(list) :
              n + 1 \in DOMAIN (<<row>> \o list) /\ (<<row>> \o list)[n + 1] = list[n]
<1> DEFINE one == <<row>>
           all == one \o list
<1>1. one \in Seq(S) /\ Len(one) = 1 /\ one[1] = row
  OBVIOUS
<1> HIDE DEF one
<1>2. /\ all \in Seq(S) /\ Len(all) = Len(one) + Len(list)
      /\ \A i \in 1 .. Len(one) + Len(list) : all[i] = IF i <= Len(one) THEN one[i] ELSE list[i - Len(one)]
  BY <1>1, ConcatProperties
<1> HIDE DEF all
<1>3. Len(list) \in Nat /\ Len(all) = Len(list) + 1 /\ DOMAIN all = 1 .. Len(list) + 1
  <2>1. Len(list) \in Nat
    OBVIOUS
  <2>2. 1 + Len(list) = Len(list) + 1
    BY <2>1
  <2>3. DOMAIN all = 1 .. Len(all)
    BY <1>2
  <2> QED
    BY <1>1, <1>2, <2>1, <2>2, <2>3
<1>4. \A k \in Nat : /\ 1 \in 1 .. k + 1 /\ 1 \in 1 .. 1 + k
                     /\ \A n \in 1 .. k : n + 1 \in 1 .. k + 1 /\ n + 1 \in 1 .. 1 + k
                                          /\ ~(n + 1 <= 1) /\ (n + 1) - 1 = n
  OBVIOUS
<1>5. all[1] = row
  <2>1. 1 \in 1 .. 1 + Len(list) /\ 1 <= 1
    BY <1>3, <1>4
  <2> QED
    BY <1>1, <1>2, <2>1
<1>6. ASSUME NEW n \in 1 .. Len(list) PROVE n + 1 \in DOMAIN all /\ all[n + 1] = list[n]
  <2>1. n + 1 \in 1 .. Len(list) + 1 /\ n + 1 \in 1 .. 1 + Len(list) /\ ~(n + 1 <= 1) /\ (n + 1) - 1 = n
    BY <1>3, <1>4
  <2> QED
    BY <1>1, <1>2, <1>3, <2>1
<1> QED
  BY <1>2, <1>3, <1>5, <1>6 DEF all, one

\* The places of the rows with one more row in front.
Behind(J, L) == L = {1} \cup {i + 1 : i \in J}

\* A row in front of the rows at some places.
LEMMA RowsBehind ==
  ASSUME NEW S, NEW row \in S, NEW list \in Seq(S), NEW J \in SUBSET (DOMAIN list),
         NEW L, Behind(J, L)
  PROVE  RowsAt(<<row>> \o list, L) = <<row>> \o RowsAt(list, J)
<1> DEFINE long == <<row>> \o list
           t == RowsAt(list, J)
           u == <<row>> \o t
<1>1. t \in Seq(S) /\ Listed(list, J, t)
  BY RowsListed
<1> HIDE DEF t
<1>2. /\ long \in Seq(S) /\ Len(long) = Len(list) + 1 /\ long[1] = row
      /\ \A n \in 1 .. Len(list) : n + 1 \in DOMAIN long /\ long[n + 1] = list[n]
  BY InFront
<1>3. /\ u \in Seq(S) /\ Len(u) = Len(t) + 1 /\ u[1] = row
      /\ \A n \in 1 .. Len(t) : u[n + 1] = t[n]
  BY <1>1, InFront
<1> HIDE DEF long, u
<1>4. PICK k \in Nat : \E p : Enumerates(p, k, J) /\ Len(t) = k /\ \A n \in 1 .. k : t[n] = list[p[n]]
  BY <1>1 DEF Listed
<1>5. PICK p : Enumerates(p, k, J) /\ Len(t) = k /\ \A n \in 1 .. k : t[n] = list[p[n]]
  BY <1>4
<1>6. \A j \in J : j \in 1 .. Len(list) /\ j \in Nat /\ j + 1 \in L /\ 1 < j + 1
  BY DEF Behind
<1>7. 1 \in L /\ \A i \in L : i = 1 \/ \E j \in J : i = j + 1
  BY DEF Behind
<1>8. /\ \A n \in 1 .. k : p[n] \in J
      /\ \A m, n \in 1 .. k : m < n => p[m] < p[n]
      /\ \A i \in J : \E n \in 1 .. k : p[n] = i
  BY <1>5 DEF Enumerates
<1>9. L \in SUBSET (DOMAIN long)
  <2>1. 1 \in DOMAIN long
    <3>1. Len(list) \in Nat
      OBVIOUS
    <3>2. 1 \in 1 .. Len(list) + 1
      BY <3>1
    <3>3. DOMAIN long = 1 .. Len(long)
      BY <1>2
    <3> QED
      BY <1>2, <3>2, <3>3
  <2> QED
    BY <1>2, <1>6, <1>7, <2>1
<1> DEFINE r == [n \in 1 .. k + 1 |-> IF n = 1 THEN 1 ELSE p[n - 1] + 1]
<1>10. /\ 1 \in 1 .. k + 1
       /\ \A n \in 1 .. k + 1 : n = 1 \/ (n - 1 \in 1 .. k /\ n = (n - 1) + 1 /\ 1 < n /\ n # 1)
       /\ \A n \in 1 .. k : n + 1 \in 1 .. k + 1 /\ n + 1 # 1 /\ (n + 1) - 1 = n
       /\ \A m, n \in 1 .. k + 1 : m < n => n # 1 /\ (m # 1 => m - 1 < n - 1)
  OBVIOUS
<1>11. r[1] = 1 /\ \A n \in 1 .. k : r[n + 1] = p[n] + 1
  BY <1>10
<1>12. r \in [1 .. k + 1 -> L]
  BY <1>6, <1>7, <1>8, <1>10
<1> HIDE DEF r
<1>13. ASSUME NEW m \in 1 .. k + 1, NEW n \in 1 .. k + 1, m < n PROVE r[m] < r[n]
  <2>1. n - 1 \in 1 .. k /\ r[n] = p[n - 1] + 1 /\ p[n - 1] \in J
    BY <1>8, <1>10, <1>11, <1>13
  <2>2. CASE m = 1
    BY <1>6, <1>11, <2>1, <2>2
  <2>3. CASE m # 1
    <3>1. m - 1 \in 1 .. k /\ r[m] = p[m - 1] + 1 /\ p[m - 1] \in J /\ m - 1 < n - 1
      BY <1>8, <1>10, <1>11, <1>13, <2>3
    <3>2. p[m - 1] < p[n - 1] /\ p[m - 1] \in Nat /\ p[n - 1] \in Nat
      BY <1>6, <1>8, <2>1, <3>1
    <3>3. p[m - 1] + 1 < p[n - 1] + 1
      BY <3>2
    <3> QED
      BY <2>1, <3>1, <3>3
  <2> QED
    BY <2>2, <2>3
<1>14. \A i \in L : \E n \in 1 .. k + 1 : r[n] = i
  <2> SUFFICES ASSUME NEW i \in L PROVE \E n \in 1 .. k + 1 : r[n] = i
    OBVIOUS
  <2>1. CASE i = 1
    BY <1>10, <1>11, <2>1
  <2>2. CASE i # 1
    <3>1. PICK j \in J : i = j + 1
      BY <1>7, <2>2
    <3>2. PICK n \in 1 .. k : p[n] = j
      BY <1>8
    <3> QED
      BY <1>10, <1>11, <3>1, <3>2
  <2> QED
    BY <2>1, <2>2
<1>15. k + 1 \in Nat /\ Enumerates(r, k + 1, L)
  BY <1>12, <1>13, <1>14 DEF Enumerates
<1>16. ASSUME NEW n \in 1 .. k + 1 PROVE u[n] = long[r[n]]
  <2>1. CASE n = 1
    BY <1>2, <1>3, <1>11, <2>1
  <2>2. CASE n # 1
    <3>1. n - 1 \in 1 .. k /\ n = (n - 1) + 1
      BY <1>10, <2>2
    <3> DEFINE m == n - 1
    <3>2. m \in 1 .. k /\ n = m + 1
      BY <3>1
    <3> HIDE DEF m
    <3>3. u[m + 1] = t[m] /\ r[m + 1] = p[m] + 1 /\ t[m] = list[p[m]]
      BY <1>3, <1>5, <1>11, <3>2
    <3>4. long[p[m] + 1] = list[p[m]]
      BY <1>2, <1>6, <1>8, <3>2
    <3> QED
      BY <3>2, <3>3, <3>4
  <2> QED
    BY <2>1, <2>2
<1> DEFINE l == k + 1
<1>17. /\ l \in Nat /\ Enumerates(r, l, L) /\ Len(u) = l
       /\ \A n \in 1 .. l : u[n] = long[r[n]]
  BY <1>3, <1>5, <1>15, <1>16
<1> HIDE DEF l
<1>18. Listed(long, L, u)
  BY <1>17 DEF Listed
<1>19. RowsAt(long, L) = u
  BY <1>2, <1>3, <1>9, <1>18, IsRowsAt
<1> QED
  BY <1>19 DEF long, u, t

----------------------------------------------------------------------------
(* The lists: the newest rows. *)

\* The first rows of a list.
LEMMA SliceOf ==
  ASSUME NEW S, NEW list \in Seq(S), NEW n \in Nat
  PROVE  /\ Slice(list, n) \in Seq(S) /\ Len(Slice(list, n)) = Smaller(n, Len(list))
         /\ \A i \in 1 .. Smaller(n, Len(list)) : i \in 1 .. Len(list) /\ Slice(list, n)[i] = list[i]
<1> DEFINE k == Smaller(n, Len(list))
<1>1. Len(list) \in Nat /\ \A i \in 1 .. Len(list) : list[i] \in S
  OBVIOUS
<1>2. k \in Nat /\ k <= Len(list) /\ \A i \in 1 .. k : i \in 1 .. Len(list)
  BY <1>1 DEF Smaller
<1> HIDE DEF k
<1>3. /\ SubSeq(list, 1, k) \in Seq(S) /\ Len(SubSeq(list, 1, k)) = k
      /\ \A j \in 1 .. k : SubSeq(list, 1, k)[j] = list[j]
  BY <1>1, <1>2
<1> QED
  BY <1>2, <1>3 DEF Slice, k

\* No two rows of a list have the same id.
Distinct(list) == \A i, j \in 1 .. Len(list) : list[i].id = list[j].id => i = j

\* The places of the newest rows.
NewestPlaces(list) == {i \in DOMAIN list : \A j \in 1 .. i - 1 : list[j].id # list[i].id}

LEMMA NewestDistinct ==
  ASSUME NEW S, NEW list \in Seq(S)
  PROVE  Newest(list) \in Seq(S) /\ Distinct(Newest(list))
<1> DEFINE I == NewestPlaces(list)
           t == RowsAt(list, I)
<1>1. I \in SUBSET (DOMAIN list) /\ t = Newest(list)
  BY DEF NewestPlaces, Newest
<1>2. \A i \in I, j \in I : j < i => list[j].id # list[i].id
  <2> SUFFICES ASSUME NEW i \in I, NEW j \in I, j < i PROVE list[j].id # list[i].id
    OBVIOUS
  <2>1. i \in 1 .. Len(list) /\ j \in 1 .. Len(list) /\ Len(list) \in Nat
    BY <1>1
  <2>2. j \in 1 .. i - 1
    BY <2>1
  <2> QED
    BY <2>2 DEF NewestPlaces
<1> HIDE DEF I
<1>3. t \in Seq(S) /\ Listed(list, I, t)
  BY <1>1, RowsListed
<1> HIDE DEF t
<1>4. PICK k \in Nat : \E p : Enumerates(p, k, I) /\ Len(t) = k /\ \A n \in 1 .. k : t[n] = list[p[n]]
  BY <1>3 DEF Listed
<1>5. PICK p : Enumerates(p, k, I) /\ Len(t) = k /\ \A n \in 1 .. k : t[n] = list[p[n]]
  BY <1>4
<1>6. ASSUME NEW i \in 1 .. k, NEW j \in 1 .. k, j < i PROVE t[j].id # t[i].id
  <2>1. p[j] < p[i] /\ p[i] \in I /\ p[j] \in I
    BY <1>5, <1>6 DEF Enumerates
  <2> QED
    BY <1>2, <1>5, <2>1
<1>7. \A i, j \in 1 .. k : i = j \/ i < j \/ j < i
  OBVIOUS
<1> QED
  BY <1>1, <1>3, <1>5, <1>6, <1>7 DEF Distinct

\* With one more row, it and the newest of the others.
LEMMA NewestBehind ==
  ASSUME NEW S, NEW list \in Seq(S), NEW row \in S
  PROVE  Newest(<<row>> \o list) =
           <<row>> \o RowsAt(Newest(list), {i \in DOMAIN Newest(list) : Newest(list)[i].id # row.id})
<1> DEFINE I == NewestPlaces(list)
           D == {r \in S : r.id # row.id}
           long == <<row>> \o list
           J == Among(list, I, D)
           L == {1} \cup {i + 1 : i \in J}
           N == RowsAt(list, I)
<1>1. /\ long \in Seq(S) /\ Len(long) = Len(list) + 1 /\ long[1] = row
      /\ \A n \in 1 .. Len(list) : n + 1 \in DOMAIN long /\ long[n + 1] = list[n]
  BY InFront
<1>2. /\ I \in SUBSET (DOMAIN list) /\ Newest(list) = N /\ N \in Seq(S)
      /\ Newest(long) = RowsAt(long, NewestPlaces(long))
  BY NewestDistinct DEF NewestPlaces, Newest
<1>3. RowsAt(list, J) = RowsAt(N, Among(N, DOMAIN N, D))
  <2> HIDE DEF I, D
  <2> QED
    BY <1>2, RowsOfRows
<1>4. Among(N, DOMAIN N, D) = {n \in DOMAIN N : N[n].id # row.id}
  <2> HIDE DEF N
  <2>1. \A n \in DOMAIN N : N[n] \in S
    BY <1>2
  <2> QED
    BY <2>1 DEF Among
<1>5. RowsAt(long, L) = <<row>> \o RowsAt(list, J)
  <2>1. J \in SUBSET (DOMAIN list)
    BY <1>2 DEF Among
  <2>2. Behind(J, L)
    BY DEF Behind
  <2>3. ASSUME NEW A, A \in SUBSET (DOMAIN list), NEW B, Behind(A, B)
        PROVE  RowsAt(<<row>> \o list, B) = <<row>> \o RowsAt(list, A)
    BY <2>3, RowsBehind
  <2> HIDE DEF J, L
  <2> QED
    BY <2>1, <2>2, <2>3
<1>6. NewestPlaces(long) = L
  <2>1. /\ Len(list) \in Nat /\ DOMAIN long = 1 .. Len(list) + 1
        /\ \A n \in 1 .. Len(list) : long[n + 1] = list[n] /\ list[n] \in S
    <3>1. DOMAIN long = 1 .. Len(long)
      BY <1>1
    <3> QED
      BY <1>1, <3>1
  <2>2. long[1] = row
    BY <1>1
  <2> HIDE DEF long
  <2>3. \A k \in Nat : \A i \in 1 .. k + 1 : i = 1 \/ (i - 1 \in 1 .. k /\ i = (i - 1) + 1)
    OBVIOUS
  <2>4. \A k \in Nat : /\ 1 \in 1 .. k + 1 /\ 1 .. 1 - 1 = {}
                       /\ \A i \in 1 .. k : /\ i + 1 \in 1 .. k + 1 /\ 1 \in 1 .. (i + 1) - 1
                                            /\ \A j \in 1 .. i - 1 : j + 1 \in 1 .. (i + 1) - 1 /\ j \in 1 .. k
                                            /\ \A j \in 1 .. (i + 1) - 1 :
                                                 j # 1 => j - 1 \in 1 .. i - 1 /\ j = (j - 1) + 1
    OBVIOUS
  <2>5. 1 \in NewestPlaces(long)
    BY <2>1, <2>4 DEF NewestPlaces
  <2>6. ASSUME NEW i \in 1 .. Len(list) PROVE i + 1 \in NewestPlaces(long) <=> i \in J
    <3>1. i + 1 \in NewestPlaces(long) <=> \A j \in 1 .. (i + 1) - 1 : long[j].id # list[i].id
      BY <2>1, <2>4 DEF NewestPlaces
    <3>2. i \in J <=> list[i].id # row.id /\ \A j \in 1 .. i - 1 : list[j].id # list[i].id
      <4>1. i \in DOMAIN list /\ list[i] \in S
        OBVIOUS
      <4> QED
        BY <4>1 DEF NewestPlaces, Among
    <3>3. ASSUME \A j \in 1 .. (i + 1) - 1 : long[j].id # list[i].id
          PROVE  list[i].id # row.id /\ \A j \in 1 .. i - 1 : list[j].id # list[i].id
      <4>1. list[i].id # row.id
        BY <2>1, <2>2, <2>4, <3>3
      <4>2. ASSUME NEW j \in 1 .. i - 1 PROVE list[j].id # list[i].id
        <5>1. j + 1 \in 1 .. (i + 1) - 1 /\ j \in 1 .. Len(list)
          BY <2>1, <2>4
        <5> QED
          BY <2>1, <3>3, <5>1
      <4> QED
        BY <4>1, <4>2
    <3>4. ASSUME list[i].id # row.id, \A j \in 1 .. i - 1 : list[j].id # list[i].id,
                 NEW j \in 1 .. (i + 1) - 1
          PROVE  long[j].id # list[i].id
      <4>1. CASE j = 1
        BY <2>2, <3>4, <4>1
      <4>2. CASE j # 1
        <5> DEFINE m == j - 1
        <5>1. m \in 1 .. i - 1 /\ j = m + 1
          BY <2>1, <2>4, <4>2
        <5> HIDE DEF m
        <5>2. m \in 1 .. Len(list)
          BY <2>1, <2>4, <5>1
        <5>3. long[j] = list[m]
          BY <2>1, <5>1, <5>2
        <5> QED
          BY <3>4, <5>1, <5>3
      <4> QED
        BY <4>1, <4>2
    <3> QED
      BY <3>1, <3>2, <3>3, <3>4
  <2>7. J \subseteq 1 .. Len(list) /\ NewestPlaces(long) \subseteq 1 .. Len(list) + 1
    BY <2>1 DEF NewestPlaces, Among
  <2> HIDE DEF J
  <2>8. ASSUME NEW i \in NewestPlaces(long) PROVE i \in L
    <3>1. i = 1 \/ (i - 1 \in 1 .. Len(list) /\ i = (i - 1) + 1)
      BY <2>1, <2>3, <2>7
    <3> DEFINE m == i - 1
    <3>2. i = 1 \/ (m \in 1 .. Len(list) /\ i = m + 1)
      BY <3>1
    <3> HIDE DEF m
    <3> QED
      BY <2>6, <3>2
  <2>9. ASSUME NEW i \in L PROVE i \in NewestPlaces(long)
    BY <2>5, <2>6, <2>7
  <2> QED
    BY <2>8, <2>9
<1> QED
  BY <1>2, <1>3, <1>4, <1>5, <1>6

\* A list of different rows without the row of an id, that is without its row q; without
\* none of them if q is behind the last.
Without(list, q, t) ==
  /\ q \in 1 .. Len(list) + 1
  /\ Len(t) = IF q = Len(list) + 1 THEN Len(list) ELSE Len(list) - 1
  /\ \A n \in 1 .. Len(t) : t[n] = IF n < q THEN list[n] ELSE list[n + 1]

LEMMA OneLess ==
  ASSUME NEW S, NEW list \in Seq(S), Distinct(list), NEW x, NEW q \in 1 .. Len(list) + 1,
         \A i \in 1 .. Len(list) : list[i].id = x <=> i = q
  PROVE  /\ RowsAt(list, {i \in DOMAIN list : list[i].id # x}) \in Seq(S)
         /\ Without(list, q, RowsAt(list, {i \in DOMAIN list : list[i].id # x}))
<1> DEFINE I == {i \in DOMAIN list : list[i].id # x}
           t == RowsAt(list, I)
           k == IF q = Len(list) + 1 THEN Len(list) ELSE Len(list) - 1
           p == [n \in 1 .. k |-> IF n < q THEN n ELSE n + 1]
<1>1. Len(list) \in Nat /\ I \in SUBSET (DOMAIN list) /\ I = (1 .. Len(list)) \ {q}
  <2>1. DOMAIN list = 1 .. Len(list) /\ Len(list) \in Nat
    OBVIOUS
  <2> QED
    BY <2>1
<1> HIDE DEF I
<1>2. t \in Seq(S) /\ Listed(list, I, t)
  BY <1>1, RowsListed
<1> HIDE DEF t
<1>3. \A l \in Nat : \A r \in 1 .. l + 1 :
        \A m \in Nat : m = (IF r = l + 1 THEN l ELSE l - 1) =>
          /\ \A n \in 1 .. m : /\ n < r => n \in (1 .. l) \ {r}
                               /\ ~(n < r) => n + 1 \in (1 .. l) \ {r}
          /\ \A i \in (1 .. l) \ {r} : /\ i < r => i \in 1 .. m
                                       /\ ~(i < r) => i - 1 \in 1 .. m /\ ~(i - 1 < r) /\ (i - 1) + 1 = i
  OBVIOUS
<1>4. k \in Nat
  BY <1>1
<1>5. k = IF q = Len(list) + 1 THEN Len(list) ELSE Len(list) - 1
  OBVIOUS
<1>6. \A n \in 1 .. k : p[n] = IF n < q THEN n ELSE n + 1
  OBVIOUS
<1>7. DOMAIN p = 1 .. k /\ p = [n \in DOMAIN p |-> p[n]]
  OBVIOUS
<1> HIDE DEF p, k
<1>8. /\ \A n \in 1 .. k : /\ n < q => n \in I
                           /\ ~(n < q) => n + 1 \in I
      /\ \A i \in I : /\ i < q => i \in 1 .. k
                      /\ ~(i < q) => i - 1 \in 1 .. k /\ ~(i - 1 < q) /\ (i - 1) + 1 = i
  BY <1>1, <1>3, <1>4, <1>5
<1>9. p \in [1 .. k -> I]
  <2>1. \A n \in 1 .. k : p[n] \in I
    BY <1>6, <1>8
  <2> QED
    BY <1>7, <2>1
<1>10. \A i \in I : \E n \in 1 .. k : p[n] = i
  <2> SUFFICES ASSUME NEW i \in I PROVE \E n \in 1 .. k : p[n] = i
    OBVIOUS
  <2>1. CASE i < q
    BY <1>6, <1>8, <2>1
  <2>2. CASE ~(i < q)
    <3>1. p[i - 1] = (i - 1) + 1
      BY <1>6, <1>8, <2>2
    <3> QED
      BY <1>8, <2>2, <3>1
  <2> QED
    BY <2>1, <2>2
<1>11. \A m, n \in 1 .. k : m < n => p[m] < p[n]
  <2>1. q \in Int /\ \A n \in 1 .. k : n \in Int
    BY <1>1
  <2> QED
    BY <1>6, <2>1
<1>12. Enumerates(p, k, I)
  BY <1>4, <1>9, <1>10, <1>11 DEF Enumerates
<1> DEFINE u == [n \in 1 .. k |-> list[p[n]]]
<1>13. u \in Seq(S) /\ Len(u) = k /\ \A n \in 1 .. k : u[n] = list[p[n]]
  <2>1. \A n \in 1 .. k : list[p[n]] \in S
    <3>1. \A i \in I : list[i] \in S
      BY <1>1
    <3> QED
      BY <1>9, <3>1
  <2>2. u \in [1 .. k -> S]
    BY <2>1
  <2>3. \A n \in 1 .. k : u[n] = list[p[n]]
    OBVIOUS
  <2> HIDE DEF u
  <2> QED
    BY <1>4, <2>2, <2>3, FunctionIsSeq
<1> HIDE DEF u
<1>14. t = u
  <2>1. Listed(list, I, u)
    BY <1>4, <1>12, <1>13 DEF Listed
  <2> QED
    BY <1>1, <1>2, <1>13, <2>1, ListedOnce
<1>15. \A n \in 1 .. k : u[n] = IF n < q THEN list[n] ELSE list[n + 1]
  BY <1>6, <1>13
<1>16. Without(list, q, t)
  BY <1>5, <1>13, <1>14, <1>15 DEF Without
<1> QED
  BY <1>2, <1>16 DEF t, I

\* Row q of the list is the one of the id x.
PlaceOf(list, q, x) == \A i \in 1 .. Len(list) : list[i].id = x <=> i = q

\* Where the row of an id is, and without it.
LEMMA SomeLess ==
  ASSUME NEW S, NEW list \in Seq(S), Distinct(list), NEW x
  PROVE  \E q \in 1 .. Len(list) + 1 : PlaceOf(list, q, x)
<1>1. Len(list) \in Nat
  OBVIOUS
<1>2. CASE \E q \in 1 .. Len(list) : list[q].id = x
  <2>1. PICK q \in 1 .. Len(list) : list[q].id = x
    BY <1>2
  <2>2. q \in 1 .. Len(list) + 1
    BY <1>1
  <2> QED
    BY <2>1, <2>2 DEF Distinct, PlaceOf
<1>3. CASE ~ \E q \in 1 .. Len(list) : list[q].id = x
  <2>1. Len(list) + 1 \in 1 .. Len(list) + 1 /\ \A i \in 1 .. Len(list) : i # Len(list) + 1
    BY <1>1
  <2> QED
    BY <1>3, <2>1 DEF PlaceOf
<1> QED
  BY <1>2, <1>3

\* Cutting off before a row is moved to the front, and after it, is the same as
\* cutting off after it.
LEMMA CutOnce ==
  ASSUME NEW S, NEW list \in Seq(S), Distinct(list), NEW row \in S, NEW n \in Nat, n >= 1
  PROVE  Prepended(row, Slice(list, n), n) =
           Slice(<<row>> \o RowsAt(list, {i \in DOMAIN list : list[i].id # row.id}), n)
<1> DEFINE c == Slice(list, n)
           all == RowsAt(list, {i \in DOMAIN list : list[i].id # row.id})
           some == RowsAt(c, {i \in DOMAIN c : c[i].id # row.id})
           ra == <<row>> \o all
           rs == <<row>> \o some
<1>1. /\ c \in Seq(S) /\ Len(c) = Smaller(n, Len(list))
      /\ \A i \in 1 .. Len(c) : i \in 1 .. Len(list) /\ c[i] = list[i]
  BY SliceOf
<1>2. Prepended(row, Slice(list, n), n) = Slice(rs, n)
  BY DEF Prepended
<1> HIDE DEF c
<1>3. Distinct(c)
  BY <1>1 DEF Distinct
<1>4. PICK q \in 1 .. Len(list) + 1 : PlaceOf(list, q, row.id)
  BY SomeLess
<1>5. PICK r \in 1 .. Len(c) + 1 : PlaceOf(c, r, row.id)
  BY <1>1, <1>3, SomeLess
<1>6. all \in Seq(S) /\ Without(list, q, all)
  BY <1>4, OneLess DEF PlaceOf
<1>7. some \in Seq(S) /\ Without(c, r, some)
  BY <1>1, <1>3, <1>5, OneLess DEF PlaceOf
<1> HIDE DEF all, some
<1>8. /\ ra \in Seq(S) /\ Len(ra) = Len(all) + 1 /\ ra[1] = row
      /\ \A i \in 1 .. Len(all) : ra[i + 1] = all[i]
  BY <1>6, InFront
<1>9. /\ rs \in Seq(S) /\ Len(rs) = Len(some) + 1 /\ rs[1] = row
      /\ \A i \in 1 .. Len(some) : rs[i + 1] = some[i]
  BY <1>7, InFront
<1> HIDE DEF ra, rs
<1>10. /\ Slice(ra, n) \in Seq(S) /\ Len(Slice(ra, n)) = Smaller(n, Len(ra))
       /\ \A i \in 1 .. Smaller(n, Len(ra)) : Slice(ra, n)[i] = ra[i]
  BY <1>8, SliceOf
<1>11. /\ Slice(rs, n) \in Seq(S) /\ Len(Slice(rs, n)) = Smaller(n, Len(rs))
       /\ \A i \in 1 .. Smaller(n, Len(rs)) : Slice(rs, n)[i] = rs[i]
  BY <1>9, SliceOf
<1>12. Len(list) \in Nat /\ Len(c) \in Nat /\ Len(all) \in Nat /\ Len(some) \in Nat
  BY <1>1, <1>6, <1>7
<1>13. (q \in 1 .. Len(c) /\ r = q) \/ (q \notin 1 .. Len(c) /\ r = Len(c) + 1)
  <2>1. CASE q \in 1 .. Len(c)
    <3>1. q \in 1 .. Len(list) /\ c[q].id = row.id
      BY <1>1, <1>4, <2>1 DEF PlaceOf
    <3> QED
      BY <1>5, <2>1, <3>1 DEF PlaceOf
  <2>2. CASE q \notin 1 .. Len(c)
    <3>1. r \notin 1 .. Len(c)
      <4> SUFFICES ASSUME r \in 1 .. Len(c) PROVE FALSE
        OBVIOUS
      <4>1. list[r].id = row.id /\ r \in 1 .. Len(list)
        BY <1>1, <1>5 DEF PlaceOf
      <4> QED
        BY <1>1, <1>4, <1>5, <2>2, <4>1 DEF PlaceOf
    <3>2. r = Len(c) + 1
      BY <1>12, <3>1
    <3> QED
      BY <2>2, <3>2
  <2> QED
    BY <2>1, <2>2
<1>14. /\ Len(c) = Smaller(n, Len(list))
       /\ Len(all) = IF q = Len(list) + 1 THEN Len(list) ELSE Len(list) - 1
       /\ Len(some) = IF r = Len(c) + 1 THEN Len(c) ELSE Len(c) - 1
  BY <1>1, <1>6, <1>7 DEF Without
<1>15. /\ Smaller(n, Len(rs)) = Smaller(n, Len(ra)) /\ Smaller(n, Len(ra)) \in Nat
       /\ \A i \in 1 .. Smaller(n, Len(ra)) :
            i = 1 \/ (i - 1 \in 1 .. Len(all) /\ i - 1 \in 1 .. Len(some))
  <2> DEFINE ls == Len(list)
             lc == Len(c)
             la == Len(all)
             lm == Len(some)
  <2>1. ls \in Nat /\ lc \in Nat /\ la \in Nat /\ lm \in Nat /\ n \in Nat /\ n >= 1 /\ q \in 1 .. ls + 1
    BY <1>12
  <2>2. lc = Smaller(n, ls) /\ la = (IF q = ls + 1 THEN ls ELSE ls - 1)
        /\ lm = (IF r = lc + 1 THEN lc ELSE lc - 1)
    BY <1>14
  <2>3. (q \in 1 .. lc /\ r = q) \/ (q \notin 1 .. lc /\ r = lc + 1)
    BY <1>13
  <2>4. Len(rs) = lm + 1 /\ Len(ra) = la + 1
    BY <1>8, <1>9
  <2> HIDE DEF ls, lc, la, lm
  <2>5. Smaller(n, lm + 1) = Smaller(n, la + 1) /\ Smaller(n, la + 1) \in Nat
        /\ Smaller(n, la + 1) <= la + 1 /\ Smaller(n, la + 1) <= lm + 1
    BY <2>1, <2>2, <2>3 DEF Smaller
  <2>6. \A a \in Nat, b \in Nat, d \in Nat : d <= a + 1 /\ d <= b + 1 =>
          \A i \in 1 .. d : i = 1 \/ (i - 1 \in 1 .. a /\ i - 1 \in 1 .. b)
    OBVIOUS
  <2>7. \A i \in 1 .. Smaller(n, la + 1) : i = 1 \/ (i - 1 \in 1 .. la /\ i - 1 \in 1 .. lm)
    BY <2>1, <2>5, <2>6
  <2> QED
    BY <2>4, <2>5, <2>7 DEF la, lm
<1>16. ASSUME NEW i \in 1 .. Smaller(n, Len(ra)) PROVE ra[i] = rs[i]
  <2>1. CASE i = 1
    BY <1>8, <1>9, <2>1
  <2>2. CASE i # 1
    <3> DEFINE m == i - 1
    <3>1. m \in 1 .. Len(all) /\ m \in 1 .. Len(some) /\ i = m + 1
      BY <1>15, <2>2
    <3> HIDE DEF m
    <3>2. ra[i] = all[m] /\ rs[i] = some[m]
      BY <1>8, <1>9, <3>1
    <3>3. /\ all[m] = IF m < q THEN list[m] ELSE list[m + 1]
          /\ some[m] = IF m < r THEN c[m] ELSE c[m + 1]
      BY <1>6, <1>7, <3>1 DEF Without
    <3>4. /\ m \in Nat /\ (m < q <=> m < r)
          /\ m < r => m \in 1 .. Len(c)
          /\ ~(m < r) => m + 1 \in 1 .. Len(c)
      BY <1>12, <1>13, <1>14, <3>1
    <3> QED
      BY <1>1, <3>2, <3>3, <3>4
  <2> QED
    BY <2>1, <2>2
<1>17. Slice(ra, n) = Slice(rs, n)
  <2> DEFINE a == Slice(ra, n)
             b == Slice(rs, n)
  <2>1. a \in Seq(S) /\ b \in Seq(S) /\ Len(a) = Len(b) /\ \A i \in 1 .. Len(a) : a[i] = b[i]
    BY <1>10, <1>11, <1>15, <1>16
  <2> HIDE DEF a, b
  <2>2. a = b
    BY <2>1
  <2> QED
    BY <2>2 DEF a, b
<1> QED
  BY <1>2, <1>17 DEF ra, all

\* The rows of an answer are all the newest.
LEMMA AllNewest ==
  ASSUME NEW S, NEW list \in Seq(S), Distinct(list)
  PROVE  Newest(list) = list
<1>1. Newest(list) = RowsAt(list, NewestPlaces(list))
  BY DEF Newest, NewestPlaces
<1>2. NewestPlaces(list) = DOMAIN list
  <2> SUFFICES ASSUME NEW i \in DOMAIN list, NEW j \in 1 .. i - 1 PROVE list[j].id # list[i].id
    BY DEF NewestPlaces
  <2>1. i \in 1 .. Len(list) /\ j \in 1 .. Len(list) /\ i # j
    OBVIOUS
  <2> QED
    BY <2>1 DEF Distinct
<1> QED
  BY <1>1, <1>2, AllRows

LEMMA SliceAll ==
  ASSUME NEW S, NEW list \in Seq(S), NEW n \in Nat, Len(list) <= n
  PROVE  Slice(list, n) = list
<1>1. Smaller(n, Len(list)) = Len(list)
  BY DEF Smaller
<1>2. /\ Slice(list, n) \in Seq(S) /\ Len(Slice(list, n)) = Len(list)
      /\ \A i \in 1 .. Len(list) : Slice(list, n)[i] = list[i]
  BY <1>1, SliceOf
<1> QED
  BY <1>2

\* A list is the latest rows of its history.
Current(list, heard, Rows, n) == heard \in Seq(Rows) /\ list = Slice(Newest(heard), n)

\* A row heard of.
LEMMA RowHeard ==
  ASSUME NEW Rows, NEW heard, NEW list, NEW n \in Nat, n >= 1, Current(list, heard, Rows, n),
         NEW row \in Rows
  PROVE  Current(Prepended(row, list, n), <<row>> \o heard, Rows, n)
<1>1. heard \in Seq(Rows) /\ list = Slice(Newest(heard), n)
  BY DEF Current
<1>2. Newest(heard) \in Seq(Rows) /\ Distinct(Newest(heard))
  BY <1>1, NewestDistinct
<1>3. <<row>> \o heard \in Seq(Rows)
  BY <1>1, InFront
<1> DEFINE N == Newest(heard)
           rest == RowsAt(N, {i \in DOMAIN N : N[i].id # row.id})
<1>4. Newest(<<row>> \o heard) = <<row>> \o rest
  BY <1>1, NewestBehind
<1>5. Prepended(row, Slice(N, n), n) = Slice(<<row>> \o rest, n)
  BY <1>2, CutOnce
<1> QED
  BY <1>1, <1>3, <1>4, <1>5 DEF Current

\* An answer.
LEMMA RowsAnswered ==
  ASSUME NEW Rows, NEW n \in Nat, AnswerLimit \in Nat, AnswerLimit <= n, NEW items \in Answers(Rows)
  PROVE  Current(items, items, Rows, n)
<1>1. PICK k \in 0 .. AnswerLimit :
        items \in {list \in [1 .. k -> Rows] : \A i, j \in 1 .. k : list[i].id = list[j].id => i = j}
  BY DEF Answers
<1>2. /\ items \in [1 .. k -> Rows] /\ k \in Nat /\ k <= n
      /\ \A i, j \in 1 .. k : items[i].id = items[j].id => i = j
  BY <1>1
<1>3. items \in Seq(Rows) /\ Len(items) = k
  BY <1>2, FunctionIsSeq
<1>4. Distinct(items)
  BY <1>2, <1>3 DEF Distinct
<1>5. Newest(items) = items
  BY <1>3, <1>4, AllNewest
<1>6. Slice(items, n) = items
  BY <1>2, <1>3, SliceAll
<1> QED
  BY <1>3, <1>5, <1>6 DEF Current

ListsCurrent ==
  /\ Current(opportunities, heardOpps, OppRows, MaxOpportunities)
  /\ Current(trades, heardTrades, TradeRows, MaxTrades)

LEMMA Limits ==
  /\ MaxOpportunities \in Nat /\ MaxOpportunities >= 1 /\ MaxTrades \in Nat /\ MaxTrades >= 1
  /\ AnswerLimit \in Nat /\ AnswerLimit <= MaxOpportunities /\ AnswerLimit <= MaxTrades
<1>1. MaxOpportunities \in Nat \ {0} /\ MaxTrades \in Nat \ {0}
  BY StoreAssumption
<1>2. AnswerLimit \in 0 .. MaxOpportunities /\ AnswerLimit <= MaxTrades
  BY StoreAssumption
<1> QED
  BY <1>1, <1>2

LEMMA ListsStart ==
  StoreInit => ListsCurrent
<1> SUFFICES ASSUME StoreInit PROVE ListsCurrent
  OBVIOUS
<1>1. ASSUME NEW Rows, NEW n \in Nat PROVE Current(<<>>, <<>>, Rows, n)
  <2> DEFINE none == <<>>
  <2>1. none \in Seq(Rows) /\ Distinct(none) /\ Len(none) = 0
    BY DEF Distinct
  <2> HIDE DEF none
  <2>2. Newest(none) = none
    BY <2>1, AllNewest
  <2>3. Len(none) <= n
    BY <2>1
  <2>4. Slice(none, n) = none
    BY <2>1, <2>3, SliceAll
  <2>5. Current(none, none, Rows, n)
    BY <2>1, <2>2, <2>4 DEF Current
  <2> QED
    BY <2>5 DEF none
<1> QED
  BY <1>1, Limits DEF StoreInit, ListsCurrent

LEMMA ListsStep ==
  ListsCurrent /\ [StoreNext]_storeVars => ListsCurrent'
<1> SUFFICES ASSUME ListsCurrent, [StoreNext]_storeVars PROVE ListsCurrent'
  OBVIOUS
<1> DEFINE Opps == Current(opportunities, heardOpps, OppRows, MaxOpportunities)
           Done == Current(trades, heardTrades, TradeRows, MaxTrades)
<1>1. Opps /\ Done
  BY DEF ListsCurrent
<1>2. UNCHANGED <<opportunities, heardOpps>> => Opps'
  BY <1>1 DEF Current
<1>3. UNCHANGED <<trades, heardTrades>> => Done'
  BY <1>1 DEF Current
<1>4. ASSUME NEW row \in OppRows, AddOpportunity(row) PROVE Opps' /\ Done'
  <2>1. Current(Prepended(row, opportunities, MaxOpportunities), <<row>> \o heardOpps,
                OppRows, MaxOpportunities)
    BY <1>1, Limits, RowHeard
  <2> QED
    BY <1>3, <1>4, <2>1 DEF AddOpportunity
<1>5. ASSUME NEW row \in TradeRows, AddTrade(row) PROVE Opps' /\ Done'
  <2>1. Current(Prepended(row, trades, MaxTrades), <<row>> \o heardTrades, TradeRows, MaxTrades)
    BY <1>1, Limits, RowHeard
  <2> QED
    BY <1>2, <1>5, <2>1 DEF AddTrade
<1>6. ASSUME NEW items \in Answers(OppRows), FetchOpportunities(items) PROVE Opps' /\ Done'
  <2>1. Current(items, items, OppRows, MaxOpportunities)
    BY Limits, RowsAnswered
  <2> QED
    BY <1>3, <1>6, <2>1 DEF FetchOpportunities
<1>7. ASSUME NEW items \in Answers(TradeRows), FetchTrades(items) PROVE Opps' /\ Done'
  <2>1. Current(items, items, TradeRows, MaxTrades)
    BY Limits, RowsAnswered
  <2> QED
    BY <1>2, <1>7, <2>1 DEF FetchTrades
<1>8. ASSUME AddPrice \/ FetchBalance \/ UNCHANGED storeVars PROVE Opps' /\ Done'
  <2>1. UNCHANGED <<opportunities, heardOpps, trades, heardTrades>>
    BY <1>8 DEF AddPrice, FetchBalance, storeVars
  <2> QED
    BY <1>2, <1>3, <2>1
<1>9. Opps' /\ Done'
  <2> HIDE DEF Opps, Done
  <2> QED
    BY <1>4, <1>5, <1>6, <1>7, <1>8 DEF StoreNext, Receive, FetchAll
<1> QED
  BY <1>9 DEF ListsCurrent

\* The lists of the store are the most recent of the different rows heard of since the
\* last answer, whatever was cut off on the way: ListsAreLatest, of any length.
THEOREM Latest ==
  StoreSpec => []ListsAreLatest
<1>1. ListsCurrent => ListsAreLatest
  BY DEF ListsCurrent, Current, ListsAreLatest
<1> QED
  BY <1>1, ListsStart, ListsStep, PTL DEF StoreSpec
----------------------------------------------------------------------------
(* The pages. *)

\* The profits of a list of trades.
Pnls(ts) == [n \in DOMAIN ts |-> ts[n].net_pnl]

LEMMA PnlsAre ==
  ASSUME NEW ts \in Seq(TradeRows)
  PROVE  /\ DOMAIN ts = 1 .. Len(ts) /\ Len(ts) \in Nat
         /\ IsFiniteSet(DOMAIN ts) /\ Cardinality(DOMAIN ts) = Len(ts)
         /\ \A n \in DOMAIN ts : Pnls(ts)[n] = ts[n].net_pnl /\ Pnls(ts)[n] \in Int
         /\ NetPnl(ts) = SumFunctionOnSet(Pnls(ts), DOMAIN ts) /\ NetPnl(ts) \in Int
<1>1. DOMAIN ts = 1 .. Len(ts) /\ Len(ts) \in Nat
  OBVIOUS
<1>2. IsFiniteSet(DOMAIN ts) /\ Cardinality(DOMAIN ts) = Len(ts)
  BY <1>1, CountUpTo
<1>3. \A n \in DOMAIN ts : Pnls(ts)[n] = ts[n].net_pnl /\ Pnls(ts)[n] \in Int
  <2>1. \A n \in DOMAIN ts : ts[n] \in TradeRows
    OBVIOUS
  <2>2. \A r \in TradeRows : r.net_pnl \in Int
    BY StoreAssumption
  <2> QED
    BY <2>1, <2>2 DEF Pnls
<1>4. NetPnl(ts) = SumFunction(Pnls(ts)) /\ DOMAIN Pnls(ts) = DOMAIN ts
  BY DEF NetPnl, Pnls
<1>5. NetPnl(ts) = SumFunctionOnSet(Pnls(ts), DOMAIN ts)
  BY <1>4 DEF SumFunction
<1>6. NetPnl(ts) \in Int
  BY <1>2, <1>3, <1>5, SumOnSet
<1> QED
  BY <1>1, <1>2, <1>3, <1>5, <1>6

\* The profit of some of the trades, and their number.
LEMMA PnlOfSome ==
  ASSUME NEW ts \in Seq(TradeRows), NEW I \in SUBSET (DOMAIN ts)
  PROVE  /\ RowsAt(ts, I) \in Seq(TradeRows)
         /\ NetPnl(RowsAt(ts, I)) = SumFunctionOnSet(Pnls(ts), I)
         /\ IsFiniteSet(I) /\ Len(RowsAt(ts, I)) = Cardinality(I)
<1> DEFINE t == RowsAt(ts, I)
<1>1. t \in Seq(TradeRows) /\ Listed(ts, I, t)
  BY RowsListed
<1> HIDE DEF t
<1>2. PICK k \in Nat : \E p : Enumerates(p, k, I) /\ Len(t) = k /\ \A n \in 1 .. k : t[n] = ts[p[n]]
  BY <1>1 DEF Listed
<1>3. PICK p : Enumerates(p, k, I) /\ Len(t) = k /\ \A n \in 1 .. k : t[n] = ts[p[n]]
  BY <1>2
<1>4. I \in SUBSET Nat
  OBVIOUS
<1>5. IsFiniteSet(I) /\ Cardinality(I) = k
  BY <1>3, <1>4, Counted DEF Counts
<1>6. /\ \A n \in 1 .. k : p[n] \in I
      /\ \A m, n \in 1 .. k : m < n => p[m] < p[n]
      /\ \A i \in I : \E n \in 1 .. k : p[n] = i
  BY <1>3 DEF Enumerates
<1>7. I = {p[n] : n \in 1 .. k}
  BY <1>6
<1>8. \A m, n \in 1 .. k : p[m] = p[n] => m = n
  <2> SUFFICES ASSUME NEW m \in 1 .. k, NEW n \in 1 .. k, p[m] = p[n] PROVE m = n
    OBVIOUS
  <2>1. p[m] \in Nat /\ p[n] \in Nat
    BY <1>4, <1>6
  <2>2. ~(m < n) /\ ~(n < m)
    BY <1>6, <2>1
  <2> QED
    BY <2>2
<1>9. /\ DOMAIN t = 1 .. k /\ IsFiniteSet(1 .. k)
      /\ NetPnl(t) = SumFunctionOnSet(Pnls(t), 1 .. k)
      /\ \A n \in 1 .. k : Pnls(t)[n] = t[n].net_pnl
  <2>1. /\ DOMAIN t = 1 .. Len(t) /\ IsFiniteSet(DOMAIN t)
        /\ NetPnl(t) = SumFunctionOnSet(Pnls(t), DOMAIN t)
        /\ \A n \in DOMAIN t : Pnls(t)[n] = t[n].net_pnl
    BY <1>1, PnlsAre
  <2>2. DOMAIN t = 1 .. k
    BY <1>3, <2>1
  <2> QED
    BY <2>1, <2>2
<1>10. \A n \in 1 .. k : Pnls(ts)[p[n]] \in Int /\ Pnls(t)[n] = Pnls(ts)[p[n]]
  <2> SUFFICES ASSUME NEW n \in 1 .. k PROVE Pnls(ts)[p[n]] \in Int /\ Pnls(t)[n] = Pnls(ts)[p[n]]
    OBVIOUS
  <2>1. p[n] \in DOMAIN ts
    BY <1>6
  <2>2. Pnls(ts)[p[n]] = ts[p[n]].net_pnl /\ Pnls(ts)[p[n]] \in Int
    BY <2>1, PnlsAre
  <2> QED
    BY <1>3, <1>9, <2>2
<1> DEFINE T == 1 .. k
<1>11. SumFunctionOnSet(Pnls(t), T) = SumFunctionOnSet(Pnls(ts), {p[n] : n \in T})
  <2>1. IsFiniteSet(T) /\ (\A m, n \in T : p[m] = p[n] => m = n)
        /\ \A n \in T : Pnls(ts)[p[n]] \in Int /\ Pnls(t)[n] = Pnls(ts)[p[n]]
    BY <1>8, <1>9, <1>10
  <2> HIDE DEF T
  <2> QED
    BY <2>1, SumMoved
<1> QED
  BY <1>1, <1>3, <1>5, <1>7, <1>9, <1>11 DEF t

\* The elements that filter leaves.
LEMMA SetOfRows ==
  ASSUME NEW S, NEW list \in Seq(S), NEW I \in SUBSET (DOMAIN list)
  PROVE  ToSet(RowsAt(list, I)) = {list[i] : i \in I}
<1> DEFINE t == RowsAt(list, I)
<1>1. t \in Seq(S) /\ Listed(list, I, t)
  BY RowsListed
<1> HIDE DEF t
<1>2. PICK k \in Nat : \E p : Enumerates(p, k, I) /\ Len(t) = k /\ \A n \in 1 .. k : t[n] = list[p[n]]
  BY <1>1 DEF Listed
<1>3. PICK p : Enumerates(p, k, I) /\ Len(t) = k /\ \A n \in 1 .. k : t[n] = list[p[n]]
  BY <1>2
<1>4. DOMAIN t = 1 .. k
  BY <1>1, <1>3
<1>5. /\ \A n \in 1 .. k : p[n] \in I
      /\ \A i \in I : \E n \in 1 .. k : p[n] = i
  BY <1>3 DEF Enumerates
<1>6. ToSet(t) = {t[n] : n \in 1 .. k}
  BY <1>4 DEF ToSet
<1>7. {t[n] : n \in 1 .. k} = {list[i] : i \in I}
  BY <1>3, <1>5
<1> QED
  BY <1>6, <1>7 DEF t

\* The best spread is that of a row.
LEMMA BestFound ==
  ASSUME NEW opps \in Seq(OppRows), opps # <<>>
  PROVE  \E i \in DOMAIN opps : BestSpread(opps) = opps[i]
<1> DEFINE S == DOMAIN opps
           V == {opps[i] : i \in S}
           Better(i, best) == IF opps[i].gross_spread_pct > best.gross_spread_pct THEN opps[i] ELSE best
           ch == [T \in SUBSET S |-> Max(T)]
           step == [c \in S \X V |-> Better(c[1], c[2])]
           Iter(g) == g = [T \in SUBSET S |-> IF T = {} THEN opps[1]
                             ELSE Better(Max(T), g[T \ {Max(T)}])]
<1>1. S = 1 .. Len(opps) /\ Len(opps) \in Nat /\ Len(opps) # 0 /\ 1 \in S
  <2>1. S = 1 .. Len(opps) /\ Len(opps) \in Nat /\ Len(opps) # 0
    BY EmptySeq
  <2> QED
    BY <2>1
<1>2. IsFiniteSet(S)
  BY <1>1, CountUpTo
<1>3. opps[1] \in V
  BY <1>1
<1>4. \A T \in SUBSET S : T # {} => Max(T) \in T
  <2> SUFFICES ASSUME NEW T \in SUBSET S, T # {} PROVE Max(T) \in T
    OBVIOUS
  <2>1. T \in SUBSET Nat /\ \A x \in T : x <= Len(opps)
    BY <1>1
  <2> QED
    BY <1>1, <2>1, GreatestNat
<1>5. Chooses(ch, S)
  BY <1>4 DEF Chooses
<1>6. \A i \in S, v \in V : Better(i, v) \in V
  OBVIOUS
<1>7. StaysIn(V, S, step)
  <2> SUFFICES ASSUME NEW i \in S, NEW v \in V PROVE step[<<i, v>>] \in V
    BY DEF StaysIn
  <2>1. step[<<i, v>>] = Better(i, v)
    OBVIOUS
  <2> HIDE DEF Better, V, S, step
  <2> QED
    BY <1>6, <2>1
<1>8. PICK g \in [SUBSET S -> V] : FoldOver(g, S, opps[1], ch, step)
  <2> HIDE DEF S, V, ch, step
  <2> QED
    BY <1>2, <1>3, <1>5, <1>7, FoldExists
<1>9. ASSUME NEW T \in SUBSET S
      PROVE  g[T] = IF T = {} THEN opps[1] ELSE Better(Max(T), g[T \ {Max(T)}])
  <2>1. g[T] = IF T = {} THEN opps[1] ELSE step[<<ch[T], g[T \ {ch[T]}]>>]
    BY <1>8 DEF FoldOver
  <2>2. ASSUME T # {} PROVE step[<<ch[T], g[T \ {ch[T]}]>>] = Better(Max(T), g[T \ {Max(T)}])
    <3>1. ch[T] = Max(T) /\ Max(T) \in S /\ g[T \ {Max(T)}] \in V
      BY <1>4, <1>8, <2>2
    <3>2. \A i \in S, v \in V : step[<<i, v>>] = Better(i, v)
      OBVIOUS
    <3> HIDE DEF step, ch, Better, V, S
    <3> QED
      BY <3>1, <3>2
  <2> HIDE DEF step, ch, Better
  <2> QED
    BY <2>1, <2>2
<1>10. Iter(g)
  <2> HIDE DEF S, V, ch, step, Better
  <2> QED
    BY <1>8, <1>9
<1>11. ASSUME NEW h, Iter(h) PROVE h = g
  <2> DEFINE Q == {T \in SUBSET S : h[T] = g[T]}
  <2>0. ASSUME NEW T \in SUBSET S
        PROVE  h[T] = IF T = {} THEN opps[1] ELSE Better(Max(T), h[T \ {Max(T)}])
    <3> HIDE DEF Better, S
    <3> QED
      BY <1>11
  <2> HIDE DEF Better
  <2>1. {} \in Q
    BY <1>9, <2>0
  <2>2. ASSUME NEW T \in SUBSET S, T # {}, \A x \in T : T \ {x} \in Q PROVE T \in Q
    <3>1. h[T \ {Max(T)}] = g[T \ {Max(T)}]
      BY <1>4, <2>2
    <3> QED
      BY <1>9, <2>0, <2>2, <3>1
  <2> HIDE DEF Q, S
  <2>3. SUBSET S \subseteq Q
    BY <1>2, <2>1, <2>2, SetInduct
  <2>4. \A T \in SUBSET S : h[T] = g[T]
    BY <2>3 DEF Q
  <2> QED
    BY <1>8, <1>11, <2>4
<1>12. BestSpread(opps) = (CHOOSE h : Iter(h))[S]
  BY DEF BestSpread, FoldLeft, MapThenFoldSet
<1> HIDE DEF Iter, V
<1>13. (CHOOSE h : Iter(h)) = g
  BY <1>10, <1>11
<1>14. BestSpread(opps) \in V
  BY <1>8, <1>12, <1>13
<1> QED
  BY <1>14 DEF V

\* Both ways to round are within half a cent.
LEMMA Rounded ==
  ASSUME NEW x \in Int
  PROVE  Shows(MathRound(x), x) /\ Shows(ToFixed(x), x)
<1>1. Shows(MathRound(x), x)
  BY DEF Shows, MathRound
<1>2. Shows(ToFixed(x), x)
  BY DEF Shows, ToFixed
<1> QED
  BY <1>1, <1>2

\* The places of a symbol's trades.
OfSymbol(ts, p) == {n \in DOMAIN ts : ts[n].symbol = p}

\* Without a filter, all trades; with a search for one symbol, its trades.
LEMMA TradesShown ==
  ASSUME trades \in Seq(TradeRows)
  PROVE  /\ Trades({}, "all").rows = trades
         /\ Trades({}, "all").totalPnl = ToFixed(NetPnl(trades))
         /\ \A p : Trades({p}, "all").rows = RowsAt(trades, OfSymbol(trades, p))
<1>1. Trades({}, "all").rows = RowsAt(trades, DOMAIN trades)
  BY DEF Trades
<1>2. RowsAt(trades, DOMAIN trades) = trades
  BY AllRows
<1>3. Trades({}, "all").totalPnl = ToFixed(NetPnl(Trades({}, "all").rows))
  BY DEF Trades
<1>4. ASSUME NEW p PROVE Trades({p}, "all").rows = RowsAt(trades, OfSymbol(trades, p))
  <2> DEFINE Passes(t) == ({p} # {} => t.symbol \in {p}) /\ ("all" # "all" => t.status = "all")
  <2>1. Trades({p}, "all").rows = RowsAt(trades, {n \in DOMAIN trades : Passes(trades[n])})
    BY DEF Trades
  <2>2. {n \in DOMAIN trades : Passes(trades[n])} = OfSymbol(trades, p)
    BY DEF OfSymbol
  <2> QED
    BY <2>1, <2>2
<1> QED
  BY <1>1, <1>2, <1>3, <1>4

\* The bars share out the trades and their profit.
LEMMA BarsShare ==
  ASSUME NEW ts \in Seq(TradeRows)
  PROVE  LET bars == pairData(ts)
             symbols == DOMAIN bars
             Of(p) == RowsAt(ts, OfSymbol(ts, p))
         IN  /\ \A p \in symbols : Shows(bars[p].netPnl, NetPnl(Of(p)))
             /\ SumFunction([p \in symbols |-> bars[p].count]) = Len(ts)
             /\ SumFunction([p \in symbols |-> NetPnl(Of(p))]) = NetPnl(ts)
<1> DEFINE bars == pairData(ts)
           symbols == {t.symbol : t \in ToSet(ts)}
           Of(p) == RowsAt(ts, OfSymbol(ts, p))
           S == DOMAIN ts
           key == [n \in S |-> ts[n].symbol]
           ones == [n \in S |-> 1]
           counts == [p \in symbols |-> bars[p].count]
           shares == [p \in symbols |-> NetPnl(Of(p))]
<1>1. /\ DOMAIN bars = symbols
      /\ \A p \in symbols : /\ bars[p].netPnl = MathRound(NetPnl(Of(p)))
                            /\ bars[p].count = Len(Of(p))
  BY DEF pairData, OfSymbol
<1>2. /\ IsFiniteSet(S) /\ Cardinality(S) = Len(ts)
      /\ \A n \in S : Pnls(ts)[n] \in Int
      /\ NetPnl(ts) = SumFunctionOnSet(Pnls(ts), S)
  BY PnlsAre
<1>3. \A p : /\ OfSymbol(ts, p) \in SUBSET S /\ OfSymbol(ts, p) = Part(key, S, p)
  BY DEF OfSymbol, Part
<1>4. ASSUME NEW p
      PROVE  /\ Of(p) \in Seq(TradeRows) /\ IsFiniteSet(OfSymbol(ts, p))
             /\ NetPnl(Of(p)) = SumFunctionOnSet(Pnls(ts), Part(key, S, p))
             /\ Len(Of(p)) = Cardinality(Part(key, S, p))
  <2>1. OfSymbol(ts, p) \in SUBSET (DOMAIN ts) /\ OfSymbol(ts, p) = Part(key, S, p)
    BY <1>3
  <2>2. /\ RowsAt(ts, OfSymbol(ts, p)) \in Seq(TradeRows)
        /\ NetPnl(RowsAt(ts, OfSymbol(ts, p))) = SumFunctionOnSet(Pnls(ts), OfSymbol(ts, p))
        /\ IsFiniteSet(OfSymbol(ts, p))
        /\ Len(RowsAt(ts, OfSymbol(ts, p))) = Cardinality(OfSymbol(ts, p))
    BY <2>1, PnlOfSome
  <2> HIDE DEF key, S
  <2> QED
    BY <2>1, <2>2
<1>5. symbols = {key[n] : n \in S}
  BY DEF ToSet
<1>6. IsFiniteSet(symbols) /\ \A n \in S : key[n] \in symbols
  <2>1. DOMAIN key = S
    OBVIOUS
  <2> HIDE DEF key, symbols, S
  <2>2. IsFiniteSet({key[n] : n \in S})
    BY <1>2, <2>1, FiniteImage
  <2> QED
    BY <1>5, <2>2
<1>7. \A p \in symbols : counts[p] = Len(Of(p)) /\ shares[p] = NetPnl(Of(p))
  BY <1>1
<1>8. DOMAIN counts = symbols /\ DOMAIN shares = symbols
  OBVIOUS
<1>9. \A n \in S : ones[n] = 1 /\ ones[n] \in Int
  OBVIOUS
<1> HIDE DEF counts, shares, ones, key, symbols, bars, S
<1>10. SumFunctionOnSet(shares, symbols) = NetPnl(ts)
  <2>1. \A p \in symbols : shares[p] = SumFunctionOnSet(Pnls(ts), Part(key, S, p))
    BY <1>4, <1>7
  <2>2. SumFunctionOnSet(shares, symbols) = SumFunctionOnSet(Pnls(ts), S)
    BY <1>2, <1>6, <2>1, SumParts
  <2> QED
    BY <1>2, <2>2
<1>11. SumFunctionOnSet(counts, symbols) = Len(ts)
  <2>1. ASSUME NEW p \in symbols PROVE counts[p] = SumFunctionOnSet(ones, Part(key, S, p))
    <3>1. IsFiniteSet(Part(key, S, p)) /\ \A n \in Part(key, S, p) : ones[n] = 1
      <4>1. IsFiniteSet(Part(key, S, p))
        BY <1>3, <1>4
      <4>2. Part(key, S, p) \subseteq S
        BY DEF Part
      <4> QED
        BY <1>9, <4>1, <4>2
    <3>2. SumFunctionOnSet(ones, Part(key, S, p)) = Cardinality(Part(key, S, p))
      BY <3>1, SumOnes
    <3> QED
      BY <1>4, <1>7, <3>2
  <2>2. SumFunctionOnSet(counts, symbols) = SumFunctionOnSet(ones, S)
    BY <1>2, <1>6, <1>9, <2>1, SumParts
  <2>3. SumFunctionOnSet(ones, S) = Cardinality(S)
    BY <1>2, <1>9, SumOnes
  <2> QED
    BY <1>2, <2>2, <2>3
<1>12. SumFunction(counts) = Len(ts) /\ SumFunction(shares) = NetPnl(ts)
  BY <1>8, <1>10, <1>11 DEF SumFunction
<1>13. \A p \in symbols : Shows(bars[p].netPnl, NetPnl(Of(p)))
  <2> SUFFICES ASSUME NEW p \in symbols PROVE Shows(bars[p].netPnl, NetPnl(Of(p)))
    OBVIOUS
  <2>1. NetPnl(Of(p)) \in Int
    BY <1>4, PnlsAre
  <2> QED
    BY <1>1, <2>1, Rounded
<1>14. /\ counts = [p \in symbols |-> bars[p].count]
       /\ shares = [p \in symbols |-> NetPnl(Of(p))]
  BY DEF counts, shares
<1> QED
  BY <1>1, <1>12, <1>13, <1>14 DEF bars

\* The figures agree on any list of trades.
LEMMA FiguresAgree ==
  ASSUME trades \in Seq(TradeRows)
  PROVE  PnlAgrees
<1> DEFINE total == NetPnl(trades)
           bars == pairData(trades)
<1>1. total \in Int /\ Len(trades) \in Nat
  BY PnlsAre
<1>2. Dashboard.totalPnl = ToFixed(total)
  BY DEF Dashboard
<1>3. /\ Analytics.totalPnl = ToFixed(total)
      /\ Analytics.line = cumulativeData(trades)
      /\ Analytics.bars = bars
  BY DEF Analytics
<1>4. /\ Trades({}, "all").totalPnl = ToFixed(total)
      /\ \A p : Trades({p}, "all").rows = RowsAt(trades, OfSymbol(trades, p))
  BY TradesShown
<1>5. ASSUME trades # <<>> PROVE Last(cumulativeData(trades)) = MathRound(total)
  <2> DEFINE line == [n \in 1 .. Len(trades) |-> MathRound(NetPnl(SubSeq(trades, 1, n)))]
             last == Len(trades)
  <2>1. last \in 1 .. Len(trades) /\ DOMAIN line = 1 .. Len(trades)
    BY <1>1, <1>5, EmptySeq
  <2>2. Len(line) = last
    <3>1. line \in [1 .. Len(trades) -> {line[n] : n \in 1 .. Len(trades)}]
      OBVIOUS
    <3> HIDE DEF line
    <3> QED
      BY <1>1, <3>1, FunctionIsSeq
  <2>3. SubSeq(trades, 1, last) = trades
    BY <2>1
  <2>4. line[last] = MathRound(NetPnl(SubSeq(trades, 1, last)))
    BY <2>1
  <2>5. Last(cumulativeData(trades)) = line[Len(line)]
    BY DEF cumulativeData, Last
  <2> HIDE DEF line, last
  <2> QED
    BY <2>2, <2>3, <2>4, <2>5
<1>6. Shows(ToFixed(total), total) /\ Shows(MathRound(total), total)
  <2> HIDE DEF total
  <2> QED
    BY <1>1, Rounded
<1> DEFINE Of(p) == RowsAt(trades, OfSymbol(trades, p))
<1>7. /\ \A p \in DOMAIN bars : Shows(bars[p].netPnl, NetPnl(Of(p)))
      /\ SumFunction([p \in DOMAIN bars |-> bars[p].count]) = Len(trades)
      /\ SumFunction([p \in DOMAIN bars |-> NetPnl(Of(p))]) = total
  BY BarsShare
<1>8. \A p \in DOMAIN bars : Shows(bars[p].netPnl, NetPnl(Trades({p}, "all").rows))
  BY <1>4, <1>7
<1>9. [p \in DOMAIN bars |-> NetPnl(Trades({p}, "all").rows)] = [p \in DOMAIN bars |-> NetPnl(Of(p))]
  BY <1>4
<1> HIDE DEF total, bars
<1>10. /\ Dashboard.totalPnl = Analytics.totalPnl
       /\ Trades({}, "all").totalPnl = Analytics.totalPnl /\ Shows(Analytics.totalPnl, total)
       /\ trades # <<>> => Shows(Last(Analytics.line), total)
  BY <1>2, <1>3, <1>4, <1>5, <1>6
<1>11. /\ \A p \in DOMAIN Analytics.bars :
            Shows(Analytics.bars[p].netPnl, NetPnl(Trades({p}, "all").rows))
       /\ SumFunction([p \in DOMAIN Analytics.bars |-> Analytics.bars[p].count]) = Len(trades)
       /\ SumFunction([p \in DOMAIN Analytics.bars |-> NetPnl(Trades({p}, "all").rows)]) = total
  <2>1. /\ \A p \in DOMAIN bars : Shows(bars[p].netPnl, NetPnl(Trades({p}, "all").rows))
        /\ SumFunction([p \in DOMAIN bars |-> bars[p].count]) = Len(trades)
        /\ SumFunction([p \in DOMAIN bars |-> NetPnl(Trades({p}, "all").rows)]) = total
    BY <1>7, <1>8, <1>9
  <2> QED
    BY <1>3, <2>1
<1> QED
  BY <1>10, <1>11 DEF PnlAgrees, total

\* The filters reach every opportunity.
LEMMA FiltersLeave ==
  ASSUME opportunities \in Seq(OppRows)
  PROVE  FiltersReach
<1> DEFINE Pass(search, exF, minS, o) ==
             /\ search # {} => {o.symbol, o.buy_exchange, o.sell_exchange} \cap search # {}
             /\ exF # "all" => exF \in {o.buy_exchange, o.sell_exchange}
             /\ minS > 0 => o.gross_spread_pct >= minS
           At(search, exF, minS) == {n \in DOMAIN opportunities : Pass(search, exF, minS, opportunities[n])}
<1>1. \A search, exF, minS : Opportunities(search, exF, minS) = RowsAt(opportunities, At(search, exF, minS))
  BY DEF Opportunities
<1>2. ASSUME NEW search, NEW exF, NEW minS, NEW n \in DOMAIN opportunities,
             Pass(search, exF, minS, opportunities[n])
      PROVE  opportunities[n] \in ToSet(Opportunities(search, exF, minS))
  <2> DEFINE I == At(search, exF, minS)
  <2>1. I \in SUBSET (DOMAIN opportunities) /\ n \in I
    BY <1>2
  <2>2. Opportunities(search, exF, minS) = RowsAt(opportunities, I)
    BY <1>1
  <2> HIDE DEF I
  <2>3. ToSet(RowsAt(opportunities, I)) = {opportunities[i] : i \in I}
    BY <2>1, SetOfRows
  <2> QED
    BY <2>1, <2>2, <2>3
<1>3. Opportunities({}, "all", 0) = opportunities
  <2>1. At({}, "all", 0) = DOMAIN opportunities
    <3>1. \A o : Pass({}, "all", 0, o)
      OBVIOUS
    <3> HIDE DEF Pass
    <3> QED
      BY <3>1
  <2> HIDE DEF At
  <2>2. Opportunities({}, "all", 0) = RowsAt(opportunities, DOMAIN opportunities)
    BY <1>1, <2>1
  <2> QED
    BY <2>2, AllRows
<1>4. ASSUME NEW o \in ToSet(opportunities)
      PROVE  /\ {o.buy_exchange, o.sell_exchange} \subseteq exchanges
             /\ \A e \in {o.buy_exchange, o.sell_exchange} : o \in ToSet(Opportunities({}, e, 0))
             /\ o \in ToSet(Opportunities({o.symbol}, "all", 0))
  <2>1. PICK n \in DOMAIN opportunities : o = opportunities[n]
    BY DEF ToSet
  <2>2. {o.buy_exchange, o.sell_exchange} \subseteq exchanges
    BY DEF exchanges
  <2>3. ASSUME NEW e \in {o.buy_exchange, o.sell_exchange} PROVE Pass({}, e, 0, o)
    BY <2>3
  <2>4. Pass({o.symbol}, "all", 0, o)
    OBVIOUS
  <2> HIDE DEF Pass
  <2> QED
    BY <1>2, <2>1, <2>2, <2>3, <2>4
<1>5. ASSUME opportunities # <<>> PROVE Opportunities({}, "all", Dashboard.best) # <<>>
  <2>1. PICK i \in DOMAIN opportunities : BestSpread(opportunities) = opportunities[i]
    BY <1>5, BestFound
  <2>2. Dashboard.best = opportunities[i].gross_spread_pct
    BY <1>5, <2>1 DEF Dashboard
  <2>3. opportunities[i].gross_spread_pct \in Int
    <3>1. opportunities[i] \in OppRows
      OBVIOUS
    <3> QED
      BY <3>1, StoreAssumption
  <2>4. Pass({}, "all", Dashboard.best, opportunities[i])
    BY <2>2, <2>3
  <2> HIDE DEF Pass
  <2>5. opportunities[i] \in ToSet(Opportunities({}, "all", Dashboard.best))
    BY <1>2, <2>4
  <2>6. ToSet(<<>>) = {}
    BY DEF ToSet
  <2> QED
    BY <2>5, <2>6
<1>6. /\ Cardinality(Exchanges(TRUE).entries) = Exchanges(FALSE).onlineCount
      /\ Cardinality(Exchanges(FALSE).entries) = Exchanges(TRUE).total
  <2>1. /\ Exchanges(TRUE).entries = {e \in DOMAIN exchangeInfo : TRUE => exchangeInfo[e]}
        /\ Exchanges(FALSE).entries = {e \in DOMAIN exchangeInfo : FALSE => exchangeInfo[e]}
        /\ Exchanges(FALSE).onlineCount = Cardinality({e \in DOMAIN exchangeInfo : exchangeInfo[e]})
        /\ Exchanges(TRUE).total = Cardinality(DOMAIN exchangeInfo)
    BY DEF Exchanges
  <2>2. {e \in DOMAIN exchangeInfo : TRUE => exchangeInfo[e]} =
          {e \in DOMAIN exchangeInfo : exchangeInfo[e]}
    OBVIOUS
  <2>3. {e \in DOMAIN exchangeInfo : FALSE => exchangeInfo[e]} = DOMAIN exchangeInfo
    OBVIOUS
  <2> QED
    BY <2>1, <2>2, <2>3
<1> QED
  BY <1>3, <1>4, <1>5, <1>6 DEF FiltersReach

\* The lists hold rows.
LEMMA ListsHoldRows ==
  ListsCurrent => opportunities \in Seq(OppRows) /\ trades \in Seq(TradeRows)
<1> SUFFICES ASSUME ListsCurrent PROVE opportunities \in Seq(OppRows) /\ trades \in Seq(TradeRows)
  OBVIOUS
<1>1. /\ heardOpps \in Seq(OppRows) /\ opportunities = Slice(Newest(heardOpps), MaxOpportunities)
      /\ heardTrades \in Seq(TradeRows) /\ trades = Slice(Newest(heardTrades), MaxTrades)
  BY DEF ListsCurrent, Current
<1>2. Newest(heardOpps) \in Seq(OppRows) /\ Newest(heardTrades) \in Seq(TradeRows)
  BY <1>1, NewestDistinct
<1> QED
  BY <1>1, <1>2, Limits, SliceOf

\* The lists of the navigation agree.
LEMMA EntriesAgree == NavigationAgrees
<1>1. DOMAIN navItems = routes
  BY DEF navItems, routes
<1>2. DOMAIN menuItems = routes
  BY DEF menuItems, routes
<1>3. DOMAIN pageTitles = routes
  BY DEF pageTitles, routes
<1>4. ASSUME NEW r \in routes PROVE navItems[r] = menuItems[r] /\ pageTitles[r] # ""
  <2>1. navItems = menuItems
    BY DEF navItems, menuItems
  <2>2. /\ pageTitles.dashboard # "" /\ pageTitles.opportunities # "" /\ pageTitles.trades # ""
        /\ pageTitles.analytics # "" /\ pageTitles.exchanges # "" /\ pageTitles.settings # ""
    BY DEF pageTitles
  <2>3. pageTitles[r] # ""
    BY <1>4, <2>2 DEF routes
  <2> QED
    BY <2>1, <2>3
<1>5. ASSUME NEW r \in routes, NEW collapsed \in BOOLEAN
      PROVE  /\ Layout(r).title # "" /\ Layout(r).active = {r} /\ Sidebar(collapsed, r).active = {r}
             /\ {Sidebar(collapsed, r).text[r], Sidebar(collapsed, r).title[r]} = {"", navItems[r]}
  <2>1. Layout(r).title # "" /\ Layout(r).active = {r}
    BY <1>1, <1>3, <1>4 DEF Layout
  <2>2. /\ Sidebar(collapsed, r).active = {r}
        /\ Sidebar(collapsed, r).text[r] = IF collapsed THEN "" ELSE menuItems[r]
        /\ Sidebar(collapsed, r).title[r] = IF collapsed THEN menuItems[r] ELSE ""
    BY <1>2 DEF Sidebar
  <2> QED
    BY <1>4, <2>1, <2>2
<1> QED
  BY <1>1, <1>2, <1>5 DEF NavigationAgrees

\* Whatever the lists hold and whatever Exchanges shows, the pages agree: PagesAgree.
THEOREM Agree ==
  StoreSpec => []PagesAgree
<1>1. ListsCurrent => PagesAgree
  BY ListsHoldRows, FiguresAgree, FiltersLeave, EntriesAgree DEF PagesAgree
<1> QED
  BY <1>1, ListsStart, ListsStep, PTL DEF StoreSpec
----------------------------------------------------------------------------
(* Components without state. *)

\* The elements that are left of a list in which no two of them are the same.
LEMMA RowsDiffer ==
  ASSUME NEW S, NEW list \in Seq(S), NEW I \in SUBSET (DOMAIN list),
         \A i, j \in I : list[i] = list[j] => i = j
  PROVE  \A m, n \in DOMAIN RowsAt(list, I) :
           RowsAt(list, I)[m] = RowsAt(list, I)[n] => m = n
<1> DEFINE t == RowsAt(list, I)
<1>1. t \in Seq(S) /\ Listed(list, I, t)
  BY RowsListed
<1> HIDE DEF t
<1>2. PICK k \in Nat : \E p : Enumerates(p, k, I) /\ Len(t) = k /\ \A n \in 1 .. k : t[n] = list[p[n]]
  BY <1>1 DEF Listed
<1>3. PICK p : Enumerates(p, k, I) /\ Len(t) = k /\ \A n \in 1 .. k : t[n] = list[p[n]]
  BY <1>2
<1>4. DOMAIN t = 1 .. k
  BY <1>1, <1>3
<1>5. ASSUME NEW m \in 1 .. k, NEW n \in 1 .. k, t[m] = t[n] PROVE m = n
  <2>1. p[m] \in I /\ p[n] \in I /\ p[m] = p[n]
    BY <1>3, <1>5 DEF Enumerates
  <2>2. p[m] \in Nat /\ p[n] \in Nat
    BY <2>1
  <2>3. ~(p[m] < p[n]) /\ ~(p[n] < p[m])
    BY <2>1, <2>2
  <2>4. ~(m < n) /\ ~(n < m)
    BY <1>3, <2>3 DEF Enumerates
  <2> QED
    BY <2>4
<1> QED
  BY <1>4, <1>5 DEF t

\* A list in which no two elements are the same has as many elements as their set.
LEMMA SetAsLarge ==
  ASSUME NEW S, NEW list \in Seq(S), \A m, n \in DOMAIN list : list[m] = list[n] => m = n
  PROVE  Len(list) = Cardinality(ToSet(list))
<1>1. DOMAIN list = 1 .. Len(list) /\ Len(list) \in Nat
  OBVIOUS
<1>2. IsFiniteSet(DOMAIN list) /\ Cardinality(DOMAIN list) = Len(list)
  BY <1>1, CountUpTo
<1> QED
  BY <1>2, FiniteImage DEF ToSet

\* The errors of a field that have a message: each once, in an alert.
LEMMA ErrorsLeft ==
  ASSUME NEW errors, errors \in Seq(ToSet(errors)), NEW children, children \in NoText
  PROVE  ErrorsListed(children, errors)
<1> DEFINE S == ToSet(errors)
           First == {i \in DOMAIN errors : \A j \in 1 .. i - 1 : errors[j] # errors[i]}
           unique == uniqueErrors(errors)
           Full == {i \in DOMAIN unique : unique[i] \notin NoText}
           messages == RowsAt(unique, Full)
<1>1. errors \in Seq(S) /\ First \in SUBSET (DOMAIN errors) /\ unique = RowsAt(errors, First)
  BY DEF uniqueErrors
<1>2. \A i \in DOMAIN errors : \E n \in First : errors[n] = errors[i]
  <2> TAKE i \in DOMAIN errors
  <2> DEFINE T == {j \in DOMAIN errors : errors[j] = errors[i]}
  <2>1. T \in SUBSET Nat /\ T # {}
    OBVIOUS
  <2>2. PICK n \in T : \A m \in T : n <= m
    <3> HIDE DEF T
    <3> QED
      BY <2>1, LeastNat
  <2>3. ASSUME NEW j \in 1 .. n - 1 PROVE errors[j] # errors[n]
    <3>1. n \in 1 .. Len(errors) /\ Len(errors) \in Nat /\ DOMAIN errors = 1 .. Len(errors)
      BY <2>2
    <3>2. j \in DOMAIN errors /\ ~(n <= j)
      BY <3>1
    <3> QED
      BY <2>2, <3>2
  <2> QED
    BY <2>2, <2>3
<1>3. ASSUME NEW i \in First, NEW j \in First, errors[i] = errors[j] PROVE i = j
  <2>1. i \in Nat /\ j \in Nat /\ i >= 1 /\ j >= 1
    BY <1>1
  <2>2. ~(i < j) /\ ~(j < i)
    <3>1. i < j => i \in 1 .. j - 1
      BY <2>1
    <3>2. j < i => j \in 1 .. i - 1
      BY <2>1
    <3> QED
      BY <1>3, <3>1, <3>2
  <2> QED
    BY <2>1, <2>2
<1> HIDE DEF First
<1>4. /\ unique \in Seq(S) /\ ToSet(unique) = {errors[i] : i \in First}
      /\ \A m, n \in DOMAIN unique : unique[m] = unique[n] => m = n
  <2> DEFINE rows == RowsAt(errors, First)
  <2>1. rows \in Seq(S)
    BY <1>1, RowsListed
  <2>2. ToSet(rows) = {errors[i] : i \in First}
    BY <1>1, SetOfRows
  <2>3. \A m, n \in DOMAIN rows : rows[m] = rows[n] => m = n
    BY <1>1, <1>3, RowsDiffer
  <2>4. unique = rows
    BY <1>1
  <2> HIDE DEF rows, unique
  <2> QED
    BY <2>1, <2>2, <2>3, <2>4
<1> HIDE DEF unique
<1>5. ToSet(unique) = ToSet(errors)
  <2>1. {errors[i] : i \in First} = {errors[i] : i \in DOMAIN errors}
    BY <1>1, <1>2
  <2> QED
    BY <1>4, <2>1 DEF ToSet
<1>6. /\ Full \in SUBSET (DOMAIN unique)
      /\ \A m, n \in Full : unique[m] = unique[n] => m = n
  BY <1>4
<1>7. {unique[i] : i \in Full} = ToSet(unique) \ NoText
  BY DEF ToSet
<1> HIDE DEF Full
<1>8. /\ messages \in Seq(S) /\ ToSet(messages) = {unique[i] : i \in Full}
      /\ \A m, n \in DOMAIN messages : messages[m] = messages[n] => m = n
  BY <1>4, <1>6, RowsListed, SetOfRows, RowsDiffer
<1> HIDE DEF messages
<1>9. Len(messages) = Cardinality(ToSet(messages))
  BY <1>8, SetAsLarge
<1>10. /\ FieldError(children, errors).lines = messages
       /\ FieldError(children, errors).alert =
            IF Len(unique) = 1 THEN unique[1] \notin NoText ELSE unique # <<>>
  BY DEF FieldError, unique, messages, Full
<1>11. ASSUME messages # <<>> PROVE FieldError(children, errors).alert
  <2>1. ToSet(messages) # {}
    <3>1. Len(messages) \in Nat /\ DOMAIN messages = 1 .. Len(messages)
      BY <1>8
    <3>2. Len(messages) # 0
      BY <1>8, <1>11, EmptySeq
    <3>3. 1 \in DOMAIN messages
      BY <3>1, <3>2
    <3> QED
      BY <3>3 DEF ToSet
  <2>2. PICK n \in DOMAIN unique : unique[n] \notin NoText
    BY <1>7, <1>8, <2>1 DEF ToSet
  <2>3. unique # <<>>
    BY <2>2
  <2>4. Len(unique) = 1 => n = 1
    BY <1>4, <2>2
  <2> QED
    BY <1>10, <2>2, <2>3, <2>4
<1>12. ToSet(messages) = ToSet(errors) \ NoText
  BY <1>5, <1>7, <1>8
<1> HIDE DEF messages, unique
<1> QED
  BY <1>9, <1>10, <1>11, <1>12 DEF ErrorsListed

\* What the caller put inside, or the errors.
LEMMA ErrorsAreListed ==
  ASSUME NEW errors, errors \in Seq(ToSet(errors)), NEW children
  PROVE  ErrorsListed(children, errors)
<1>1. CASE children \in NoText
  BY <1>1, ErrorsLeft
<1>2. CASE children \notin NoText
  <2> DEFINE lines == <<children>>
  <2>1. FieldError(children, errors).alert /\ FieldError(children, errors).lines = lines
    BY <1>2 DEF FieldError
  <2>2. ToSet(lines) = {children} /\ Len(lines) = 1
    BY DEF ToSet
  <2>3. Cardinality({children}) = 1
    BY FS_Singleton
  <2> HIDE DEF lines
  <2> QED
    BY <1>2, <2>1, <2>2, <2>3 DEF ErrorsListed
<1> QED
  BY <1>1, <1>2

\* An error that FormMessage shows is among the descriptions of its control.
LEMMA FormIsDescribed ==
  ASSUME NEW f
  PROVE  FormDescribed(f)
<1> DEFINE error == f.errors[f.name]
           item == <<f.id, "form-item">>
           message == <<f.id, "form-item-message">>
           description == <<f.id, "form-item-description">>
<1>1. /\ FormLabel(f) = [htmlFor |-> item, error |-> error # Absent]
      /\ FormControl(f) = [ id          |-> item,
                            describedby |-> {description} \cup IF error = Absent THEN {} ELSE {message},
                            invalid     |-> error # Absent ]
  BY DEF FormLabel, FormControl, useFormField, FormField
<1>2. FormMessage(f) =
        IF "message" \in f.placed /\ (IF error # Absent THEN error ELSE f.children) \notin NoText
        THEN {[id |-> message, text |-> IF error # Absent THEN error ELSE f.children]} ELSE {}
  BY DEF FormMessage, useFormField, FormField
<1>3. item \in FormItem(f)
  BY <1>1 DEF FormItem
<1>4. ASSUME error \notin NoText, "message" \in f.placed
      PROVE  \E m \in FormMessage(f) :
               m.text = error /\ m.id \in FormControl(f).describedby \cap FormItem(f)
  <2>1. error # Absent
    BY <1>4 DEF NoText
  <2> DEFINE m == [id |-> message, text |-> error]
  <2>2. m \in FormMessage(f) /\ m.text = error /\ m.id = message
    BY <1>2, <1>4, <2>1
  <2>3. message \in FormControl(f).describedby
    BY <1>1, <2>1
  <2>4. m.id \in FormItem(f)
    <3> HIDE DEF m
    <3> QED
      BY <2>2 DEF FormItem
  <2> QED
    BY <2>2, <2>3, <2>4
<1>5. ASSUME error = Absent, NEW m \in FormMessage(f) PROVE m.id \notin FormControl(f).describedby
  <2>1. m.id = message
    BY <1>2
  <2>2. FormControl(f).describedby = {description}
    BY <1>1, <1>5
  <2>3. message # description
    OBVIOUS
  <2> QED
    BY <2>1, <2>2, <2>3
<1>6. FormLabel(f).htmlFor = item /\ FormLabel(f).error = FormControl(f).invalid
  BY <1>1
<1> QED
  BY <1>3, <1>4, <1>5, <1>6 DEF FormDescribed

\* There is a thumb for each value.
LEMMA ThumbsAreEnough ==
  ASSUME NEW value, NEW defaultValue, NEW min, NEW max,
         \A v \in {value, defaultValue} : v # Absent => v \in Seq(ToSet(v))
  PROVE  ThumbsEnough(value, defaultValue, min, max)
<1>1. CASE value # Absent
  <2>1. Len(value) \in Nat
    BY <1>1
  <2> QED
    BY <1>1, <2>1 DEF ThumbsEnough, SliderValues, SliderThumbs
<1>2. CASE value = Absent /\ defaultValue # Absent
  <2>1. Len(defaultValue) \in Nat
    BY <1>2
  <2> QED
    BY <1>2, <2>1 DEF ThumbsEnough, SliderValues, SliderThumbs
<1>3. CASE value = Absent /\ defaultValue = Absent
  <2>1. Len(<<min>>) = 1 /\ Len(<<min, max>>) = 2
    OBVIOUS
  <2> QED
    BY <1>3, <2>1 DEF ThumbsEnough, SliderValues, SliderThumbs
<1> QED
  BY <1>1, <1>2, <1>3

\* The items of a toggle group look as the group says, and as they say themselves where it
\* says nothing.
LEMMA TogglesAreAlike ==
  ASSUME NEW group, NEW items
  PROVE  TogglesAlike(group, items)
<1>1. ASSUME NEW item, NEW a \in {"variant", "size"}
      PROVE  /\ ToggleGroupItem(group, item).data[a] = IF group[a] # Absent THEN group[a] ELSE item[a]
             /\ ToggleGroupItem(group, item).classes[a] =
                  LET look == IF group[a] # Absent THEN group[a] ELSE item[a]
                  IN  IF look = Absent THEN "default" ELSE look
             /\ Toggle(item).classes[a] = IF item[a] = Absent THEN "default" ELSE item[a]
  BY DEF ToggleGroupItem, Toggle, toggleVariants
<1> QED
  BY <1>1 DEF TogglesAlike

\* The marks of a day are those of a selection.
LEMMA DaysAreMarked ==
  ASSUME NEW from \in Int, NEW to \in Int, NEW ranged
  PROVE  DaysMarked(from, to, ranged)
<1> SUFFICES ASSUME NEW day \in from - 1 .. to + 1
             PROVE  LET marks == CalendarDayButton(Modifiers(day, from, to, ranged))
                    IN  /\ marks # {} <=> day \in from .. to
                        /\ Cardinality(marks) > 1 =>
                             marks = {"range_start", "range_end"} /\ from = to
  BY DEF DaysMarked
<1> DEFINE ms == Modifiers(day, from, to, ranged)
           marks == CalendarDayButton(ms)
           Parts == {"range_start", "range_middle", "range_end"}
<1>1. /\ "selected" \in ms <=> day \in from .. to
      /\ "range_start" \in ms <=> day \in from .. to /\ ranged /\ day = from
      /\ "range_middle" \in ms <=> day \in from .. to /\ ranged /\ day \in from + 1 .. to - 1
      /\ "range_end" \in ms <=> day \in from .. to /\ ranged /\ day = to
  BY DEF Modifiers
<1> HIDE DEF ms
<1>2. /\ marks \subseteq Parts \cup {"single"}
      /\ "single" \in marks <=> "selected" \in ms /\ ms \cap Parts = {}
      /\ \A m \in Parts : m \in marks <=> m \in ms
  BY DEF CalendarDayButton
<1>3. marks # {} <=> day \in from .. to
  BY <1>1, <1>2
<1>4. \/ \E m : marks \subseteq {m}
      \/ marks = {"range_start", "range_end"} /\ from = to
  <2>1. CASE "single" \in marks
    BY <1>2, <2>1
  <2>2. CASE "single" \notin marks /\ "range_middle" \in marks
    <3>1. day \in from + 1 .. to - 1
      BY <1>1, <1>2, <2>2
    <3>2. "range_start" \notin marks /\ "range_end" \notin marks
      BY <1>1, <1>2, <3>1
    <3> QED
      BY <1>2, <2>2, <3>2
  <2>3. CASE "single" \notin marks /\ "range_middle" \notin marks
    <3>1. "range_start" \in marks /\ "range_end" \in marks => from = to
      BY <1>1, <1>2
    <3>2. marks \subseteq {"range_start", "range_end"}
      BY <1>2, <2>3
    <3> QED
      BY <3>1, <3>2
  <2> QED
    BY <2>1, <2>2, <2>3
<1> HIDE DEF marks
<1>5. ASSUME NEW m, marks \subseteq {m} PROVE ~(Cardinality(marks) > 1)
  <2>1. IsFiniteSet({m}) /\ Cardinality({m}) = 1
    BY FS_Singleton
  <2>2. Cardinality(marks) <= 1 /\ Cardinality(marks) \in Nat
    BY <1>5, <2>1, NotMore
  <2> QED
    BY <2>2
<1> QED
  BY <1>3, <1>4, <1>5 DEF marks, ms

\* As many elements are left as there are places.
LEMMA RowsCounted ==
  ASSUME NEW S, NEW list \in Seq(S), NEW I \in SUBSET (DOMAIN list)
  PROVE  Len(RowsAt(list, I)) = Cardinality(I)
<1> DEFINE t == RowsAt(list, I)
<1>1. Listed(list, I, t)
  BY RowsListed
<1> HIDE DEF t
<1>2. PICK k \in Nat : \E p : Enumerates(p, k, I) /\ Len(t) = k
  BY <1>1 DEF Listed
<1>3. PICK p : Enumerates(p, k, I) /\ Len(t) = k
  BY <1>2
<1>4. I \in SUBSET Nat
  OBVIOUS
<1>5. Cardinality(I) = k
  BY <1>3, <1>4, Counted DEF Counts
<1> QED
  BY <1>3, <1>5 DEF t

\* The items of a chart that are drawn are some of its payload, and one at most of one.
LEMMA DrawnItems ==
  ASSUME NEW items, items \in Seq(ToSet(items))
  PROVE  Drawn(items) \in Seq(ToSet(items)) /\ Len(Drawn(items)) <= Len(items)
<1> DEFINE S == ToSet(items)
           I == {i \in DOMAIN items : Field(items[i].own, "type") # "none"}
<1>1. items \in Seq(S) /\ I \in SUBSET (DOMAIN items) /\ RowsAt(items, I) = Drawn(items)
  BY DEF Drawn
<1> HIDE DEF S, I
<1>2. Drawn(items) \in Seq(S) /\ Len(Drawn(items)) = Cardinality(I)
  BY <1>1, RowsListed, RowsCounted
<1>3. I \in SUBSET (1 .. Len(items)) /\ Len(items) \in Nat
  BY <1>1
<1>4. IsFiniteSet(1 .. Len(items)) /\ Cardinality(1 .. Len(items)) = Len(items)
  BY <1>3, CountUpTo
<1>5. Cardinality(I) <= Len(items)
  BY <1>3, <1>4, NotMore
<1> QED
  BY <1>2, <1>5 DEF S

\* A list with one thing for each item.
LEMMA OneForEach ==
  ASSUME NEW S, NEW list \in Seq(S), NEW u, u = [i \in DOMAIN list |-> u[i]]
  PROVE  Len(u) = Len(list) /\ DOMAIN u = 1 .. Len(list)
<1> DEFINE T == {u[i] : i \in DOMAIN list}
<1>1. Len(list) \in Nat /\ DOMAIN list = 1 .. Len(list)
  OBVIOUS
<1>2. u \in [1 .. Len(list) -> T]
  BY <1>1
<1> HIDE DEF T
<1> QED
  BY <1>1, <1>2, FunctionIsSeq

\* Lists of the same length in which the same items are hidden have equally many drawn.
LEMMA AsManyDrawn ==
  ASSUME NEW one, one \in Seq(ToSet(one)), NEW other, other \in Seq(ToSet(other)),
         {i \in DOMAIN one : Field(one[i].own, "type") = "none"} =
           {i \in DOMAIN other : Field(other[i].own, "type") = "none"},
         Len(one) = Len(other)
  PROVE  Len(Drawn(one)) = Len(Drawn(other))
<1> DEFINE I == {i \in DOMAIN one : Field(one[i].own, "type") # "none"}
           J == {i \in DOMAIN other : Field(other[i].own, "type") # "none"}
<1>1. I = J /\ I \in SUBSET (DOMAIN one) /\ J \in SUBSET (DOMAIN other)
  OBVIOUS
<1>2. Drawn(one) = RowsAt(one, I) /\ Drawn(other) = RowsAt(other, J)
  BY DEF Drawn
<1> HIDE DEF I, J
<1>3. Len(Drawn(one)) = Cardinality(I) /\ Len(Drawn(other)) = Cardinality(J)
  BY <1>1, <1>2, RowsCounted
<1> QED
  BY <1>1, <1>3

\* The entry that a key means for an item is the one that is found.
LEMMA EntryFound ==
  ASSUME NEW config, NEW item, NEW key, NEW e \in DOMAIN config,
         None \notin DOMAIN config,
         \A f \in DOMAIN item.own : item.own[f] # None,
         \A f \in DOMAIN item.row : item.row[f] # None,
         Means(config, item, key, e)
  PROVE  getPayloadConfigFromPayload(config, item, key) = config[e]
<1> DEFINE found == Or(Or(Field(item.own, key), Field(item.row, key)), key)
<1>1. /\ key \in DOMAIN item.own => item.own[key] \in Held(item, key)
      /\ key \in DOMAIN item.row => item.row[key] \in Held(item, key)
  BY DEF Held
<1>2. key \notin DOMAIN item.own /\ key \notin DOMAIN item.row => Held(item, key) = {}
  BY DEF Held
<1>3. \/ found \in Held(item, key)
      \/ found = key /\ Held(item, key) = {}
  BY <1>1, <1>2 DEF Or, Field
<1> HIDE DEF found
<1>4. CASE Held(item, key) = {e}
  <2>1. found = e
    BY <1>3, <1>4
  <2> QED
    BY <2>1 DEF getPayloadConfigFromPayload, found
<1>5. CASE key = e /\ Held(item, key) \cap DOMAIN config \subseteq {e}
  <2>1. found = e \/ found \notin DOMAIN config
    BY <1>3, <1>5
  <2> QED
    BY <1>5, <2>1 DEF getPayloadConfigFromPayload, found
<1> QED
  BY <1>4, <1>5 DEF Means

\* A series is named by the entry its keys mean.
LEMMA EntriesNameSeries ==
  ASSUME NEW config, NEW p, ChartGiven(config, p)
  PROVE  NamedByEntry(config, p)
<1> DEFINE tooltip == ChartTooltipContent(config, p)
           rows == tooltip.rows
           legend == ChartLegendContent(config, p.legend, p.legendNameKey, FALSE)
           tips == Drawn(p.payload)
           marks == Drawn(p.legend)
           Hidden(items) == {i \in DOMAIN items : Field(items[i].own, "type") = "none"}
           nestLabel == Len(p.payload) = 1 /\ p.indicator # "dot"
           label == IF p.hideLabel THEN None ELSE tooltipLabel(config, p)
           Entry(item) == getPayloadConfigFromPayload(config, item, tooltipKey(item, p.nameKey))
           LegendEntry(item) ==
             getPayloadConfigFromPayload(config, item, legendKey(item, p.legendNameKey))
<1>1. /\ p.payload \in Seq(ToSet(p.payload)) /\ p.legend \in Seq(ToSet(p.legend))
      /\ None \notin DOMAIN config
      /\ \A item \in ToSet(p.payload) \cup ToSet(p.legend) :
           /\ \A f \in DOMAIN item.own : item.own[f] # None
           /\ \A f \in DOMAIN item.row : item.row[f] # None
  BY DEF ChartGiven
<1>2. /\ tips \in Seq(ToSet(p.payload)) /\ marks \in Seq(ToSet(p.legend))
      /\ Len(tips) \in Nat /\ DOMAIN tips = 1 .. Len(tips)
      /\ Len(marks) \in Nat /\ DOMAIN marks = 1 .. Len(marks)
      /\ Len(tips) <= Len(p.payload)
  <2>1. tips \in Seq(ToSet(p.payload)) /\ Len(tips) <= Len(p.payload)
    BY <1>1, DrawnItems
  <2>2. marks \in Seq(ToSet(p.legend))
    BY <1>1, DrawnItems
  <2> QED
    BY <2>1, <2>2
<1>3. /\ Len(legend) = Len(marks)
      /\ \A i \in DOMAIN marks : legend[i].name = LegendEntry(marks[i]).label
  <2>1. legend = [i \in DOMAIN marks |-> [ name  |-> LegendEntry(marks[i]).label,
                                           icon  |-> LegendEntry(marks[i]).icon,
                                           color |-> Field(marks[i].own, "color") ]]
    BY DEF ChartLegendContent
  <2> HIDE DEF legend, marks, LegendEntry
  <2>2. Len(legend) = Len(marks)
    <3>1. legend = [i \in DOMAIN marks |-> legend[i]]
      BY <2>1
    <3> QED
      BY <1>2, <3>1, OneForEach
  <2> QED
    BY <2>1, <2>2
<1>4. ASSUME p.active, p.payload # <<>>
      PROVE  /\ Len(rows) = Len(tips)
             /\ \A i \in DOMAIN tips :
                  rows[i].name = Or(Entry(tips[i]).label, Field(tips[i].own, "name"))
  <2>1. rows = [i \in DOMAIN tips |->
                  [ label |-> IF nestLabel THEN label ELSE None,
                    icon  |-> Entry(tips[i]).icon,
                    color |-> Or(p.color, Or(Field(tips[i].row, "fill"),
                                             Field(tips[i].own, "color"))),
                    name  |-> Or(Entry(tips[i]).label, Field(tips[i].own, "name")) ]]
    BY <1>4 DEF ChartTooltipContent
  <2> HIDE DEF tips, Entry, label, nestLabel, rows
  <2>2. Len(rows) = Len(tips)
    <3>1. rows = [i \in DOMAIN tips |-> rows[i]]
      BY <2>1
    <3> QED
      BY <1>2, <3>1, OneForEach
  <2> QED
    BY <2>1, <2>2
<1>5. ASSUME p.payload = <<>> PROVE Len(tips) = 0 /\ DOMAIN tips = {} /\ Len(rows) = 0
  <2>1. rows = <<>>
    BY <1>5 DEF ChartTooltipContent
  <2>2. Len(tips) = 0
    BY <1>2, <1>5
  <2> QED
    BY <1>2, <2>1, <2>2
<1>6. ASSUME p.active, NEW i \in DOMAIN tips, NEW e \in DOMAIN config,
             Means(config, tips[i], tooltipKey(tips[i], p.nameKey), e), config[e].label # None
      PROVE  rows[i].name = config[e].label
  <2>1. tips[i] \in ToSet(p.payload) /\ p.payload # <<>>
    BY <1>2, <1>5, <1>6
  <2> HIDE DEF tips
  <2>2. Entry(tips[i]) = config[e]
    BY <1>1, <1>6, <2>1, EntryFound
  <2>3. rows[i].name = Or(Entry(tips[i]).label, Field(tips[i].own, "name"))
    BY <1>4, <1>6, <2>1
  <2> HIDE DEF rows, Entry
  <2> QED
    BY <1>6, <2>2, <2>3 DEF Or
<1>7. ASSUME NEW i \in DOMAIN marks, NEW e \in DOMAIN config,
             Means(config, marks[i], legendKey(marks[i], p.legendNameKey), e)
      PROVE  legend[i].name = config[e].label
  <2>1. marks[i] \in ToSet(p.legend)
    BY <1>2
  <2> HIDE DEF marks
  <2>2. LegendEntry(marks[i]) = config[e]
    BY <1>1, <1>7, <2>1, EntryFound
  <2> HIDE DEF legend, LegendEntry
  <2> QED
    BY <1>3, <1>7, <2>2
<1>8. ASSUME p.active, Len(p.payload) = Len(p.legend), Hidden(p.payload) = Hidden(p.legend)
      PROVE  Len(rows) = Len(legend)
  <2>1. Len(tips) = Len(marks)
    BY <1>1, <1>8, AsManyDrawn
  <2>2. Len(rows) = Len(tips)
    BY <1>4, <1>5, <1>8
  <2> HIDE DEF rows, legend, tips, marks
  <2> QED
    BY <1>3, <2>1, <2>2
<1>9. ChartContainer(config, p).tooltip = tooltip /\ ChartContainer(config, p).legend = legend
  BY DEF ChartContainer
<1> HIDE DEF tooltip, legend, tips, marks
<1> QED
  BY <1>6, <1>7, <1>8, <1>9 DEF NamedByEntry, tips, marks

\* The text of the axis is in the tooltip once.
LEMMA LabelIsOnce ==
  ASSUME NEW config, NEW p, ChartGiven(config, p)
  PROVE  LabelledOnce(config, p)
<1> DEFINE tooltip == ChartTooltipContent(config, p)
           drawn == Drawn(p.payload)
           nestLabel == Len(p.payload) = 1 /\ p.indicator # "dot"
           label == IF p.hideLabel THEN None ELSE tooltipLabel(config, p)
           Labelled == {i \in DOMAIN tooltip.rows : tooltip.rows[i].label # None}
<1> SUFFICES ASSUME p.active, p.label # None, p.labelKey = None, ~p.hideLabel, drawn # <<>>
             PROVE  (IF tooltip.label # None THEN 1 ELSE 0) + Cardinality(Labelled) = 1
  BY DEF LabelledOnce
<1>1. /\ drawn \in Seq(ToSet(p.payload)) /\ Len(p.payload) \in Nat
      /\ Len(drawn) <= Len(p.payload) /\ Len(drawn) \in Nat /\ DOMAIN drawn = 1 .. Len(drawn)
  <2>1. p.payload \in Seq(ToSet(p.payload))
    BY DEF ChartGiven
  <2>2. drawn \in Seq(ToSet(p.payload)) /\ Len(drawn) <= Len(p.payload)
    BY <2>1, DrawnItems
  <2> QED
    BY <2>1, <2>2
<1>2. Len(drawn) >= 1 /\ p.payload # <<>>
  <2>1. Len(drawn) # 0
    BY <1>1, EmptySeq
  <2> QED
    BY <1>1, <2>1
<1>3. label # None
  BY DEF tooltipLabel, Or
<1>4. /\ DOMAIN tooltip.rows = DOMAIN drawn
      /\ tooltip.label = IF nestLabel THEN None ELSE label
      /\ \A i \in DOMAIN drawn : tooltip.rows[i].label = IF nestLabel THEN label ELSE None
  BY <1>2 DEF ChartTooltipContent
<1> HIDE DEF label, drawn, tooltip
<1>5. CASE nestLabel
  <2>1. DOMAIN drawn = {1}
    BY <1>1, <1>2, <1>5
  <2>2. Labelled = {1} /\ tooltip.label = None
    BY <1>3, <1>4, <1>5, <2>1
  <2>3. Cardinality(Labelled) = 1
    BY <2>2, FS_Singleton
  <2> QED
    BY <2>2, <2>3
<1>6. CASE ~nestLabel
  <2> HIDE DEF nestLabel
  <2>1. Labelled = {} /\ tooltip.label # None
    BY <1>3, <1>4, <1>6
  <2>2. Cardinality(Labelled) = 0
    BY <2>1, FS_EmptySet
  <2> QED
    BY <2>1, <2>2
<1> QED
  BY <1>5, <1>6

\* A chart names its series.
LEMMA SeriesAreNamed ==
  ASSUME NEW config, NEW p, ChartGiven(config, p)
  PROVE  SeriesNamed(config, p)
<1> DEFINE Color(e, t) == IF e.theme # None THEN Or(e.theme[t], e.color) ELSE e.color
<1>1. \A t \in THEMES :
        DOMAIN ChartStyle(config)[t] = {k \in DOMAIN config : Color(config[k], t) # None}
  BY DEF ChartStyle
<1>2. ASSUME NEW k \in DOMAIN config
      PROVE  Color(config[k], "light") # None <=> Color(config[k], "dark") # None
  <2>1. config[k].theme # None =>
          config[k].theme["light"] # None /\ config[k].theme["dark"] # None
    BY DEF ChartGiven, THEMES
  <2> QED
    BY <2>1 DEF Or
<1>3. DOMAIN ChartStyle(config)["light"] = DOMAIN ChartStyle(config)["dark"]
  BY <1>1, <1>2 DEF THEMES
<1> QED
  BY <1>3, EntriesNameSeries, LabelIsOnce DEF SeriesNamed

\* The components without state show what they are given (chart.tsx, form.tsx, field.tsx,
\* slider.tsx, toggle-group.tsx, calendar.tsx), for any of the inputs of Given: any
\* configuration, payload, form, list of messages, values, looks and days.
THEOREM Shown == ShownSpec => []ShownAsGiven
<1>1. Given => ShownAsGiven
  BY SeriesAreNamed, FormIsDescribed, ErrorsAreListed, ThumbsAreEnough, TogglesAreAlike,
     DaysAreMarked DEF Given, ShownAsGiven
<1>2. ShownAsGiven /\ [UNCHANGED shownVars]_shownVars => ShownAsGiven'
  BY DEF ShownAsGiven, shownVars
<1> QED
  BY <1>1, <1>2, PTL DEF ShownSpec
=============================================================================
