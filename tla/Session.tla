-------------------------------- MODULE Session --------------------------------
(****************************************************************************)
(* Who is signed in, in one browser tab: authStore.ts (persisted), the      *)
(* interceptors of lib/api.ts, pages/Login.tsx, the routes and the          *)
(* ProtectedRoute of App.tsx.                                               *)
(*                                                                          *)
(* Tokens are numbered in the order they are issued.  The gateway answers   *)
(* 401 to a token that has expired and to a wrong password, and to nothing  *)
(* else.  The n-th request of the same token is not told from the first:    *)
(* `asking' is the set of tokens that some request under way carries.       *)
(* Left out: the text of the error under the form.                          *)
(****************************************************************************)
EXTENDS Naturals, FiniteSets

CONSTANTS
  MaxSubmits    \* bound on submissions of the login form

ASSUME SessionAssumption == MaxSubmits \in Nat

VARIABLES
  token,        \* of the auth store; 0 when signed out.  Survives a page load
  issued,       \* tokens issued so far
  expired,      \* those of them the gateway no longer accepts
  route,        \* what the location names: "login", "dashboard" or another "page"
  page,         \* "running", "unloading" (location.href was set) or "loading"
  submitted,    \* the request of the login form shown: "none", "good" or "bad" password
  abandoned,    \* how many of each kind the forms that are gone still wait for
  asking,       \* the tokens in requests under way; 0: a request without a token
  submits       \* bound: submissions so far

sessionVars == <<token, issued, expired, route, page, submitted, abandoned, asking, submits>>

Passwords == {"good", "bad"}
Routes == {"login", "dashboard", "page"}
LayoutShown == page # "loading" /\ route # "login"

\* The first load of the page, nobody being signed in.
SessionInit ==
  /\ token = 0 /\ issued = 0 /\ expired = {} /\ asking = {} /\ submits = 0
  /\ route = "login" /\ page = "running"
  /\ submitted = "none" /\ abandoned = [p \in Passwords |-> 0]

\* Mutant of Protected: the route of the Layout is not wrapped in ProtectedRoute.
Protected_Not(r) == r

\* ProtectedRoute, with the token there will be.
Protected(r) == IF token' = 0 THEN "login" ELSE r

\* Arrive at r.  Layout and Dashboard call fetchAll when they are mounted, Settings
\* asks for its values, and the other pages ask nothing.
Show(r) ==
  /\ route' = Protected(r)
  /\ \/ asking' = asking \cup {token'} /\ route' # "login"
     \/ asking' = asking /\ (route' = "page" => LayoutShown) /\ route' # "dashboard"

\* The login form is left; a request of its own goes on.
Left(waiting) ==
  IF submitted = "none" THEN waiting ELSE [waiting EXCEPT ![submitted] = @ + 1]
----------------------------------------------------------------------------
(* What the user does. *)

\* Login: handleSubmit.  The button is disabled while a request is under way.
Submit(p) ==
  /\ page # "loading" /\ route = "login" /\ submitted = "none" /\ submits < MaxSubmits
  /\ submitted' = p /\ submits' = submits + 1
  /\ UNCHANGED <<token, issued, expired, route, page, abandoned, asking>>

\* The navigation of Layout, or the browser's Back and Forward, which reach the
\* login form of a session that is signed in as well.
Visit(r) ==
  /\ page # "loading" /\ r # route
  /\ UNCHANGED token /\ Show(r) /\ submitted' = "none" /\ abandoned' = Left(abandoned)
  /\ UNCHANGED <<issued, expired, page, submits>>

\* The Dashboard's refresh button, and the buttons of Settings.
Ask ==
  /\ LayoutShown /\ token \notin asking
  /\ asking' = asking \cup {token}
  /\ UNCHANGED <<token, issued, expired, route, page, submitted, abandoned, submits>>

\* The button of Layout: logout(); navigate("/login").
Logout ==
  /\ LayoutShown
  /\ token' = 0 /\ route' = "login"
  /\ UNCHANGED <<issued, expired, page, submitted, abandoned, asking, submits>>
----------------------------------------------------------------------------
(* Answers. *)

\* The request of the form that is shown, or of one that is gone, ends.
Ends(p, own) ==
  /\ page # "loading"
  /\ \/ own /\ submitted = p /\ submitted' = "none" /\ UNCHANGED abandoned
     \/ /\ ~own /\ abandoned[p] > 0 /\ abandoned' = [abandoned EXCEPT ![p] = @ - 1]
        /\ UNCHANGED submitted

\* Login: authLogin(token); navigate("/dashboard"), which leaves the form shown by now.
LoggedIn(own) ==
  /\ page # "loading"
  /\ IF own
     THEN submitted = "good" /\ UNCHANGED abandoned
     ELSE abandoned["good"] > 0 /\ abandoned' = Left([abandoned EXCEPT !["good"] = @ - 1])
  /\ submitted' = "none"
  /\ token' = issued + 1 /\ issued' = issued + 1
  /\ Show("dashboard")
  /\ UNCHANGED <<expired, page, submits>>

\* The response interceptor on a 401: logout(), location.href = "/login".  ProtectedRoute
\* shows the login form at once, and the page will be loaded again.
Unauthorized == token' = 0 /\ page' = "unloading" /\ route' = "login"

\* A wrong password is a 401 as any other.
LoginRefused(own) ==
  /\ Ends("bad", own) /\ Unauthorized
  /\ UNCHANGED <<issued, expired, asking, submits>>

\* No answer, or an answer the form shows as an error.
LoginFails(p, own) ==
  /\ Ends(p, own)
  /\ UNCHANGED <<token, issued, expired, route, page, asking, submits>>

\* Mutant of Answer: the interceptor signs out on every error.
Answer_AnyError(t, last) ==
  /\ page # "loading" /\ t \in asking
  /\ asking' = IF last THEN asking \ {t} ELSE asking
  /\ Unauthorized
  /\ UNCHANGED <<issued, expired, submitted, abandoned, submits>>

\* A request of token t is answered, or fails without a 401: the store's catch.
Answer(t, last) ==
  /\ page # "loading" /\ t \in asking
  /\ asking' = IF last THEN asking \ {t} ELSE asking
  /\ UNCHANGED <<token, issued, expired, route, page, submitted, abandoned, submits>>

\* A request is refused for its token, whoever is signed in by now.
Refused(t, last) ==
  /\ page # "loading" /\ t \in asking \cap expired
  /\ asking' = IF last THEN asking \ {t} ELSE asking
  /\ Unauthorized
  /\ UNCHANGED <<issued, expired, submitted, abandoned, submits>>
----------------------------------------------------------------------------
(* The gateway's clock and the browser. *)

Expire(t) ==
  /\ t \in 1 .. issued /\ t \notin expired /\ expired' = expired \cup {t}
  /\ UNCHANGED <<token, issued, route, page, submitted, abandoned, asking, submits>>

\* The page is left, for /login after a 401 or by the user who loads it again: its
\* requests are aborted, and only the auth store persists.
LeavePage ==
  /\ page # "loading" /\ page' = "loading" /\ asking' = {} /\ submitted' = "none"
  /\ abandoned' = [p \in Passwords |-> 0]
  /\ route' \in IF page = "unloading" THEN {"login"} ELSE {route}
  /\ UNCHANGED <<token, issued, expired, submits>>

Load ==
  /\ page = "loading" /\ page' = "running" /\ UNCHANGED token
  /\ route' = Protected(route)
  /\ asking' = IF route' # "login" THEN {token} ELSE {}
  /\ UNCHANGED <<issued, expired, submitted, abandoned, submits>>

SessionStep ==
  \/ \E p \in Passwords : Submit(p)
  \/ \E r \in Routes : Visit(r)
  \/ Ask \/ Logout
  \/ \E own \in BOOLEAN :
       \/ LoggedIn(own) \/ LoginRefused(own)
       \/ \E p \in Passwords : LoginFails(p, own)
  \/ \E t \in 0 .. issued, last \in BOOLEAN : Answer(t, last) \/ Refused(t, last)
  \/ \E t \in 1 .. issued : Expire(t)
  \/ Load
----------------------------------------------------------------------------
SessionTypeOK ==
  /\ token \in 0 .. issued /\ issued \in Nat /\ expired \subseteq 1 .. issued
  /\ route \in Routes /\ page \in {"running", "unloading", "loading"}
  /\ submitted \in Passwords \cup {"none"} /\ abandoned \in [Passwords -> Nat]
  /\ asking \subseteq 0 .. issued /\ submits \in Nat
====
