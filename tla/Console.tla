-------------------------------- MODULE Console --------------------------------
(****************************************************************************)
(* The dashboard in one tab: the session (Session) and the live connection  *)
(* (UseWebSocket).  What joins them is React: Layout is mounted when a step *)
(* of the session shows one of its routes, unmounted when it shows the      *)
(* login form, and stays mounted from one page to another.                  *)
(****************************************************************************)
EXTENDS Session, UseWebSocket

vars == <<sessionVars, socketVars>>

Init == SessionInit /\ SocketInit

\* React renders what the session shows.
Rendered ==
  IF LayoutShown' = layoutMounted THEN UNCHANGED socketVars
  ELSE IF layoutMounted THEN Unmount ELSE Mount

\* A step of the session, and the rendering it causes.
Act == SessionStep /\ Rendered

\* The page goes, with all it has in memory.
Away == LeavePage /\ Unload

\* A socket or a timer calls back; none does in a page that has not loaded yet.
CallBack == SocketStep /\ UNCHANGED sessionVars

Next == Act \/ Away \/ CallBack

\* Sockets are opened in the end unless the bound on drops stops them, their close
\* is reported, and timers fire.
Fairness ==
  \A h \in Handle :
    /\ WF_vars(Opened(h) /\ UNCHANGED sessionVars)
    /\ WF_vars(handle[h] = "closing" /\ Closed(h) /\ UNCHANGED sessionVars)
    /\ WF_vars(Fire(h) /\ UNCHANGED sessionVars)

Spec == Init /\ [][Next]_vars /\ Fairness
----------------------------------------------------------------------------
(* Properties. *)

TypeOK == SocketTypeOK /\ SessionTypeOK /\ layoutMounted = LayoutShown

\* Nothing that the protected part of the application asks goes out without a token
\* (api.ts:10-14, App.tsx:12-15): neither after a logout, with answers of the old
\* session still to come, nor in a page loaded again after a 401.
NoAnonymousRequests == 0 \notin asking

\* A session that the page ends by itself, as opposed to the Logout button, ends
\* because a 401 was due (api.ts:16-25): some request under way carries an expired
\* token, or a login form, shown or left, waits with a wrong password.  No slow,
\* failed or refused answer ends one.  The request need not be of this session: a
\* 401 to a token of the session before, come late, signs the new one out.
SessionEndsForReason ==
  [][token # 0 /\ page = "running" /\ page' = "unloading" =>
       \/ asking \cap expired # {}
       \/ submitted = "bad" \/ abandoned["bad"] > 0]_vars

\* A Layout that stays on the screen ends up "Live", after any losses, reconnections
\* and earlier visits, provided that the gateway takes connections from then on.
EventuallyLive == <>[]layoutMounted => <>[]wsConnected
====
