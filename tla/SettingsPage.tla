------------------------------ MODULE SettingsPage ------------------------------
(****************************************************************************)
(* The Settings page, frontend/src/pages/Settings.tsx, and the handlers it  *)
(* calls: GET and PUT /settings of the gateway (routers/settings.py), which *)
(* reads all keys at once and writes them one by one, each in a transaction *)
(* of its own.  The page may be left and shown again while its requests are *)
(* under way; each time it is shown it starts anew.                         *)
(*                                                                          *)
(* Values are in halves, so that an odd one is a fraction: the timeout is   *)
(* an integer for the server, which refuses a fraction.  The other fields   *)
(* are all of one kind, "spread".                                           *)
(****************************************************************************)
EXTENDS Integers, FiniteSets

CONSTANTS
  Values,       \* what may be typed into a field, in halves
  Default,      \* defaultSettings, by key
  CsrfChecked,  \* the gateway runs csrf_middleware, as main.py installs it
  MaxVisits, MaxSaves   \* bounds on visits to the page and on presses of Save

Keys == {"spread", "timeout"}
Settings == [Keys -> Values]

ASSUME SettingsAssumption ==
  /\ Values \subseteq Nat /\ 0 \in Values
  /\ Default \in Settings /\ Default["timeout"] % 2 = 0 /\ \A k \in Keys : Default[k] > 0
  /\ CsrfChecked \in BOOLEAN /\ MaxVisits \in Nat /\ MaxSaves \in Nat

VARIABLES
  visit,        \* the visit being made, or 0 before the first one
  shown,        \* the page is mounted
  s, original, loading, saving, saved,  \* its state
  expiring,     \* timers of this visit that will clear `saved'
  killConfirm, killStatus,
  puts,         \* PUT requests: [of: the visit that waits, value, left: keys to write]
  stored,       \* the settings table
  halted,       \* the executor's kill switch
  (* History: read by no action. *)
  disturbed,    \* in this visit the values could not be read, or a PUT nobody waits
                \* for was under way, or one was not known to have ended well
  saves         \* bound

pageVars == <<visit, shown, s, original, loading, saving, saved, expiring, killConfirm, killStatus>>
settingsVars == <<pageVars, puts, stored, halted, disturbed, saves>>

SettingsInit ==
  /\ visit = 0 /\ shown = FALSE /\ s = Default /\ original = Default
  /\ loading = TRUE /\ saving = FALSE /\ saved = FALSE /\ expiring = 0
  /\ killConfirm = FALSE /\ killStatus = "" /\ puts = {} /\ halted = FALSE
  /\ stored \in [Keys -> Values] /\ stored["timeout"] % 2 = 0
  /\ disturbed = FALSE /\ saves = 0
----------------------------------------------------------------------------
(* The page is shown, and reads the table. *)

ShowPage ==
  /\ ~shown /\ visit < MaxVisits
  /\ visit' = visit + 1 /\ shown' = TRUE /\ s' = Default /\ original' = Default
  /\ loading' = TRUE /\ saving' = FALSE /\ saved' = FALSE /\ expiring' = 0
  /\ killConfirm' = FALSE /\ killStatus' = "" /\ disturbed' = (puts # {})
  /\ UNCHANGED <<puts, stored, halted, saves>>

\* The requests of the page go on; nothing waits for their answers any more.
Hide ==
  /\ shown /\ shown' = FALSE /\ puts' = {[p EXCEPT !.of = 0] : p \in puts}
  /\ UNCHANGED <<visit, s, original, loading, saving, saved, expiring, killConfirm, killStatus,
                 stored, halted, disturbed, saves>>

\* parseFloat(...) || default: a stored 0 reads as the default.
Read(k) == IF stored[k] = 0 THEN Default[k] ELSE stored[k]

Loaded ==
  /\ shown /\ loading /\ loading' = FALSE
  /\ s' = [k \in Keys |-> Read(k)] /\ original' = s'
  /\ UNCHANGED <<visit, shown, saving, saved, expiring, killConfirm, killStatus, puts, stored,
                 halted, disturbed, saves>>

\* catch(() => {}): the page shows the defaults as if they were stored.
LoadFails ==
  /\ shown /\ loading /\ loading' = FALSE /\ disturbed' = TRUE
  /\ UNCHANGED <<visit, shown, s, original, saving, saved, expiring, killConfirm, killStatus,
                 puts, stored, halted, saves>>
----------------------------------------------------------------------------
(* The form. *)

Form == shown /\ ~loading

Edit(k, v) ==
  /\ Form /\ v # s[k] /\ s' = [s EXCEPT ![k] = v]
  /\ UNCHANGED <<visit, shown, original, loading, saving, saved, expiring, killConfirm,
                 killStatus, puts, stored, halted, disturbed, saves>>

Reset ==
  /\ Form /\ s # original /\ s' = original
  /\ UNCHANGED <<visit, shown, original, loading, saving, saved, expiring, killConfirm,
                 killStatus, puts, stored, halted, disturbed, saves>>

\* handleSave, up to its await.  The button is disabled while a save is under way.
Save ==
  /\ Form /\ ~saving /\ saves < MaxSaves
  /\ saving' = TRUE /\ saved' = FALSE /\ saves' = saves + 1
  /\ puts' = puts \cup {[of |-> visit, value |-> s, left |-> Keys]}
  /\ UNCHANGED <<visit, shown, s, original, loading, expiring, killConfirm, killStatus, stored,
                 halted, disturbed>>

\* Mutant of Saved: what is in the form by now counts as saved.
Saved_FormNow(p) ==
  /\ p.left = {} /\ puts' = puts \ {p}
  /\ IF p.of = visit
     THEN saved' = TRUE /\ original' = s /\ expiring' = expiring + 1 /\ saving' = FALSE
     ELSE UNCHANGED <<saved, original, expiring, saving>>
  /\ UNCHANGED <<visit, shown, s, loading, killConfirm, killStatus, stored, halted, disturbed,
                 saves>>

\* The answer: what the form held when Save was pressed is now the original.
Saved(p) ==
  /\ p.left = {} /\ puts' = puts \ {p}
  /\ IF p.of = visit
     THEN saved' = TRUE /\ original' = p.value /\ expiring' = expiring + 1 /\ saving' = FALSE
     ELSE UNCHANGED <<saved, original, expiring, saving>>
  /\ UNCHANGED <<visit, shown, s, loading, killConfirm, killStatus, stored, halted, disturbed,
                 saves>>

\* The page gets an error: a refusal, an error half way through the keys, or no
\* answer in time, in which case the server may go on.
SaveFails(p, goesOn) ==
  /\ p.of # 0 /\ saving' = FALSE
  /\ puts' = IF goesOn THEN (puts \ {p}) \cup {[p EXCEPT !.of = 0]} ELSE puts \ {p}
  /\ disturbed' = (disturbed \/ goesOn \/ p.left # Keys)
  /\ UNCHANGED <<visit, shown, s, original, loading, saved, expiring, killConfirm, killStatus,
                 stored, halted, saves>>

\* setTimeout(() => setSaved(false), 3000), the timer of whichever save.
SavedExpires ==
  /\ shown /\ expiring > 0 /\ expiring' = expiring - 1 /\ saved' = FALSE
  /\ UNCHANGED <<visit, shown, s, original, loading, saving, killConfirm, killStatus, puts,
                 stored, halted, disturbed, saves>>
----------------------------------------------------------------------------
(* The gateway. *)

\* csrf_middleware refuses what changes state without the header, which api.ts never
\* sends; pydantic refuses a fraction for execution_timeout_sec.
Accepted(p) == ~CsrfChecked /\ p.value["timeout"] % 2 = 0

\* update_settings: the keys in the order of the model, the timeout last.
Write(p) ==
  /\ p.left # {} /\ Accepted(p)
  /\ LET k == IF "spread" \in p.left THEN "spread" ELSE "timeout"
     IN  /\ stored' = [stored EXCEPT ![k] = p.value[k]]
         /\ puts' = (puts \ {p}) \cup {[p EXCEPT !.left = @ \ {k}]}
  /\ UNCHANGED <<pageVars, halted, disturbed, saves>>

\* A request that nobody waits for ends, perhaps half way.
Forgotten(p) ==
  /\ p.of = 0 /\ p.left # {} /\ puts' = puts \ {p}
  /\ UNCHANGED <<pageVars, stored, halted, disturbed, saves>>

\* The routers of the gateway with a handler for a request that changes state.
WriteRoutes == {"/api/v1/settings"}
----------------------------------------------------------------------------
(* The kill switch of the page. *)

AskKill ==
  /\ Form /\ ~killConfirm /\ killConfirm' = TRUE
  /\ UNCHANGED <<visit, shown, s, original, loading, saving, saved, expiring, killStatus, puts,
                 stored, halted, disturbed, saves>>

CancelKill ==
  /\ Form /\ killConfirm /\ killConfirm' = FALSE /\ killStatus' = ""
  /\ UNCHANGED <<visit, shown, s, original, loading, saving, saved, expiring, puts, stored,
                 halted, disturbed, saves>>

\* handleKillSwitch: POST /killswitch and its answer; the page does nothing between.
Kill ==
  /\ Form /\ killConfirm /\ killConfirm' = FALSE
  /\ IF ~CsrfChecked /\ "/api/v1/killswitch" \in WriteRoutes
     THEN killStatus' = "activated" /\ halted' = TRUE
     ELSE killStatus' = "error" /\ UNCHANGED halted
  /\ UNCHANGED <<visit, shown, s, original, loading, saving, saved, expiring, puts, stored,
                 disturbed, saves>>

SettingsNext ==
  \/ ShowPage \/ Hide \/ Loaded \/ LoadFails \/ Reset \/ Save \/ SavedExpires
  \/ \E k \in Keys, v \in Values : Edit(k, v)
  \/ \E p \in puts : Write(p) \/ Saved(p) \/ Forgotten(p)
                     \/ \E goesOn \in BOOLEAN : SaveFails(p, goesOn)
  \/ AskKill \/ CancelKill \/ Kill

SettingsSpec == SettingsInit /\ [][SettingsNext]_settingsVars
----------------------------------------------------------------------------
(* Properties. *)

SettingsTypeOK ==
  /\ visit \in 0 .. MaxVisits /\ shown \in BOOLEAN /\ saves \in 0 .. MaxSaves
  /\ s \in Settings /\ original \in Settings /\ stored \in Settings
  /\ {loading, saving, saved, killConfirm, halted, disturbed} \subseteq BOOLEAN
  /\ expiring \in Nat /\ killStatus \in {"", "activated", "error"}
  /\ puts \subseteq [of : 0 .. visit, value : Settings, left : SUBSET Keys]

\* What the page takes for the stored values, and "Reset" restores, is what the table
\* holds, once no save of the page is under way (lines 36, 42; settings.py:36-40):
\* after a save during which the form was edited again, after a save refused for a
\* fractional timeout, after leaving and coming back.  A stored 0 reads as the
\* default.  Excepted is a visit whose values could not be read, and one with a PUT
\* that no page waits for or whose outcome the page was not told.
OriginalIsStored ==
  shown /\ ~loading /\ ~disturbed /\ (\A p \in puts : p.of # visit) =>
    \A k \in Keys : original[k] \in {stored[k], Read(k)}
====
