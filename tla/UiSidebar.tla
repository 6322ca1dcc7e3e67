------------------------------- MODULE UiSidebar -------------------------------
(****************************************************************************)
(* The sidebar of the component library, components/ui/sidebar.tsx, and     *)
(* hooks/use-mobile.ts.  Two flags say whether it is open, one for narrow   *)
(* windows, where it is a sheet over the page, and one for wide ones.  The  *)
(* style sheet knows the width of the window at once; the component learns  *)
(* of it from an event, later.                                              *)
(*                                                                          *)
(* A caller that controls the flag (open, onOpenChange) may take over the   *)
(* value it is handed or refuse it, and may change the flag itself.  Left   *)
(* out: sides, variants, sizes and colours.                                 *)
(****************************************************************************)
EXTENDS Integers, FiniteSets

VARIABLES
  parent,       \* who keeps the flag of wide windows: "none" is the provider itself
  collapsible,  \* property of Sidebar
  narrow,       \* the window is less than 768 pixels wide
  listening,    \* the first effects have run
  isMobile,     \* what useIsMobile returns
  openMobile, open,
  cookie        \* sidebar_state: "unset" or the flag last asked for

sidebarVars == <<parent, collapsible, narrow, listening, isMobile, openMobile, open, cookie>>

SidebarInit ==
  /\ parent \in {"none", "obeys", "refuses"} /\ collapsible \in {"offcanvas", "icon", "none"}
  /\ narrow \in BOOLEAN /\ open \in BOOLEAN /\ cookie = "unset"
  /\ listening = FALSE /\ isMobile = FALSE /\ openMobile = FALSE
----------------------------------------------------------------------------
Resize ==
  /\ narrow' = ~narrow
  /\ UNCHANGED <<parent, collapsible, listening, isMobile, openMobile, open, cookie>>

\* The effect of useIsMobile; until then it returns FALSE.
FirstEffect ==
  /\ ~listening /\ listening' = TRUE /\ isMobile' = narrow
  /\ UNCHANGED <<parent, collapsible, narrow, openMobile, open, cookie>>

\* The event of the media query, which reads the width anew.
MediaChange ==
  /\ listening /\ isMobile # narrow /\ isMobile' = narrow
  /\ UNCHANGED <<parent, collapsible, narrow, listening, openMobile, open, cookie>>

Text(flag) == IF flag THEN "true" ELSE "false"

\* The value goes to whoever keeps the flag, and into the cookie in any case.
setOpen(value) ==
  /\ open' = IF parent = "refuses" THEN open ELSE value
  /\ cookie' = Text(value)

\* Mutant of toggleSidebar: the flag of wide windows, whatever the layout.
toggleSidebar_Wide ==
  /\ listening /\ setOpen(~open)
  /\ UNCHANGED <<parent, collapsible, narrow, listening, isMobile, openMobile>>

toggleSidebar ==
  /\ listening
  /\ IF isMobile
     THEN openMobile' = ~openMobile /\ UNCHANGED <<open, cookie>>
     ELSE setOpen(~open) /\ UNCHANGED openMobile
  /\ UNCHANGED <<parent, collapsible, narrow, listening, isMobile>>

ParentSets ==
  /\ parent = "obeys" /\ open' = ~open
  /\ UNCHANGED <<parent, collapsible, narrow, listening, isMobile, openMobile, cookie>>
----------------------------------------------------------------------------
(* What is on the screen. *)

\* What useSidebar gives the parts of the sidebar.
contextValue ==
  [ state      |-> IF open THEN "expanded" ELSE "collapsed",
    isMobile   |-> isMobile,
    openMobile |-> openMobile ]

Placement ==
  IF collapsible = "none" THEN "fixed"
  ELSE IF contextValue.isMobile THEN "sheet" ELSE "desktop"

\* Ctrl or Cmd with b, wherever the focus is.
Shortcut == toggleSidebar

\* A button that the caller places on the page; it is behind the sheet while that is open.
SidebarTrigger == ~(Placement = "sheet" /\ openMobile) /\ toggleSidebar

\* onOpenChange of the sheet: Escape, or a click beside it.
CloseSheet ==
  /\ Placement = "sheet" /\ openMobile /\ openMobile' = FALSE
  /\ UNCHANGED <<parent, collapsible, narrow, listening, isMobile, open, cookie>>

\* A collapsed "offcanvas" is moved out of the window; the element of wide windows is
\* "hidden md:block".
InSight ==
  CASE Placement = "fixed"   -> TRUE
    [] Placement = "sheet"   -> contextValue.openMobile
    [] Placement = "desktop" ->
         ~narrow /\ (contextValue.state = "expanded" \/ collapsible = "icon")

\* data-collapsible, an attribute of the desktop element alone; under "icon" the
\* sidebar is as wide as its icons and the style hides all but the menu's buttons.
IconsOnly ==
  Placement = "desktop" /\ contextValue.state = "collapsed" /\ collapsible = "icon"

\* The tooltip of a menu button when the caller gives its text:
\* not hidden={state !== "collapsed" || isMobile}.
TooltipEnabled == contextValue.state = "collapsed" /\ ~contextValue.isMobile

\* What a menu button in sight shows, the pointer being over it.  `tooltip' is what the
\* caller gives it: "none", "text", or properties, which may set `hidden' themselves:
\* "shown" or "hidden".
SidebarMenuButton(tooltip) ==
  {"icon"}
    \cup (IF IconsOnly THEN {} ELSE {"text"})
    \cup (IF tooltip = "shown" \/ (tooltip = "text" /\ TooltipEnabled) THEN {"tooltip"} ELSE {})

\* The rail, at the edge of the sidebar; that of an "offcanvas" stays at the edge of the
\* window.
SidebarRail == (InSight \/ (Placement = "desktop" /\ ~narrow)) /\ toggleSidebar

SidebarNext ==
  \/ Resize \/ FirstEffect \/ MediaChange \/ ParentSets \/ CloseSheet
  \/ Shortcut \/ SidebarTrigger \/ SidebarRail

SidebarSpec == SidebarInit /\ [][SidebarNext]_sidebarVars
----------------------------------------------------------------------------
(* Properties. *)

SidebarTypeOK ==
  /\ parent \in {"none", "obeys", "refuses"} /\ collapsible \in {"offcanvas", "icon", "none"}
  /\ {narrow, listening, isMobile, openMobile, open} \subseteq BOOLEAN
  /\ cookie \in {"unset", "true", "false"}

\* However the window is resized and whichever flag a toggle reached before the event: a
\* menu button in sight shows its text or its tooltip, never both and never neither;
\* only a sidebar that does not collapse can show both (lines 173, 536-543).  Without a
\* caller that keeps the flag, the cookie, once set, holds what the flag is, so that a
\* page that starts from it starts as it was left (lines 76-89).
SidebarStates ==
  /\ InSight /\ collapsible # "none" =>
       ("text" \in SidebarMenuButton("text") <=> "tooltip" \notin SidebarMenuButton("text"))
  /\ parent = "none" => cookie \in {"unset", Text(open)}

Look == <<InSight, IconsOnly>>

\* A toggle reaches the flag of the layout on the screen (lines 91-94): what is in sight
\* changes, unless a caller refuses.  The one moment in which it does not is between the
\* narrowing of the window and its event, when neither layout is there.
TogglesShow ==
  [][toggleSidebar /\ collapsible # "none" /\ (isMobile \/ (~narrow /\ parent # "refuses"))
       => Look' # Look]_sidebarVars

\* Text or tooltip, a cookie that holds the flag, and toggles that can be seen.
SidebarCoherent == []SidebarStates /\ TogglesShow
====
