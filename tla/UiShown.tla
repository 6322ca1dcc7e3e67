-------------------------------- MODULE UiShown --------------------------------
(****************************************************************************)
(* The components without state: one of them, `screen', is given its        *)
(* properties, `input', and shows what its operator of UiChart or UiInputs  *)
(* returns.                                                                 *)
(****************************************************************************)
EXTENDS UiChart, UiInputs

VARIABLES
  screen,
  input

shownVars == <<screen, input>>

\* What the types of the components' properties, and the libraries that hand them on,
\* allow; a form and a toggle group may be given anything.
Given ==
  /\ screen = "chart" => ChartGiven(input.config, input.p)
  /\ screen = "field" => input.errors \in Seq(ToSet(input.errors))
  /\ screen = "slider" =>
       \A v \in {input.value, input.defaultValue} : v # Absent => v \in Seq(ToSet(v))
  /\ screen = "calendar" => input.from \in Int /\ input.to \in Int

ShownSpec == Given /\ [][UNCHANGED shownVars]_shownVars
----------------------------------------------------------------------------
(* Properties. *)

\* The components show what they are given: SeriesNamed of UiChart; FormDescribed,
\* ErrorsListed, ThumbsEnough, TogglesAlike and DaysMarked of UiInputs.
ShownAsGiven ==
  /\ screen = "chart" => SeriesNamed(input.config, input.p)
  /\ screen = "form" => FormDescribed(input)
  /\ screen = "field" => ErrorsListed(input.children, input.errors)
  /\ screen = "slider" => ThumbsEnough(input.value, input.defaultValue, 0, 100)
  /\ screen = "toggles" => TogglesAlike(input.group, input.items)
  /\ screen = "calendar" => DaysMarked(input.from, input.to, input.ranged)
====
