------------------------------ MODULE UiCarousel -------------------------------
(****************************************************************************)
(* The carousel of the component library, components/ui/carousel.tsx, over  *)
(* the Embla engine, which is external: it keeps the slides and the one     *)
(* selected, says "select" when that changes and "reInit" when the slides   *)
(* or the options do.  Its instance, `api', appears after the first effects *)
(* and goes, listeners and all, when the carousel is unmounted.  The        *)
(* component keeps what its two buttons may do, as of the last event.       *)
(****************************************************************************)
EXTENDS Integers

CONSTANT MaxSlides      \* bound

ASSUME CarouselAssumption == MaxSlides \in Nat \ {0}

VARIABLES
  slides, selected,     \* the engine: how many, and which from 0
  attached,             \* api is set and the effect of lines 94-103 has run
  orientation,
  canScrollPrev, canScrollNext

carouselVars == <<slides, selected, attached, orientation, canScrollPrev, canScrollNext>>

CarouselInit ==
  /\ slides \in 0 .. MaxSlides /\ selected = 0 /\ attached = FALSE
  /\ orientation \in {"horizontal", "vertical"}
  /\ canScrollPrev = FALSE /\ canScrollNext = FALSE

\* The engine's own answers, without the option to loop.
CanPrev(n, i) == i > 0
CanNext(n, i) == i < n - 1

\* onSelect, in the state the engine is in after the event.
onSelect ==
  /\ canScrollPrev' = CanPrev(slides', selected')
  /\ canScrollNext' = CanNext(slides', selected')

\* The effects that wait for the api: the caller gets it (setApi), the buttons are set
\* and the component listens.
Attach ==
  /\ ~attached /\ attached' = TRUE
  /\ UNCHANGED <<slides, selected, orientation>> /\ onSelect
----------------------------------------------------------------------------
\* The engine moves, and says "select".
Select(i) ==
  /\ selected' = i /\ UNCHANGED <<slides, attached, orientation>> /\ onSelect

\* A press of the buttons, which are disabled when there is nowhere to go.
scrollPrev == attached /\ canScrollPrev /\ CanPrev(slides, selected) /\ Select(selected - 1)
scrollNext == attached /\ canScrollNext /\ CanNext(slides, selected) /\ Select(selected + 1)

\* handleKeyDown: left and right, for a vertical carousel too, and whatever the buttons
\* say.  The engine does not go past an end.
handleKeyDown ==
  /\ attached
  /\ \/ CanPrev(slides, selected) /\ Select(selected - 1)
     \/ CanNext(slides, selected) /\ Select(selected + 1)

\* The pointer drags the engine to a slide.
Drag == attached /\ \E i \in 0 .. slides - 1 : i # selected /\ Select(i)

\* Mutant of ReInit: nobody listens to "reInit".
ReInit_Unheard(n) ==
  /\ slides' = n /\ selected' = (IF selected < n THEN selected ELSE IF n = 0 THEN 0 ELSE n - 1)
  /\ UNCHANGED <<attached, orientation, canScrollPrev, canScrollNext>>

\* The slides are others: the engine keeps its place as far as it can, and says
\* "reInit".
ReInit(n) ==
  /\ slides' = n /\ selected' = (IF selected < n THEN selected ELSE IF n = 0 THEN 0 ELSE n - 1)
  /\ UNCHANGED <<attached, orientation>>
  /\ IF attached THEN onSelect ELSE UNCHANGED <<canScrollPrev, canScrollNext>>

\* The caller turns the carousel: another option of the engine, so "reInit" again.
Turn ==
  /\ orientation' = IF orientation = "horizontal" THEN "vertical" ELSE "horizontal"
  /\ UNCHANGED <<slides, selected, attached>>
  /\ IF attached THEN onSelect ELSE UNCHANGED <<canScrollPrev, canScrollNext>>

CarouselNext ==
  \/ Attach \/ scrollPrev \/ scrollNext \/ handleKeyDown \/ Drag \/ Turn
  \/ \E n \in 0 .. MaxSlides : n # slides /\ ReInit(n)

CarouselSpec == CarouselInit /\ [][CarouselNext]_carouselVars
----------------------------------------------------------------------------
(* Where the slides are.  The orientation goes two ways: into the options of the engine,
   over an axis that the caller's options may name, and by the context to the layout. *)

engineOptions(opts) == [opts EXCEPT !.axis = IF orientation = "horizontal" THEN "x" ELSE "y"]

\* The row or column of slides, moved back by the gap before the first of them.
CarouselContent ==
  IF orientation = "horizontal" THEN [flow |-> "row", back |-> "left"]
  ELSE [flow |-> "column", back |-> "top"]

\* The side on which a slide has its gap.
CarouselItem == IF orientation = "horizontal" THEN "left" ELSE "top"
----------------------------------------------------------------------------
(* Properties. *)

CarouselTypeOK ==
  /\ slides \in 0 .. MaxSlides /\ selected \in 0 .. MaxSlides
  /\ {attached, canScrollPrev, canScrollNext} \subseteq BOOLEAN
  /\ orientation \in {"horizontal", "vertical"}

\* Once attached, a button is enabled exactly when the engine has a slide on its side,
\* after presses, keys and drags and after slides were added or taken away under the
\* one selected (lines 62-66, 94-103); before, both are disabled.
CarouselButtons ==
  /\ canScrollPrev = (attached /\ CanPrev(slides, selected))
  /\ canScrollNext = (attached /\ CanNext(slides, selected))
  /\ selected \in 0 .. slides - 1 \/ slides = 0

\* The engine scrolls along the slides, and the gap of the first is taken back, turned or
\* not and whatever axis the caller's options name (lines 52-58, 109-110, 135-170).
LaidAlong ==
  /\ \A axis \in {"unset", "x", "y"} :
       engineOptions([axis |-> axis]).axis = "x" <=> CarouselContent.flow = "row"
  /\ CarouselContent.back = CarouselItem

\* The buttons and the layout agree with the engine.
CarouselAgrees == CarouselButtons /\ LaidAlong
====
