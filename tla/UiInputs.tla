------------------------------- MODULE UiInputs --------------------------------
(****************************************************************************)
(* Inputs of the component library that compute what they show:             *)
(* components/ui form, field, slider, toggle-group and calendar.  The state *)
(* is with libraries that are external (React Hook Form, Radix, React       *)
(* DayPicker); each component is an operator of what they and the caller    *)
(* hand it.  `Absent' is a property that is not given.                      *)
(****************************************************************************)
EXTENDS Integers, Sequences, FiniteSets, SequencesExt, Lists

CONSTANTS
  Absent,
  Blank     \* a text of length 0

ASSUME InputsAssumption == Absent # "default"

\* JavaScript's falsy values among texts.
NoText == {Absent, Blank}
----------------------------------------------------------------------------
(* form: a field f has its name, the errors of its form by name (Absent or a message,
   which may be Blank), the id of its item, the parts the caller placed and the text it
   gave FormMessage. *)

\* FormField hands the name down.
FormField(f) == f.errors[f.name]

useFormField(f) ==
  [ error             |-> FormField(f),
    formItemId        |-> <<f.id, "form-item">>,
    formDescriptionId |-> <<f.id, "form-item-description">>,
    formMessageId     |-> <<f.id, "form-item-message">> ]

FormLabel(f) ==
  [htmlFor |-> useFormField(f).formItemId, error |-> useFormField(f).error # Absent]

FormControl(f) ==
  LET field == useFormField(f)
  IN  [ id          |-> field.formItemId,
        describedby |-> {field.formDescriptionId}
                          \cup IF field.error = Absent THEN {} ELSE {field.formMessageId},
        invalid     |-> field.error # Absent ]

\* Each with the id it has on the page and the text it shows, or no element.
FormDescription(f) ==
  IF "description" \in f.placed THEN {useFormField(f).formDescriptionId} ELSE {}

FormMessage(f) ==
  LET field == useFormField(f)
      body == IF field.error # Absent THEN field.error ELSE f.children
  IN  IF "message" \in f.placed /\ body \notin NoText
      THEN {[id |-> field.formMessageId, text |-> body]} ELSE {}

\* The ids that elements of the item have.
FormItem(f) == {FormControl(f).id} \cup FormDescription(f) \cup {m.id : m \in FormMessage(f)}
----------------------------------------------------------------------------
(* field *)

\* A Map keyed by message: in the order in which the messages appear first.
uniqueErrors(errors) ==
  RowsAt(errors, {i \in DOMAIN errors : \A j \in 1 .. i - 1 : errors[j] # errors[i]})

\* The texts shown and whether there is an alert around them: what the caller put inside
\* stands for the errors, and two kinds of empty message make a list without an item.
FieldError(children, errors) ==
  LET unique == uniqueErrors(errors)
  IN  IF children \notin NoText THEN [alert |-> TRUE, lines |-> <<children>>]
      ELSE [ alert |-> IF Len(unique) = 1 THEN unique[1] \notin NoText ELSE unique # <<>>,
             lines |-> RowsAt(unique, {i \in DOMAIN unique : unique[i] \notin NoText}) ]
----------------------------------------------------------------------------
(* slider, toggle-group, calendar *)

\* Values are sequences; without any the slider draws a thumb at each end.
SliderThumbs(value, defaultValue, min, max) ==
  Len(CASE value # Absent -> value
        [] value = Absent /\ defaultValue # Absent -> defaultValue
        [] OTHER -> <<min, max>>)

\* What Radix keeps: one value, at the start, when the caller gives none.
SliderValues(value, defaultValue, min) ==
  CASE value # Absent -> value
    [] value = Absent /\ defaultValue # Absent -> defaultValue
    [] OTHER -> <<min>>

\* The classes of a look, where what is absent is the default.
toggleVariants(look) ==
  [a \in {"variant", "size"} |-> IF look[a] = Absent THEN "default" ELSE look[a]]

\* A toggle on its own has no attributes.
Toggle(look) == [data |-> [a \in {"variant", "size"} |-> Absent], classes |-> toggleVariants(look)]

\* An item of a group has the group's look, and where the group has none, its own: in the
\* attributes by which its style sheet squares its corners and in its classes.
ToggleGroupItem(group, item) ==
  LET look == [a \in {"variant", "size"} |-> IF group[a] # Absent THEN group[a] ELSE item[a]]
  IN  [data |-> look, classes |-> toggleVariants(look)]

\* The marks of a day under the modifiers of React DayPicker, of which the range's are
\* set in a range only.
CalendarDayButton(modifiers) ==
  { mark \in {"single", "range_start", "range_middle", "range_end"} :
      IF mark = "single"
      THEN "selected" \in modifiers
           /\ modifiers \cap {"range_start", "range_middle", "range_end"} = {}
      ELSE mark \in modifiers }

\* DayPicker's modifiers of a day, in a selection from its first to its last day.
Modifiers(day, from, to, ranged) ==
  {m \in {"selected", "range_start", "range_middle", "range_end"} :
     /\ day \in from .. to
     /\ m = "range_start" => ranged /\ day = from
     /\ m = "range_middle" => ranged /\ day \in from + 1 .. to - 1
     /\ m = "range_end" => ranged /\ day = to}
----------------------------------------------------------------------------
(* Properties. *)

\* An error of the field, not of another one of its form, is on the page where
\* FormMessage is placed, and the control names it among its descriptions; without an
\* error it names no message, whatever text stands there; the label leads to the control
\* (form.tsx:45-66, 90-156).
FormDescribed(f) ==
  /\ f.errors[f.name] \notin NoText /\ "message" \in f.placed =>
       \E m \in FormMessage(f) :
         /\ m.text = f.errors[f.name]
         /\ m.id \in FormControl(f).describedby \cap FormItem(f)
  /\ f.errors[f.name] = Absent => \A m \in FormMessage(f) : m.id \notin FormControl(f).describedby
  /\ FormLabel(f).htmlFor \in FormItem(f) /\ FormLabel(f).error = FormControl(f).invalid

\* What the caller put inside is all that is shown; without it every message among the
\* errors is shown once; either way in an alert (field.tsx:184-233).
ErrorsListed(children, errors) ==
  LET shown == FieldError(children, errors)
  IN  /\ ToSet(shown.lines) =
           IF children \notin NoText THEN {children} ELSE ToSet(errors) \ NoText
      /\ Len(shown.lines) = Cardinality(ToSet(shown.lines))
      /\ shown.lines # <<>> => shown.alert

\* Every value has a thumb to move it by (slider.tsx:16-24, 52-58).
ThumbsEnough(value, defaultValue, min, max) ==
  Len(SliderValues(value, defaultValue, min)) <= SliderThumbs(value, defaultValue, min, max)

\* The items of a group that sets a look all have it, whatever they ask for themselves; an
\* item has the classes of the look that its attributes name; and where neither sets one
\* it looks as a toggle on its own (toggle-group.tsx:57-69, toggle.tsx:22-42).
TogglesAlike(group, items) ==
  \A a \in {"variant", "size"}, i, j \in items :
    LET one == ToggleGroupItem(group, i)
        other == ToggleGroupItem(group, j)
    IN  /\ group[a] # Absent => one.classes[a] = other.classes[a] /\ one.data[a] = group[a]
        /\ one.data[a] # Absent => one.classes[a] = one.data[a]
        /\ group[a] = Absent => one.classes[a] = Toggle(i).classes[a]

\* A day bears a mark exactly when it is selected, and several only where a range starts
\* and ends on the same day (calendar.tsx:201-209).
DaysMarked(from, to, ranged) ==
  \A day \in from - 1 .. to + 1 :
    LET marks == CalendarDayButton(Modifiers(day, from, to, ranged))
    IN  /\ marks # {} <=> day \in from .. to
        /\ Cardinality(marks) > 1 => marks = {"range_start", "range_end"} /\ from = to
====
