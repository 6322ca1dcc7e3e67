-------------------------------- MODULE UiChart --------------------------------
(****************************************************************************)
(* The chart of the component library, components/ui/chart.tsx: how the     *)
(* style, the tooltip and the legend find the entry of the caller's         *)
(* configuration that belongs to a series.  The components keep no state;   *)
(* each is an operator of its properties.                                   *)
(*                                                                          *)
(* Recharts, which is external, hands the tooltip and the legend a list of  *)
(* items each.  An item is a record of `own', the texts among its fields by *)
(* their names (dataKey, name, type, color, fill, ... and value, where that *)
(* is a text), and `row', the texts among the fields of the object it       *)
(* stands for, its `payload'.  An entry of the configuration has label,     *)
(* icon, color and theme.  `None' is a property that is not given.  Left    *)
(* out: formatters, classes, figures and the shape of the indicator.        *)
(****************************************************************************)
EXTENDS Integers, Sequences, FiniteSets, SequencesExt, Lists

CONSTANT None

\* x || y
Or(x, y) == IF x # None THEN x ELSE y

\* A field of an item, or of its row.
Field(texts, f) == IF f \in DOMAIN texts THEN texts[f] ELSE None

THEMES == {"light", "dark"}

NoEntry == [label |-> None, icon |-> None, color |-> None, theme |-> None]

\* Mutant of getPayloadConfigFromPayload: the data are not looked at.
getPayloadConfigFromPayload_KeyOnly(config, item, key) ==
  IF key \in DOMAIN config THEN config[key] ELSE NoEntry

\* The key may name a field, of the item or of its row, that holds the name of the
\* entry; it is the name itself otherwise.
getPayloadConfigFromPayload(config, item, key) ==
  LET configLabelKey == Or(Or(Field(item.own, key), Field(item.row, key)), key)
  IN  CASE configLabelKey \in DOMAIN config -> config[configLabelKey]
        [] configLabelKey \notin DOMAIN config /\ key \in DOMAIN config -> config[key]
        [] OTHER -> NoEntry

\* The variables --color-<key> of the style sheet, by theme.
ChartStyle(config) ==
  [t \in THEMES |->
     LET Color(e) == IF e.theme # None THEN Or(e.theme[t], e.color) ELSE e.color
     IN  [k \in {k \in DOMAIN config : Color(config[k]) # None} |-> Color(config[k])]]
----------------------------------------------------------------------------
\* Items that are drawn.
Drawn(items) ==
  RowsAt(items, {i \in DOMAIN items : Field(items[i].own, "type") # "none"})

\* By what the tooltip and the legend look the entry of an item up: a name given to the
\* series comes first in the one and is ignored by the other.
tooltipKey(item, nameKey) ==
  Or(Or(nameKey, Field(item.own, "name")), Or(Field(item.own, "dataKey"), "value"))

legendKey(item, nameKey) == Or(nameKey, Or(Field(item.own, "dataKey"), "value"))

\* p: the properties of ChartTooltipContent.  Without a labelKey, the text of the axis.
tooltipLabel(config, p) ==
  LET item == p.payload[1]
      key == Or(Or(p.labelKey, Field(item.own, "dataKey")), Or(Field(item.own, "name"), "value"))
  IN  IF p.labelKey = None /\ p.label # None
      THEN IF p.label \in DOMAIN config THEN Or(config[p.label].label, p.label) ELSE p.label
      ELSE getPayloadConfigFromPayload(config, item, key).label

\* The label above the rows, or in the row when it is the only one.
ChartTooltipContent(config, p) ==
  LET nestLabel == Len(p.payload) = 1 /\ p.indicator # "dot"
      label == IF p.hideLabel THEN None ELSE tooltipLabel(config, p)
      Row(item) ==
        LET entry == getPayloadConfigFromPayload(config, item, tooltipKey(item, p.nameKey))
        IN  [ label |-> IF nestLabel THEN label ELSE None,
              icon  |-> entry.icon,
              color |-> Or(p.color, Or(Field(item.row, "fill"), Field(item.own, "color"))),
              name  |-> Or(entry.label, Field(item.own, "name")) ]
      drawn == Drawn(p.payload)
  IN  IF ~p.active \/ p.payload = <<>> THEN [label |-> None, rows |-> <<>>]
      ELSE [ label |-> IF nestLabel THEN None ELSE label,
             rows  |-> [i \in DOMAIN drawn |-> Row(drawn[i])] ]

ChartLegendContent(config, items, nameKey, hideIcon) ==
  LET Entry(item) ==
        LET entry == getPayloadConfigFromPayload(config, item, legendKey(item, nameKey))
        IN  [ name  |-> entry.label,
              icon  |-> IF hideIcon THEN None ELSE entry.icon,
              color |-> Field(item.own, "color") ]
      drawn == Drawn(items)
  IN  [i \in DOMAIN drawn |-> Entry(drawn[i])]

\* The container hands one configuration to the style and, by its context, to the tooltip
\* and the legend in the chart, which have items and a nameKey each: p.payload and
\* p.nameKey the one, p.legend and p.legendNameKey the other.
ChartContainer(config, p) ==
  [ style   |-> ChartStyle(config),
    tooltip |-> ChartTooltipContent(config, p),
    legend  |-> ChartLegendContent(config, p.legend, p.legendNameKey, FALSE) ]

\* What a chart may be given.  The keys of a configuration and the texts of an item are
\* texts, not empty, and a theme has a colour for each of THEMES.
ChartGiven(config, p) ==
  /\ None \notin DOMAIN config
  /\ \A k \in DOMAIN config, t \in THEMES :
       config[k].theme # None => config[k].theme[t] # None
  /\ p.payload \in Seq(ToSet(p.payload)) /\ p.legend \in Seq(ToSet(p.legend))
  /\ \A item \in ToSet(p.payload) \cup ToSet(p.legend) :
       /\ \A f \in DOMAIN item.own : item.own[f] # None
       /\ \A f \in DOMAIN item.row : item.row[f] # None
----------------------------------------------------------------------------
(* Properties. *)

\* The texts that an item and its row hold in a field.
Held(item, f) == {texts[f] : texts \in {t \in {item.own, item.row} : f \in DOMAIN t}}

\* A key means the entry e of a configuration for an item when every field of that name
\* holds e, or when it is e and no such field holds the name of another entry.
Means(config, item, key, e) ==
  Held(item, key) = {e} \/ (key = e /\ Held(item, key) \cap DOMAIN config \subseteq {e})

\* A series bears the label of the entry its key means, in the tooltip and in the legend,
\* each by its own key, so that they name it alike where both keys mean one entry; series
\* that are hidden in both or in neither are listed in both or in neither (lines 131-152,
\* 182-186, 234, 280-303, 312-348).
NamedByEntry(config, p) ==
  LET chart == ChartContainer(config, p)
      rows == chart.tooltip.rows
      Hidden(items) == {i \in DOMAIN items : Field(items[i].own, "type") = "none"}
      tips == Drawn(p.payload)
      marks == Drawn(p.legend)
  IN  /\ p.active => \A i \in DOMAIN tips, e \in DOMAIN config :
           Means(config, tips[i], tooltipKey(tips[i], p.nameKey), e) /\ config[e].label # None
             => rows[i].name = config[e].label
      /\ \A i \in DOMAIN marks, e \in DOMAIN config :
           Means(config, marks[i], legendKey(marks[i], p.legendNameKey), e)
             => chart.legend[i].name = config[e].label
      /\ p.active /\ Len(p.payload) = Len(p.legend) /\ Hidden(p.payload) = Hidden(p.legend)
           => Len(rows) = Len(chart.legend)

\* The text of the axis is in the tooltip once, above the rows or in the only one of them
\* (lines 139-142, 171, 180, 232).
LabelledOnce(config, p) ==
  LET tooltip == ChartTooltipContent(config, p)
      labels == (IF tooltip.label # None THEN 1 ELSE 0)
                + Cardinality({i \in DOMAIN tooltip.rows : tooltip.rows[i].label # None})
  IN  p.active /\ p.label # None /\ p.labelKey = None /\ ~p.hideLabel /\ Drawn(p.payload) # <<>>
        => labels = 1

\* A series has its entry's label wherever it is named, and no colour is known in one
\* theme alone (lines 72-101).
SeriesNamed(config, p) ==
  /\ NamedByEntry(config, p)
  /\ LabelledOnce(config, p)
  /\ DOMAIN ChartStyle(config)["light"] = DOMAIN ChartStyle(config)["dark"]
====
