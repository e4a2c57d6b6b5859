------------------------------ MODULE Dashboard ------------------------------
(***************************************************************************)
(* The results page, src/src/dashboard/dashboard.js: init builds one tab   *)
(* for each simulation in data.js by running the same list of statements,  *)
(* then shows the tabs and listens to clicks.  init is one handler, taken  *)
(* here statement by statement because an exception in any of them ends it *)
(* and leaves the page hidden.                                             *)
(*                                                                         *)
(* A trace is a sequence of points, each a "number" or a "blank" (a line   *)
(* of the trace file without a value).  Sizes, labels, units and the rows  *)
(* of the summary column are left out: the model keeps what can stop init, *)
(* which series end up in which box, and which descriptions are open.      *)
(***************************************************************************)
EXTENDS Naturals, Sequences, FiniteSets

CONSTANTS
  Tabs,     \* number of simulations in data.js
  Pages,    \* what dashboard.js draws, and what graph-definitions.js configures
  Results,  \* what data.js may hold: for each tab and data source, a trace
  MaxOpen   \* bound of the model: descriptions open at a time

VARIABLES
  page, rawData,  \* one of Pages, one of Results: loaded before init
  status,         \* of init: "running", "shown", or "dead" after an exception
  tab, at,        \* the tab under construction and the statement to run in it
  currentSectionNumber, currentSubSectionNumber,
  tagged,       \* <<tab, source>> whose array also holds loadFactor and dataSourceName
  groupedData,  \* for each tab and group, the series drawn so far
  boxes,        \* the graph containers, in document order
  open,         \* the boxes whose description is displayed
  selected      \* the tab in view (jQuery UI)

counters == <<currentSectionNumber, currentSubSectionNumber>>
built == <<tagged, groupedData, boxes>>
view == <<open, selected>>
vars == <<page, rawData, status, tab, at, counters, built, view>>

-----------------------------------------------------------------------------
\* A source that data.js does not have, and the two keys drawChart adds to one.
Absent == <<"absent">>
Tags == <<"tag", "tag">>

\* What the shipped init does, and what the trace files are turned into.
Statements ==
  [do : {"section", "subsection", "nav"}, of : STRING, as : {""}]
    \cup [do : {"chart"}, of : STRING, as : {"line", "bar", "pie"}]
Points == {"number", "blank"}

ASSUME PagesAssumption ==
  /\ Tabs \in Nat
  /\ \A p \in Pages : p.script \in Seq(Statements)
  /\ \A p \in Pages, r \in Results, t \in 1..Tabs : \A i \in DOMAIN p.script :
       p.script[i].do = "chart" => r[t][p.script[i].of] \in Seq(Points) \cup {Absent}

GroupOf(p, source) == IF source \in DOMAIN p.dataGroup THEN p.dataGroup[source] ELSE source
GroupKey(source) == GroupOf(page, source)

Charted == {page.script[i].of : i \in {j \in DOMAIN page.script : page.script[j].do = "chart"}}

Groups == {GroupKey(source) : source \in Charted}

\* Ids are built from the counters; an inner container is looked up by the first
\* of these and created with the second.
ContainerId(group) == <<currentSectionNumber, currentSubSectionNumber, group, "">>
CreatedId(group) == <<currentSectionNumber, currentSubSectionNumber, group, "H">>

Init ==
  /\ page \in Pages /\ rawData \in Results
  /\ status = "running" /\ tab = 1 /\ at = 1
  /\ currentSectionNumber = 0 /\ currentSubSectionNumber = 0
  /\ tagged = {}
  /\ groupedData = [t \in 1..Tabs |-> [g \in Groups |-> <<>>]]
  /\ boxes = <<>> /\ open = {} /\ selected = 1

\* Mutation of StartSection: every tab numbers its sections from one again.
StartSectionPerTab ==
  /\ currentSectionNumber' = IF at = 1 THEN 1 ELSE currentSectionNumber + 1
  /\ currentSubSectionNumber' = 0

StartSection ==
  /\ currentSectionNumber' = currentSectionNumber + 1
  /\ currentSubSectionNumber' = 0

StartSubSection ==
  /\ currentSubSectionNumber' = currentSubSectionNumber + 1
  /\ UNCHANGED currentSectionNumber

\* Mutation of NavThrows: the tags are on the source, whichever tab charted it.
NavThrowsInAnyTab(source) == \E t \in 1..Tabs : <<t, source>> \in tagged

\* showNavData calls y.toString() on every key of the array, tags included; a
\* missing source has no keys.  (showNavDataSummation cannot fail.)
NavThrows(source) == <<tab, source>> \in tagged

\* drawChart writes to the array before it looks whether there is one, and
\* exist_description reads dataGroups[group] without a guard.
ChartThrows(source) ==
  \/ rawData[tab][source] = Absent
  \/ GroupKey(source) \notin page.configured

\* Mutation of Pushed: the groups do not belong to a tab.
PushedForAllTabs(group, series) ==
  [t \in 1..Tabs |-> [groupedData[t] EXCEPT ![group] = Append(@, series)]]

Pushed(group, series) == [groupedData EXCEPT ![tab][group] = Append(@, series)]

Keys(series) == rawData[series.tab][series.source] \o Tags

\* Mutation of Slices: the loop does not break at a key without a value.
SlicesToTheEnd(series) == Keys(series)

\* The loop of showPieChart ends at the first key that has no y.
Slices(series) ==
  LET keys == Keys(series)
      end == CHOOSE i \in DOMAIN keys : keys[i] = "tag" /\ \A j \in 1..(i-1) : keys[j] # "tag"
  IN SubSeq(keys, 1, end - 1)

\* showLineChart and showBarChart draw every series of the group, and the two
\* tags as points; showPieChart draws the first.
Plot(kind, list) ==
  IF kind = "pie"
  THEN <<[series |-> list[1], points |-> Slices(list[1])]>>
  ELSE [i \in DOMAIN list |-> [series |-> list[i], points |-> Keys(list[i])]]

NewBox(group) == [tab |-> tab, id |-> CreatedId(group), group |-> group, plot |-> <<>>, totals |-> <<>>]

\* Mutation of Found: the whole document is searched, for the group alone.
FoundAnywhere(group) == {k \in DOMAIN boxes : boxes[k].group = group}

\* createGraphContainer looks in the tab for the id of the group.
Found(group) == {k \in DOMAIN boxes : boxes[k].tab = tab /\ boxes[k].id = ContainerId(group)}

Firsts(S) == {k \in S : \A j \in S : k <= j}

\* showPieChart puts the total behind the first header of the document that has
\* the header's id.
WithTotal(all, group) ==
  LET header == Firsts({k \in DOMAIN all : all[k].id = CreatedId(group)})
  IN [k \in DOMAIN all |-> IF k \in header
                           THEN [all[k] EXCEPT !.totals = Append(@, tab)] ELSE all[k]]

\* The boxes after the series in list are drawn.
Drawn(kind, group, list) ==
  LET all == IF Found(group) = {} THEN Append(boxes, NewBox(group)) ELSE boxes
      inner == IF Found(group) = {} THEN {Len(all)} ELSE Firsts(Found(group))
      plotted == [k \in DOMAIN all |-> IF k \in inner
                                       THEN [all[k] EXCEPT !.plot = Plot(kind, list)] ELSE all[k]]
  IN IF kind = "pie" THEN WithTotal(plotted, group) ELSE plotted

DrawChart(source, kind) ==
  LET group == GroupKey(source)
  IN /\ tagged' = tagged \cup {<<tab, source>>}
     /\ groupedData' = Pushed(group, [tab |-> tab, source |-> source])
     /\ boxes' = Drawn(kind, group, groupedData'[tab][group])

Statement(s) ==
  \/ s.do = "section" /\ StartSection /\ UNCHANGED built
  \/ s.do = "subsection" /\ StartSubSection /\ UNCHANGED built
  \/ s.do = "nav" /\ ~NavThrows(s.of) /\ UNCHANGED <<counters, built>>
  \/ s.do = "chart" /\ ~ChartThrows(s.of) /\ DrawChart(s.of, s.as) /\ UNCHANGED counters

RunStatement ==
  /\ status = "running" /\ tab <= Tabs /\ at <= Len(page.script)
  /\ Statement(page.script[at])
  /\ at' = at + 1
  /\ UNCHANGED <<page, rawData, status, tab, view>>

\* Nothing catches the exception.  What the statement did before it is in a page
\* that is never shown, and is left out.
Throw ==
  /\ status = "running" /\ tab <= Tabs /\ at <= Len(page.script)
  /\ LET s == page.script[at]
     IN \/ s.do = "nav" /\ NavThrows(s.of)
        \/ s.do = "chart" /\ ChartThrows(s.of)
  /\ status' = "dead"
  /\ UNCHANGED <<page, rawData, tab, at, counters, built, view>>

NextTab ==
  /\ status = "running" /\ tab <= Tabs /\ at > Len(page.script)
  /\ tab' = tab + 1 /\ at' = 1
  /\ UNCHANGED <<page, rawData, status, counters, built, view>>

Show ==
  /\ status = "running" /\ tab > Tabs
  /\ status' = "shown"
  /\ UNCHANGED <<page, rawData, tab, at, counters, built, view>>

Initialise == RunStatement \/ Throw \/ NextTab \/ Show

HasDescription(k) == boxes[k].group \in page.described

InView == {k \in DOMAIN boxes : boxes[k].tab = selected}

\* show_description.  The icon of a box opens its description and closes none;
\* its header opens it if it is closed; any other click closes all of them.
ClickIcon ==
  /\ \E k \in InView : HasDescription(k) /\ open' = open \cup {k}
  /\ UNCHANGED selected

ClickHeader ==
  /\ \E k \in InView :
       open' = IF HasDescription(k) /\ k \notin open THEN open \cup {k} ELSE {}
  /\ UNCHANGED selected

\* A click on the link of a tab selects it and then reaches the window.
ClickTab == selected' \in 1..Tabs /\ open' = {}

Click ==
  /\ status = "shown"
  /\ ClickIcon \/ ClickHeader \/ ClickTab
  /\ Cardinality(open') <= MaxOpen
  /\ UNCHANGED <<page, rawData, status, tab, at, counters, built>>

Next == Initialise \/ Click

\* init runs to its end, or to an exception.
Spec == Init /\ [][Next]_vars /\ WF_vars(Initialise)
=============================================================================
