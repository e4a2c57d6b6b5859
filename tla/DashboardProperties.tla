------------------------- MODULE DashboardProperties -------------------------
(***************************************************************************)
(* What must be true of the results page (Dashboard).                      *)
(***************************************************************************)
EXTENDS Dashboard

IsChart(p, i) == p.script[i].do = "chart"
SameGroup(p, i, j) == GroupOf(p, p.script[i].of) = GroupOf(p, p.script[j].of)

\* Two conditions on what a page draws, which the shipped one meets: charts belong
\* to sections, and those of one group to different subsections ...
ChartsApart(p) ==
  \A i \in DOMAIN p.script : IsChart(p, i) =>
    /\ \E k \in 1..(i-1) : p.script[k].do = "section"
    /\ \A j \in 1..(i-1) : IsChart(p, j) /\ SameGroup(p, i, j) =>
         \E k \in (j+1)..(i-1) : p.script[k].do \in {"section", "subsection"}

\* ... and a pie is the only chart of its group.
PiesAlone(p) ==
  \A i, j \in DOMAIN p.script :
    i # j /\ IsChart(p, i) /\ IsChart(p, j) /\ SameGroup(p, i, j) => p.script[i].as # "pie"

\* Two more, without which init raises an exception whatever data.js holds: a
\* source is listed before it is charted, and every group is configured.
ListedFirst(p) ==
  \A i \in DOMAIN p.script : \A j \in 1..(i-1) :
    p.script[i].do = "nav" /\ IsChart(p, j) => p.script[i].of # p.script[j].of

GroupsConfigured(p) ==
  \A i \in DOMAIN p.script : IsChart(p, i) => GroupOf(p, p.script[i].of) \in p.configured

\* The ids of the containers are unique in the document, although all tabs draw
\* the same groups: showPieChart finds its header by id alone.
IdsUnique == \A j, k \in DOMAIN boxes : j # k => boxes[j].id # boxes[k].id

\* A box shows series of its own simulation and of its own group only.
SeriesBelong ==
  \A k \in DOMAIN boxes : \A i \in DOMAIN boxes[k].plot :
    LET series == boxes[k].plot[i].series
    IN series.tab = boxes[k].tab /\ GroupKey(series.source) = boxes[k].group

\* A pie has one slice for each point of its trace, blank or not, and no slice
\* for the two properties that drawChart adds to the same array; its total, which
\* is placed through the document, is the one of its own tab.
PiesAreWhole ==
  \A i \in DOMAIN page.script : \A k \in DOMAIN boxes :
    page.script[i].as = "pie" /\ boxes[k].group = GroupKey(page.script[i].of) =>
      /\ boxes[k].totals = <<boxes[k].tab>>
      /\ boxes[k].plot[1].points = rawData[boxes[k].tab][page.script[i].of]

\* The page is shown only when every chart of every simulation is there: a
\* result is never left out in silence.
ShownWhole ==
  status = "shown" =>
    \A t \in 1..Tabs : \A source \in Charted :
      \E k \in DOMAIN boxes : \E i \in DOMAIN boxes[k].plot :
        boxes[k].tab = t /\ boxes[k].plot[i].series = [tab |-> t, source |-> source]

\* Sources configured to share a group share one graph in their subsection.
GroupsShareAGraph ==
  \A j, k \in DOMAIN boxes :
    boxes[j].tab = boxes[k].tab /\ boxes[j].id = boxes[k].id => j = k

\* If the traces of every simulation are there, blank lines or not, the page
\* appears.
Complete == \A t \in 1..Tabs : \A source \in Charted : rawData[t][source] # Absent

PageAppears == Complete ~> (status = "shown")
=============================================================================
