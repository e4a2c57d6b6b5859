--------------------------- MODULE DashboardPages ---------------------------
(***************************************************************************)
(* What the shipped dashboard.js draws in each tab, and what               *)
(* graph-definitions.js configures: the data of Dashboard.                 *)
(***************************************************************************)
EXTENDS Sequences

Heading(depth) == <<[do |-> depth, of |-> "", as |-> ""]>>
Nav(sources) == [i \in DOMAIN sources |-> [do |-> "nav", of |-> sources[i], as |-> ""]]
Charts(kind, sources) ==
  [i \in DOMAIN sources |-> [do |-> "chart", of |-> sources[i], as |-> kind]]

SummaryPart ==
  Heading("section")
    \o Nav(<<"simulation", "parameters", "loadSummary", "taskSummary", "energySummary">>)
    \o Charts("pie", <<"energySummary">>)

DataCenterPart ==
  Heading("section")
    \o Heading("subsection") \o Charts("line", <<"dcLoad", "dcLoadMem", "dcLoadStor">>)
    \o Heading("subsection") \o Charts("line", <<"dcServLoad", "dcServLoadMem", "dcServLoadStor">>)
                             \o Charts("bar", <<"dcServTasks", "dcServTasksFailed">>)
    \o Heading("subsection") \o Charts("line", <<"dcVmLoad", "dcVmLoadMem", "dcVmLoadStor">>)
                             \o Charts("bar", <<"dcVmTasks", "dcVmTasksFailed">>)

NetworkPart ==
  Heading("section")
    \o Heading("subsection")
    \o Charts("bar", <<"link_HC3_load", "link_C3C2_load", "link_C2C1_load", "queue_HC3_pkts_avg">>)
    \o Charts("line", <<"link_HC3_load_time", "queue_HC3_pkts_time">>)
    \o Heading("subsection")
    \o Charts("bar", <<"link_C1C2_load", "link_C2C3_load", "link_C3H_load">>)

EnergyPart ==
  Heading("section")
    \o Charts("line", <<"dcPower">>)
    \o Charts("bar", <<"eServers", "eCoreSwitches", "eAggrSwitches", "eAccessSwitches">>)

\* dataSources[...].dataGroup, the only grouping that is configured.
DataGroupOf == [serv_load_time |-> "load_times"]

\* The keys of dataGroups with a description ...
Described ==
  {"dcServLoad", "dcServLoadMem", "dcServLoadStor", "dcServTasks", "dcServTasksFailed",
   "dcVmTasksFailed", "eAccessSwitches", "eAggrSwitches", "eCoreSwitches", "eServers",
   "dcPower", "link_C1C2_load", "link_C2C1_load", "link_C2C3_load", "link_C3C2_load",
   "link_C3H_load", "link_HC3_load", "queue_HC3_pkts_avg", "link_HC3_load_time",
   "queue_HC3_pkts_time", "npue", "iscl", "alurCore", "alurAgg", "alurAcc"}

\* ... and all of them.
Configured == Described \cup
  {"dcLoad", "dcLoadMem", "dcLoadStor", "dcVmLoad", "dcVmLoadMem", "dcVmLoadStor",
   "dcVmTasks", "energySummary", "link_load", "load_times", "queue_C3C2-0_pkts",
   "queue_C3C2-1_pkts"}

Shipped ==
  [script |-> SummaryPart \o DataCenterPart \o NetworkPart \o EnergyPart,
   dataGroup |-> DataGroupOf, described |-> Described, configured |-> Configured]
=============================================================================
