----------------------------- MODULE MCDashboard -----------------------------
(***************************************************************************)
(* Instances of Dashboard with two simulations: the shipped page, and a    *)
(* page with two sources in one group.                                     *)
(***************************************************************************)
EXTENDS DashboardProperties, DashboardPages, TLC

\* Two charts of one group, configured as graph-definitions.js says.
Grouped ==
  [script |-> Heading("section") \o Charts("line", <<"serv_load_time", "dcServLoad", "dcLoad">>),
   dataGroup |-> [serv_load_time |-> "load_times", dcServLoad |-> "load_times"],
   described |-> Described, configured |-> Configured]

ASSUME ShippedAssumption ==
  ChartsApart(Shipped) /\ PiesAlone(Shipped) /\ ListedFirst(Shipped) /\ GroupsConfigured(Shipped)

MCShipped == {Shipped}
MCGrouped == {Grouped}

Sources(p) == {p.script[i].of : i \in DOMAIN p.script} \ {""}
Whole(p) == [t \in 1..Tabs |-> [s \in Sources(p) |-> <<"number", "number">>]]

\* One trace is missing, or all those of a simulation; or one is empty or has a
\* blank line.
MCResults ==
  LET w == Whole(Shipped)
  IN {w} \cup {[w EXCEPT ![t][s] = Absent] : t \in 1..Tabs, s \in Sources(Shipped)}
         \cup {[w EXCEPT ![t] = [s \in Sources(Shipped) |-> Absent]] : t \in 1..Tabs}
         \cup {[w EXCEPT ![t][s] = f] : t \in 1..Tabs, s \in {"energySummary", "dcLoad"},
                                       f \in {<<>>, <<"number", "blank", "number">>}}

MCGroupedResults == {Whole(Grouped)}
=============================================================================
