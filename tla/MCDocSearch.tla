----------------------------- MODULE MCDocSearch -----------------------------
EXTENDS DocSearchProperties, TLC

\* Two rows, the first with two children; two filters, and two words, one of them
\* the label: between them they find both rows, one, or none.
MCKids == 0 :> 2 @@ 1 :> 0
MCWords == {"b", "Search"}
MCLabel == "Search"
MCSame == [t \in {"b", "Search", ""} |-> t]

MCMatches ==
  0 :> [MCSame EXCEPT !["b"] = {0, 1}, !["Search"] = {0}, ![""] = {0, 1}] @@
  1 :> [MCSame EXCEPT !["b"] = {0}, !["Search"] = {}, ![""] = {0}]
=============================================================================
