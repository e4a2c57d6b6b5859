--------------------------- MODULE DashboardProofs ---------------------------
(***************************************************************************)
(* The results page, for any number of simulations, whatever the page      *)
(* draws and whichever traces are missing: a chart shows its own           *)
(* simulation and group.  Where each chart has a subsection for its group, *)
(* ids are unique, and where each pie is alone in its group, pies are      *)
(* whole and a page that is shown lacks no chart.  With complete results   *)
(* no statement of a sound page throws.                                    *)
(***************************************************************************)
EXTENDS DashboardProperties, SequenceTheorems, TLAPS

\* The series of a group, and what the boxes hold.
SeriesOf(t, g) == {[tab |-> t, source |-> s] : s \in {s \in Charted : GroupKey(s) = g}}
Series == [tab : 1..Tabs, source : Charted]
Drawing == [series : Series, points : Seq(Points \cup {"absent", "tag"})]
Ids == Nat \X Nat \X Groups \X {"H"}
Box == [tab : 1..Tabs, id : Ids, group : Groups, plot : Seq(Drawing), totals : Seq(1..Tabs)]

\* The types of what init reads and where it is, and of what it has drawn.
ScriptType ==
  /\ page \in Pages /\ rawData \in Results
  /\ tab \in 1..(Tabs + 1) /\ at \in 1..(Len(page.script) + 1)
  /\ status = "shown" => tab > Tabs
  /\ currentSectionNumber \in Nat /\ currentSubSectionNumber \in Nat

DrawnType ==
  /\ groupedData \in [1..Tabs -> [Groups -> Seq(Series)]]
  /\ \A t \in 1..Tabs : \A g \in Groups : groupedData[t][g] \in Seq(SeriesOf(t, g))
  /\ boxes \in Seq(Box)

\* The statements that have run are those of the tabs before this one, and those
\* before "at" in this one.
Ran(t, i) == t < tab \/ (t = tab /\ i < at)

\* A group that is not empty was charted in its tab.
GroupsCharted ==
  \A t \in 1..Tabs : \A g \in Groups : groupedData[t][g] # <<>> =>
    \E i \in DOMAIN page.script : Ran(t, i) /\ IsChart(page, i) /\ GroupKey(page.script[i].of) = g

PageInv == ScriptType /\ DrawnType /\ GroupsCharted /\ SeriesBelong

-----------------------------------------------------------------------------
\* None of the statements from i up to the next one to run is of these kinds.
NoneSince(i, kinds) == \A k \in i..(at-1) : page.script[k].do \notin kinds

\* How the id of a box relates to the counters: it is not past them; one that has
\* their numbers was drawn in this tab after the last heading, or in an earlier
\* tab, of which it is the last section until this one has a section.
Numbered(b) ==
  /\ b.tab <= tab
  /\ b.id[1] <= currentSectionNumber
  /\ b.id[1] = currentSectionNumber /\ b.tab < tab => NoneSince(1, {"section"})
  /\ b.id[1] = currentSectionNumber => b.id[2] <= currentSubSectionNumber
  /\ b.id[1] = currentSectionNumber /\ b.id[2] = currentSubSectionNumber /\ b.tab = tab =>
       \E i \in 1..(at-1) : /\ IsChart(page, i) /\ GroupKey(page.script[i].of) = b.id[3]
                            /\ NoneSince(i + 1, {"section", "subsection"})

IdsInv == IdsUnique /\ \A k \in DOMAIN boxes : Numbered(boxes[k])

\* The chart of a statement that has run is there.
ChartsDrawn ==
  \A t \in 1..Tabs : \A i \in DOMAIN page.script : Ran(t, i) /\ IsChart(page, i) =>
    \E k \in DOMAIN boxes : \E n \in DOMAIN boxes[k].plot :
      /\ boxes[k].tab = t
      /\ boxes[k].plot[n].series = [tab |-> t, source |-> page.script[i].of]

-----------------------------------------------------------------------------
\* A function on 1..n is a sequence of length n.
LEMMA AsSequence ==
  ASSUME NEW n \in Nat, NEW S, NEW f \in [1..n -> S]
  PROVE  f \in Seq(S) /\ Len(f) = n /\ DOMAIN f = 1..n
<1>1. f \in Seq(S)
  BY SeqDef
<1> QED
  BY <1>1, LenProperties

\* One statement of a page.
LEMMA ScriptTypes ==
  ASSUME ScriptType
  PROVE  /\ Tabs \in Nat /\ page.script \in Seq(Statements)
         /\ Len(page.script) \in Nat /\ DOMAIN page.script = 1..Len(page.script)
         /\ \A i \in DOMAIN page.script : page.script[i] \in Statements
<1>1. Tabs \in Nat /\ page.script \in Seq(Statements)
  BY PagesAssumption DEF ScriptType
<1> QED
  BY <1>1, LenProperties, ElementOfSeq

\* A chart's source is charted, and belongs to a group.
LEMMA ChartOf ==
  ASSUME NEW i \in DOMAIN page.script, IsChart(page, i)
  PROVE  page.script[i].of \in Charted /\ GroupKey(page.script[i].of) \in Groups
BY DEF IsChart, Charted, Groups

\* The traces of what is charted are sequences of points, or missing.
LEMMA TraceType ==
  ASSUME ScriptType, NEW s \in Series
  PROVE  rawData[s.tab][s.source] \in Seq(Points) \cup {Absent}
<1>1. s.tab \in 1..Tabs /\ s.source \in Charted
  BY DEF Series
<1>2. PICK i \in DOMAIN page.script : page.script[i].do = "chart" /\ s.source = page.script[i].of
  BY <1>1 DEF Charted
<1> QED
  BY <1>1, <1>2, PagesAssumption DEF ScriptType

\* What a loop over the keys of a trace meets: its points, then the two tags.
LEMMA KeysShape ==
  ASSUME ScriptType, NEW s \in Series
  PROVE  LET trace == rawData[s.tab][s.source]
         IN  /\ trace \in Seq(Points \cup {"absent"}) /\ Len(trace) \in Nat
             /\ Keys(s) \in Seq(Points \cup {"absent", "tag"}) /\ Len(Keys(s)) = Len(trace) + 2
             /\ \A i \in 1..Len(trace) : Keys(s)[i] = trace[i] /\ trace[i] # "tag"
             /\ Keys(s)[Len(trace) + 1] = "tag"
<1> DEFINE trace == rawData[s.tab][s.source]
           T == Points \cup {"absent", "tag"}
<1>1. trace \in Seq(Points) \cup {Absent}
  BY TraceType
<1>2. trace \in Seq(Points \cup {"absent"})
  <2>1. Absent \in Seq(Points \cup {"absent"})
    BY DEF Absent
  <2>2. CASE trace \in Seq(Points)
    BY <2>2, SeqMonotonic
  <2> QED
    BY <1>1, <2>1, <2>2
<1>3. trace \in Seq(T) /\ Tags \in Seq(T) /\ Len(Tags) = 2 /\ Tags[1] = "tag"
  <2>1. trace \in Seq(T)
    BY <1>2, SeqMonotonic
  <2> QED
    BY <2>1 DEF Tags
<1>4. \A i \in 1..Len(trace) : trace[i] \in Points \cup {"absent"}
  BY <1>2, ElementOfSeq
<1>5. Len(trace) \in Nat
  BY <1>2, LenProperties
<1>6. Keys(s) = trace \o Tags
  BY DEF Keys
<1> HIDE DEF trace, T
<1>7. /\ Keys(s) \in Seq(T) /\ Len(Keys(s)) = Len(trace) + 2
      /\ \A i \in 1..(Len(trace) + 2) :
           Keys(s)[i] = IF i <= Len(trace) THEN trace[i] ELSE Tags[i - Len(trace)]
  <2> DEFINE both == trace \o Tags
  <2>1. /\ both \in Seq(T) /\ Len(both) = Len(trace) + Len(Tags)
        /\ \A i \in 1..(Len(trace) + Len(Tags)) :
             both[i] = IF i <= Len(trace) THEN trace[i] ELSE Tags[i - Len(trace)]
    BY <1>3, ConcatProperties
  <2>2. Keys(s) = both
    BY <1>6
  <2> HIDE DEF both
  <2> QED
    BY <1>3, <2>1, <2>2
<1>8. Keys(s)[Len(trace) + 1] = "tag"
  <2>1. Len(trace) + 1 \in 1..(Len(trace) + 2) /\ ~(Len(trace) + 1 <= Len(trace))
        /\ (Len(trace) + 1) - Len(trace) = 1
    BY <1>5
  <2> QED
    BY <1>3, <1>7, <2>1
<1>9. \A i \in 1..Len(trace) : Keys(s)[i] = trace[i] /\ trace[i] # "tag"
  BY <1>4, <1>5, <1>7 DEF Points
<1> QED
  BY <1>2, <1>5, <1>7, <1>8, <1>9 DEF trace, T

\* The pie stops at the first tag: its slices are the points of the trace.
LEMMA SlicesAreTheTrace ==
  ASSUME ScriptType, NEW s \in Series
  PROVE  Slices(s) = rawData[s.tab][s.source]
<1> DEFINE trace == rawData[s.tab][s.source]
           keys == Keys(s)
           FirstTag(i) == keys[i] = "tag" /\ \A j \in 1..(i-1) : keys[j] # "tag"
           end == CHOOSE i \in DOMAIN keys : FirstTag(i)
           T == Points \cup {"absent", "tag"}
<1>1. /\ trace \in Seq(Points \cup {"absent"}) /\ Len(trace) \in Nat
      /\ keys \in Seq(T) /\ Len(keys) = Len(trace) + 2
      /\ \A i \in 1..Len(trace) : keys[i] = trace[i] /\ trace[i] # "tag"
      /\ keys[Len(trace) + 1] = "tag"
  BY KeysShape
<1>2. Slices(s) = SubSeq(keys, 1, end - 1)
  BY DEF Slices
<1> HIDE DEF trace, keys, T
<1>3. DOMAIN keys = 1..(Len(trace) + 2)
  BY <1>1, LenProperties
<1>4. FirstTag(Len(trace) + 1) /\ Len(trace) + 1 \in DOMAIN keys
  BY <1>1, <1>3
<1>5. \A i \in DOMAIN keys : FirstTag(i) => i = Len(trace) + 1
  BY <1>1, <1>3
<1>6. end = Len(trace) + 1
  <2>1. end \in DOMAIN keys /\ FirstTag(end)
    BY <1>4
  <2> QED
    BY <1>5, <2>1
<1> HIDE DEF end
<1>7. Slices(s) = SubSeq(keys, 1, Len(trace))
  BY <1>1, <1>2, <1>6
<1>8. /\ SubSeq(keys, 1, Len(trace)) \in Seq(T) /\ Len(SubSeq(keys, 1, Len(trace))) = Len(trace)
      /\ \A i \in 1..Len(trace) : SubSeq(keys, 1, Len(trace))[i] = keys[i]
  BY <1>1
<1>9. trace \in Seq(T)
  BY <1>1, SeqMonotonic DEF T
<1>10. SubSeq(keys, 1, Len(trace)) = trace
  BY <1>1, <1>8, <1>9, SeqEqual
<1> QED
  BY <1>7, <1>10 DEF trace

-----------------------------------------------------------------------------
\* What the plot of a chart shows: its series, all of them but for a pie, which
\* shows the trace of the first.
LEMMA PlotShape ==
  ASSUME ScriptType, NEW kind, NEW S, S \subseteq Series, NEW list \in Seq(S), list # <<>>
  PROVE  LET plot == Plot(kind, list)
         IN  /\ plot \in Seq(Drawing) /\ 1 \in DOMAIN plot /\ 1 \in DOMAIN list
             /\ \A i \in DOMAIN plot : i \in DOMAIN list /\ plot[i].series = list[i]
             /\ kind # "pie" => DOMAIN plot = DOMAIN list
             /\ kind = "pie" => plot[1].points = rawData[list[1].tab][list[1].source]
<1>1. Len(list) \in Nat \ {0} /\ DOMAIN list = 1..Len(list) /\ 1 \in DOMAIN list
  BY EmptySeq, LenProperties
<1>2. \A i \in DOMAIN list : list[i] \in Series
  BY <1>1, ElementOfSeq
<1>3. CASE kind = "pie"
  <2> DEFINE first == [series |-> list[1], points |-> Slices(list[1])]
  <2>1. Plot(kind, list) = <<first>>
    BY <1>3 DEF Plot
  <2>2. /\ Slices(list[1]) = rawData[list[1].tab][list[1].source]
        /\ Slices(list[1]) \in Seq(Points \cup {"absent"})
    BY <1>1, <1>2, SlicesAreTheTrace, KeysShape
  <2>3. Slices(list[1]) \in Seq(Points \cup {"absent", "tag"})
    BY <2>2, SeqMonotonic
  <2>4. first \in Drawing
    BY <1>1, <1>2, <2>3 DEF Drawing
  <2>5. first.series = list[1] /\ first.points = rawData[list[1].tab][list[1].source]
    BY <2>2
  <2> HIDE DEF first
  <2>6. <<first>> \in Seq(Drawing) /\ DOMAIN <<first>> = {1} /\ <<first>>[1] = first
    BY <2>4
  <2> QED
    BY <1>1, <1>3, <2>1, <2>5, <2>6
<1>4. CASE kind # "pie"
  <2> DEFINE plot == [i \in DOMAIN list |-> [series |-> list[i], points |-> Keys(list[i])]]
  <2>1. Plot(kind, list) = plot
    BY <1>4 DEF Plot
  <2>2. \A i \in DOMAIN list : Keys(list[i]) \in Seq(Points \cup {"absent", "tag"})
    BY <1>2, KeysShape
  <2>3. \A i \in DOMAIN list : [series |-> list[i], points |-> Keys(list[i])] \in Drawing
    BY <1>2, <2>2 DEF Drawing
  <2>4. plot \in [1..Len(list) -> Drawing]
    BY <1>1, <2>3
  <2>5. \A i \in DOMAIN list : plot[i].series = list[i]
    OBVIOUS
  <2> HIDE DEF plot
  <2>6. plot \in Seq(Drawing) /\ DOMAIN plot = 1..Len(list)
    BY <1>1, <2>4, AsSequence
  <2> QED
    BY <1>1, <1>4, <2>1, <2>5, <2>6
<1> QED
  BY <1>3, <1>4

\* The id under which a box is created is never the one it is looked up with.
LEMMA NothingFound ==
  ASSUME boxes \in Seq(Box), NEW group
  PROVE  Found(group) = {}
<1> SUFFICES ASSUME NEW k \in DOMAIN boxes, boxes[k].id = ContainerId(group) PROVE FALSE
  BY DEF Found
<1>1. boxes[k] \in Box
  BY LenProperties, ElementOfSeq
<1>2. boxes[k].id \in Ids
  BY <1>1 DEF Box
<1>3. boxes[k].id[4] = "H"
  BY <1>2 DEF Ids
<1>4. ContainerId(group)[4] = ""
  BY DEF ContainerId
<1> QED
  BY <1>3, <1>4

\* A box that differs from another in its plot or its totals at most.
SamePlace(b, c) == b.tab = c.tab /\ b.id = c.id /\ b.group = c.group

\* The total of a pie changes no box but in its totals, and none that was there
\* before if the id is new.
LEMMA TotalsShape ==
  ASSUME NEW n \in Nat, NEW all \in [1..n -> Box], NEW group, tab \in 1..Tabs
  PROVE  LET with == WithTotal(all, group)
         IN  /\ with \in [1..n -> Box]
             /\ \A k \in 1..n : SamePlace(with[k], all[k]) /\ with[k].plot = all[k].plot
             /\ \A k \in 1..n : all[k].id # CreatedId(group) => with[k] = all[k]
             /\ \A k \in 1..n :
                  all[k].id = CreatedId(group) /\ (\A j \in 1..n \ {k} : all[j].id # CreatedId(group))
                    => with[k].totals = Append(all[k].totals, tab)
<1> DEFINE header == Firsts({k \in 1..n : all[k].id = CreatedId(group)})
           added(k) == [all[k] EXCEPT !.totals = Append(@, tab)]
           with == [k \in 1..n |-> IF k \in header THEN added(k) ELSE all[k]]
<1>1. WithTotal(all, group) = with
  BY DEF WithTotal
<1>2. ASSUME NEW k \in 1..n
      PROVE  /\ added(k) \in Box /\ SamePlace(added(k), all[k]) /\ added(k).plot = all[k].plot
             /\ added(k).totals = Append(all[k].totals, tab)
  <2>1. all[k] \in Box
    OBVIOUS
  <2>2. all[k].totals \in Seq(1..Tabs)
    BY <2>1 DEF Box
  <2>3. Append(all[k].totals, tab) \in Seq(1..Tabs)
    BY <2>2
  <2> QED
    BY <2>1, <2>3 DEF Box, SamePlace
<1>3. \A k \in header : k \in 1..n /\ all[k].id = CreatedId(group)
  BY DEF Firsts
<1>4. \A k \in 1..n :
        all[k].id = CreatedId(group) /\ (\A j \in 1..n \ {k} : all[j].id # CreatedId(group))
          => k \in header
  BY DEF Firsts
<1> HIDE DEF header, added
<1>5. with \in [1..n -> Box]
  BY <1>2
<1>6. \A k \in 1..n : with[k] = IF k \in header THEN added(k) ELSE all[k]
  OBVIOUS
<1> HIDE DEF with
<1>7. \A k \in 1..n : SamePlace(with[k], all[k]) /\ with[k].plot = all[k].plot
  BY <1>2, <1>6 DEF SamePlace
<1>8. \A k \in 1..n : all[k].id # CreatedId(group) => with[k] = all[k]
  BY <1>3, <1>6
<1>9. \A k \in 1..n :
        all[k].id = CreatedId(group) /\ (\A j \in 1..n \ {k} : all[j].id # CreatedId(group))
          => with[k].totals = Append(all[k].totals, tab)
  BY <1>2, <1>4, <1>6
<1> QED
  BY <1>1, <1>5, <1>7, <1>8, <1>9

\* A new box is empty.
LEMMA NewBoxType ==
  ASSUME ScriptType, tab \in 1..Tabs, NEW group \in Groups
  PROVE  /\ NewBox(group) \in Box /\ NewBox(group).tab = tab /\ NewBox(group).group = group
         /\ NewBox(group).id = CreatedId(group) /\ NewBox(group).totals = <<>>
<1>1. CreatedId(group) \in Ids
  BY DEF CreatedId, Ids, ScriptType
<1>2. <<>> \in Seq(Drawing) /\ <<>> \in Seq(1..Tabs)
  BY EmptySeq
<1> QED
  BY <1>1, <1>2 DEF NewBox, Box

\* The box of a chart drawn now.
Drew(b, kind, group, list) ==
  /\ b.tab = tab /\ b.id = CreatedId(group) /\ b.group = group /\ b.plot = Plot(kind, list)

\* A chart adds one box, at the end, and changes no other but perhaps its totals:
\* not even those, and the totals of the new box are right, if its id is new.
LEMMA DrawnShape ==
  ASSUME ScriptType, boxes \in Seq(Box), tab \in 1..Tabs, NEW group \in Groups, NEW kind,
         NEW S, S \subseteq Series, NEW list \in Seq(S), list # <<>>
  PROVE  LET all == Drawn(kind, group, list)
             n == Len(boxes)
         IN  /\ all \in Seq(Box) /\ DOMAIN all = 1..(n + 1) /\ DOMAIN boxes = 1..n /\ n \in Nat
             /\ \A k \in 1..n : SamePlace(all[k], boxes[k]) /\ all[k].plot = boxes[k].plot
             /\ Drew(all[n + 1], kind, group, list)
             /\ (\A k \in 1..n : boxes[k].id # CreatedId(group)) =>
                  /\ \A k \in 1..n : all[k] = boxes[k]
                  /\ kind = "pie" => all[n + 1].totals = <<tab>>
<1> DEFINE n == Len(boxes)
           more == Append(boxes, NewBox(group))
           full == [more[n + 1] EXCEPT !.plot = Plot(kind, list)]
           plotted == [k \in 1..(n + 1) |-> IF k = n + 1 THEN full ELSE more[k]]
           all == IF kind = "pie" THEN WithTotal(plotted, group) ELSE plotted
<1>1. n \in Nat /\ DOMAIN boxes = 1..n /\ \A k \in 1..n : boxes[k] \in Box
  BY LenProperties, ElementOfSeq
<1>2. /\ Len(more) = n + 1 /\ DOMAIN more = 1..(n + 1)
      /\ \A k \in 1..n : more[k] = boxes[k]
      /\ more[n + 1] = NewBox(group)
  <2> HIDE DEF n
  <2>1. NewBox(group) \in Box
    BY NewBoxType
  <2>2. more \in Seq(Box) /\ Len(more) = Len(boxes) + 1
    BY <2>1
  <2> QED
    BY <1>1, <2>1, <2>2 DEF n
<1>3. Drawn(kind, group, list) = all
  <2>1. Found(group) = {}
    BY NothingFound
  <2>2. Drawn(kind, group, list) =
          LET drawn == [k \in DOMAIN more |-> IF k \in {Len(more)}
                             THEN [more[k] EXCEPT !.plot = Plot(kind, list)] ELSE more[k]]
          IN  IF kind = "pie" THEN WithTotal(drawn, group) ELSE drawn
    BY <2>1 DEF Drawn
  <2>3. [k \in DOMAIN more |-> IF k \in {Len(more)}
             THEN [more[k] EXCEPT !.plot = Plot(kind, list)] ELSE more[k]] = plotted
    <3> HIDE DEF more, n
    <3> QED
      BY <1>2
  <2> HIDE DEF plotted, more
  <2> QED
    BY <2>2, <2>3
<1>4. /\ full \in Box /\ SamePlace(full, NewBox(group)) /\ full.totals = <<>>
      /\ full.plot = Plot(kind, list)
  <2>1. Plot(kind, list) \in Seq(Drawing)
    BY PlotShape
  <2>2. NewBox(group) \in Box /\ NewBox(group).totals = <<>>
    BY NewBoxType
  <2>3. full = [NewBox(group) EXCEPT !.plot = Plot(kind, list)]
    BY <1>2
  <2> HIDE DEF full
  <2> QED
    BY <2>1, <2>2, <2>3 DEF Box, SamePlace
<1> HIDE DEF full, more, n
<1>5. plotted \in [1..(n + 1) -> Box]
  BY <1>1, <1>2, <1>4
<1>6. \A k \in 1..n : plotted[k] = boxes[k]
  BY <1>1, <1>2
<1>7. plotted[n + 1] = full /\ n + 1 \in 1..(n + 1) /\ n + 1 \in Nat
  BY <1>1
<1> HIDE DEF plotted
<1>8. Drew(full, kind, group, list)
  BY <1>4, NewBoxType DEF Drew, SamePlace
<1>9. CASE kind # "pie"
  <2>1. all = plotted
    BY <1>9
  <2>2. all \in Seq(Box) /\ DOMAIN all = 1..(n + 1)
    BY <1>5, <1>7, <2>1, AsSequence
  <2>3. \A k \in 1..n : SamePlace(all[k], boxes[k]) /\ all[k].plot = boxes[k].plot
    BY <1>6, <2>1 DEF SamePlace
  <2> QED
    BY <1>1, <1>3, <1>6, <1>7, <1>8, <1>9, <2>1, <2>2, <2>3 DEF n
<1>10. CASE kind = "pie"
  <2> DEFINE with == WithTotal(plotted, group)
  <2>1. all = with
    BY <1>10
  <2>2. /\ with \in [1..(n + 1) -> Box]
        /\ \A k \in 1..(n + 1) : SamePlace(with[k], plotted[k]) /\ with[k].plot = plotted[k].plot
        /\ \A k \in 1..(n + 1) : plotted[k].id # CreatedId(group) => with[k] = plotted[k]
        /\ \A k \in 1..(n + 1) :
             plotted[k].id = CreatedId(group)
               /\ (\A j \in 1..(n + 1) \ {k} : plotted[j].id # CreatedId(group))
               => with[k].totals = Append(plotted[k].totals, tab)
    <3> DEFINE m == n + 1
    <3>1. m \in Nat /\ plotted \in [1..m -> Box]
      BY <1>5, <1>7
    <3> HIDE DEF m
    <3>2. /\ with \in [1..m -> Box]
          /\ \A k \in 1..m : SamePlace(with[k], plotted[k]) /\ with[k].plot = plotted[k].plot
          /\ \A k \in 1..m : plotted[k].id # CreatedId(group) => with[k] = plotted[k]
          /\ \A k \in 1..m :
               plotted[k].id = CreatedId(group)
                 /\ (\A j \in 1..m \ {k} : plotted[j].id # CreatedId(group))
                 => with[k].totals = Append(plotted[k].totals, tab)
      BY <3>1, TotalsShape
    <3> QED
      BY <3>2 DEF m
  <2> HIDE DEF with
  <2>3. with \in Seq(Box) /\ DOMAIN with = 1..(n + 1)
    BY <1>7, <2>2, AsSequence
  <2>4. \A k \in 1..n : SamePlace(with[k], boxes[k]) /\ with[k].plot = boxes[k].plot
    BY <1>1, <1>6, <2>2
  <2>5. Drew(with[n + 1], kind, group, list)
    BY <1>7, <1>8, <2>2 DEF Drew, SamePlace
  <2>6. ASSUME \A k \in 1..n : boxes[k].id # CreatedId(group)
        PROVE  /\ \A k \in 1..n : with[k] = boxes[k]
               /\ with[n + 1].totals = <<tab>>
    <3>1. \A k \in 1..n : with[k] = boxes[k]
      BY <1>1, <1>6, <2>2, <2>6
    <3>2. \A j \in 1..(n + 1) \ {n + 1} : plotted[j].id # CreatedId(group)
      BY <1>1, <1>6, <2>6
    <3>3. plotted[n + 1].id = CreatedId(group)
      BY <1>7, <1>8 DEF Drew
    <3>4. with[n + 1].totals = Append(plotted[n + 1].totals, tab)
      BY <1>7, <2>2, <3>2, <3>3
    <3>5. with[n + 1].totals = Append(<<>>, tab)
      BY <1>4, <1>7, <3>4
    <3> QED
      BY <3>1, <3>5
  <2> HIDE DEF all
  <2> QED
    BY <1>1, <1>3, <2>1, <2>3, <2>4, <2>5, <2>6 DEF n
<1> QED
  BY <1>9, <1>10

-----------------------------------------------------------------------------
\* What every step leaves: the page and its results, and what follows from them.
LEMMA NamesKept ==
  ASSUME UNCHANGED page
  PROVE  /\ Charted' = Charted /\ Groups' = Groups /\ Series' = Series /\ Box' = Box
         /\ \A source : GroupKey(source)' = GroupKey(source)
         /\ \A t, g : SeriesOf(t, g)' = SeriesOf(t, g)
<1>1. \A source : GroupKey(source)' = GroupKey(source)
  BY DEF GroupKey
<1>2. Charted' = Charted
  BY DEF Charted
<1>3. Groups' = Groups
  BY <1>1, <1>2 DEF Groups
<1>4. Series' = Series
  BY <1>2 DEF Series
<1>5. Box' = Box
  BY <1>3, <1>4 DEF Box, Drawing, Ids
<1>6. \A t, g : SeriesOf(t, g)' = SeriesOf(t, g)
  BY <1>1, <1>2 DEF SeriesOf
<1> QED
  BY <1>1, <1>2, <1>3, <1>4, <1>5, <1>6

\* The series of a group are series.
LEMMA SeriesOfType ==
  ASSUME NEW t \in 1..Tabs, NEW g
  PROVE  /\ SeriesOf(t, g) \subseteq Series
         /\ \A s \in SeriesOf(t, g) : s.tab = t /\ s.source \in Charted /\ GroupKey(s.source) = g
BY DEF SeriesOf, Series

\* The statement that is run, and what it is about.
Now == page.script[at]
NowGroup == GroupKey(Now.of)
NowSeries == [tab |-> tab, source |-> Now.of]

\* A chart statement runs.
Charting ==
  /\ tab <= Tabs /\ at <= Len(page.script) /\ Now.do = "chart"
  /\ DrawChart(Now.of, Now.as) /\ UNCHANGED <<page, rawData, tab>>

\* Its series joins its group.
LEMMA SeriesJoins ==
  ASSUME ScriptType, DrawnType, Charting
  PROVE  /\ tab \in 1..Tabs /\ at \in DOMAIN page.script /\ IsChart(page, at)
         /\ NowGroup \in Groups /\ NowSeries \in SeriesOf(tab, NowGroup)
         /\ groupedData' \in [1..Tabs -> [Groups -> Seq(Series)]]
         /\ \A t \in 1..Tabs : \A g \in Groups :
              /\ groupedData'[t][g] \in Seq(SeriesOf(t, g))
              /\ groupedData'[t][g] = IF t = tab /\ g = NowGroup
                                      THEN Append(groupedData[t][g], NowSeries)
                                      ELSE groupedData[t][g]
<1>1. tab \in 1..Tabs /\ at \in DOMAIN page.script /\ IsChart(page, at)
  BY ScriptTypes DEF ScriptType, Charting, IsChart, Now
<1>2. Now.of \in Charted /\ NowGroup \in Groups
  BY <1>1, ChartOf DEF Now, NowGroup
<1>3. NowSeries \in SeriesOf(tab, NowGroup) /\ SeriesOf(tab, NowGroup) \subseteq Series
  BY <1>1, <1>2, SeriesOfType DEF SeriesOf, NowSeries, NowGroup
<1>4. groupedData' = [groupedData EXCEPT ![tab][NowGroup] = Append(@, NowSeries)]
  BY DEF Charting, DrawChart, Pushed, NowSeries, NowGroup
<1>5. groupedData \in [1..Tabs -> [Groups -> Seq(Series)]]
  BY DEF DrawnType
<1>6. ASSUME NEW t \in 1..Tabs, NEW g \in Groups
      PROVE  groupedData'[t][g] = IF t = tab /\ g = NowGroup
                                  THEN Append(groupedData[t][g], NowSeries) ELSE groupedData[t][g]
  BY <1>1, <1>2, <1>4, <1>5
<1>7. Append(groupedData[tab][NowGroup], NowSeries) \in Seq(Series)
  BY <1>1, <1>2, <1>3, <1>5
<1>8. groupedData' \in [1..Tabs -> [Groups -> Seq(Series)]]
  BY <1>1, <1>2, <1>4, <1>5, <1>7
<1>9. ASSUME NEW t \in 1..Tabs, NEW g \in Groups
      PROVE  groupedData'[t][g] \in Seq(SeriesOf(t, g))
  <2>1. groupedData[t][g] \in Seq(SeriesOf(t, g))
    BY DEF DrawnType
  <2>2. CASE t = tab /\ g = NowGroup
    <3>1. groupedData'[t][g] = Append(groupedData[t][g], NowSeries)
      BY <1>6, <2>2
    <3>2. NowSeries \in SeriesOf(t, g)
      BY <1>3, <2>2
    <3>3. Append(groupedData[t][g], NowSeries) \in Seq(SeriesOf(t, g))
      BY <2>1, <3>2
    <3> QED
      BY <3>1, <3>3
  <2>3. CASE ~(t = tab /\ g = NowGroup)
    BY <1>6, <2>1, <2>3
  <2> QED
    BY <2>2, <2>3
<1> QED
  BY <1>1, <1>2, <1>3, <1>6, <1>8, <1>9

\* Its chart is a box of its own, which shows the group with the new series.
LEMMA BoxJoins ==
  ASSUME ScriptType, DrawnType, Charting
  PROVE  LET n == Len(boxes)
             list == groupedData'[tab][NowGroup]
         IN  /\ list \in Seq(SeriesOf(tab, NowGroup)) /\ list # <<>>
             /\ boxes' \in Seq(Box) /\ DOMAIN boxes' = 1..(n + 1)
             /\ DOMAIN boxes = 1..n /\ n \in Nat
             /\ \A k \in 1..n : SamePlace(boxes'[k], boxes[k]) /\ boxes'[k].plot = boxes[k].plot
             /\ Drew(boxes'[n + 1], Now.as, NowGroup, list)
             /\ (\A k \in 1..n : boxes[k].id # CreatedId(NowGroup)) =>
                  /\ \A k \in 1..n : boxes'[k] = boxes[k]
                  /\ Now.as = "pie" => boxes'[n + 1].totals = <<tab>>
<1> DEFINE n == Len(boxes)
           list == groupedData'[tab][NowGroup]
           S == SeriesOf(tab, NowGroup)
<1>1. tab \in 1..Tabs /\ NowGroup \in Groups
  BY SeriesJoins
<1>2. S \subseteq Series /\ list \in Seq(S)
  BY <1>1, SeriesJoins, SeriesOfType
<1>3. list # <<>>
  <2>1. groupedData[tab][NowGroup] \in Seq(Series)
    BY <1>1 DEF DrawnType
  <2>2. list = Append(groupedData[tab][NowGroup], NowSeries)
    BY <1>1, SeriesJoins
  <2>3. Len(list) = Len(groupedData[tab][NowGroup]) + 1 /\ Len(groupedData[tab][NowGroup]) \in Nat
    <3> HIDE DEF list
    <3> QED
      BY <2>1, <2>2
  <2> QED
    BY <2>3, EmptySeq
<1>4. boxes' = Drawn(Now.as, NowGroup, list) /\ boxes \in Seq(Box)
  BY DEF Charting, DrawChart, NowGroup, DrawnType
<1> HIDE DEF list, S
<1> DEFINE all == Drawn(Now.as, NowGroup, list)
<1>5. /\ all \in Seq(Box) /\ DOMAIN all = 1..(n + 1) /\ DOMAIN boxes = 1..n /\ n \in Nat
      /\ \A k \in 1..n : SamePlace(all[k], boxes[k]) /\ all[k].plot = boxes[k].plot
      /\ Drew(all[n + 1], Now.as, NowGroup, list)
      /\ (\A k \in 1..n : boxes[k].id # CreatedId(NowGroup)) =>
           /\ \A k \in 1..n : all[k] = boxes[k]
           /\ Now.as = "pie" => all[n + 1].totals = <<tab>>
  <2> DEFINE as == Now.as
             group == NowGroup
  <2>1. group \in Groups /\ list \in Seq(S) /\ list # <<>> /\ S \subseteq Series
    BY <1>1, <1>2, <1>3
  <2> HIDE DEF as, group
  <2>2. LET new == Drawn(as, group, list)
        IN  /\ new \in Seq(Box) /\ DOMAIN new = 1..(n + 1) /\ DOMAIN boxes = 1..n /\ n \in Nat
            /\ \A k \in 1..n : SamePlace(new[k], boxes[k]) /\ new[k].plot = boxes[k].plot
            /\ Drew(new[n + 1], as, group, list)
            /\ (\A k \in 1..n : boxes[k].id # CreatedId(group)) =>
                 /\ \A k \in 1..n : new[k] = boxes[k]
                 /\ as = "pie" => new[n + 1].totals = <<tab>>
    <3>1. boxes \in Seq(Box) /\ tab \in 1..Tabs
      BY <1>1, <1>4
    <3> HIDE DEF n
    <3> QED
      BY <2>1, <3>1, DrawnShape, ZenonT(30) DEF n
  <2> QED
    BY <2>2 DEF as, group
<1> HIDE DEF all, n
<1>6. boxes' = all
  BY <1>4 DEF all
<1> QED
  BY <1>2, <1>3, <1>5, <1>6 DEF list, S, n

-----------------------------------------------------------------------------
\* The four kinds of step: a chart is drawn, another statement runs, the next tab
\* begins, or nothing is built.
ChartRuns == Charting /\ at' = at + 1 /\ UNCHANGED counters

OtherRuns ==
  /\ tab <= Tabs /\ at <= Len(page.script) /\ at' = at + 1
  /\ \/ Now.do = "section" /\ StartSection
     \/ Now.do = "subsection" /\ StartSubSection
     \/ Now.do = "nav" /\ UNCHANGED counters
  /\ UNCHANGED <<tab, groupedData, boxes>>

TabTurns ==
  /\ tab <= Tabs /\ at > Len(page.script) /\ tab' = tab + 1 /\ at' = 1
  /\ UNCHANGED <<counters, groupedData, boxes>>

NothingBuilt == UNCHANGED <<tab, at, counters, groupedData, boxes>>

\* Every step is one of them, and keeps the types.
LEMMA StepKinds ==
  ASSUME ScriptType, [Next]_vars
  PROVE  /\ UNCHANGED <<page, rawData>> /\ ScriptType'
         /\ ChartRuns \/ OtherRuns \/ TabTurns \/ NothingBuilt
<1>1. Tabs \in Nat /\ Len(page.script) \in Nat
  BY ScriptTypes
<1>2. CASE RunStatement
  <2>1. /\ status = "running" /\ tab <= Tabs /\ at <= Len(page.script) /\ Statement(Now)
        /\ at' = at + 1 /\ UNCHANGED <<page, rawData, status, tab>>
    BY <1>2 DEF RunStatement, Now
  <2>2. ChartRuns \/ OtherRuns
    BY <2>1 DEF Statement, ChartRuns, OtherRuns, Charting, built
  <2>3. currentSectionNumber' \in Nat /\ currentSubSectionNumber' \in Nat
    BY <2>2 DEF ScriptType, ChartRuns, OtherRuns, StartSection, StartSubSection, counters
  <2> QED
    BY <1>1, <2>1, <2>2, <2>3 DEF ScriptType
<1>3. CASE Throw
  <2>1. status' # "shown"
    BY <1>3 DEF Throw
  <2> QED
    BY <1>3, <2>1 DEF Throw, ScriptType, NothingBuilt, counters, built
<1>4. CASE NextTab
  BY <1>1, <1>4 DEF NextTab, ScriptType, TabTurns, counters, built
<1>5. CASE Show
  BY <1>5 DEF Show, ScriptType, NothingBuilt, counters, built
<1>6. CASE Click
  BY <1>6 DEF Click, ScriptType, NothingBuilt, counters, built
<1>7. CASE UNCHANGED vars
  BY <1>7 DEF vars, ScriptType, NothingBuilt, counters, built
<1> QED
  BY <1>2, <1>3, <1>4, <1>5, <1>6, <1>7 DEF Next, Initialise

\* What has run has run.
LEMMA RanStays ==
  ASSUME ScriptType, [Next]_vars, NEW t \in 1..Tabs, NEW i \in DOMAIN page.script
  PROVE  /\ Ran(t, i) => Ran(t, i)'
         /\ Ran(t, i)' => Ran(t, i) \/ (t = tab /\ i = at /\ (ChartRuns \/ OtherRuns))
<1>1. /\ ChartRuns \/ OtherRuns \/ TabTurns \/ NothingBuilt
      /\ Tabs \in Nat /\ Len(page.script) \in Nat /\ i \in 1..Len(page.script)
      /\ tab \in 1..(Tabs + 1) /\ at \in 1..(Len(page.script) + 1)
  BY StepKinds, ScriptTypes DEF ScriptType
<1>2. CASE ChartRuns \/ OtherRuns
  <2>1. tab' = tab /\ at' = at + 1
    BY <1>2 DEF ChartRuns, OtherRuns, Charting
  <2> QED
    BY <1>1, <1>2, <2>1 DEF Ran
<1>3. CASE TabTurns
  <2>1. tab' = tab + 1 /\ at' = 1 /\ at > Len(page.script)
    BY <1>3 DEF TabTurns
  <2> QED
    BY <1>1, <2>1 DEF Ran
<1>4. CASE NothingBuilt
  BY <1>4 DEF NothingBuilt, Ran
<1> QED
  BY <1>1, <1>2, <1>3, <1>4

\* Every step that draws nothing keeps what is drawn as it is.
LEMMA QuietStep ==
  ASSUME PageInv, [Next]_vars, UNCHANGED <<groupedData, boxes>>
  PROVE  PageInv'
<1>1. UNCHANGED <<page, rawData>> /\ ScriptType'
  BY StepKinds DEF PageInv
<1>2. DrawnType'
  BY <1>1, NamesKept DEF PageInv, DrawnType
<1>3. SeriesBelong'
  BY <1>1, NamesKept DEF PageInv, SeriesBelong
<1>4. GroupsCharted'
  <2> SUFFICES ASSUME NEW t \in 1..Tabs, NEW g \in Groups, groupedData[t][g] # <<>>
               PROVE  \E i \in DOMAIN page.script :
                        Ran(t, i)' /\ IsChart(page, i) /\ GroupKey(page.script[i].of) = g
    BY <1>1, NamesKept DEF GroupsCharted
  <2>1. PICK i \in DOMAIN page.script :
          Ran(t, i) /\ IsChart(page, i) /\ GroupKey(page.script[i].of) = g
    BY DEF PageInv, GroupsCharted
  <2> QED
    BY <2>1, RanStays DEF PageInv
<1> QED
  BY <1>1, <1>2, <1>3, <1>4 DEF PageInv

\* A chart shows its own tab and its own group.
LEMMA ChartStep ==
  ASSUME PageInv, [Next]_vars, ChartRuns
  PROVE  PageInv'
<1> DEFINE n == Len(boxes)
           list == groupedData'[tab][NowGroup]
<1>1. UNCHANGED <<page, rawData>> /\ ScriptType'
  BY StepKinds DEF PageInv
<1>2. ScriptType /\ DrawnType /\ Charting /\ tab' = tab
  BY DEF PageInv, ChartRuns, Charting
<1>3. DrawnType'
  <2>1. /\ groupedData' \in [1..Tabs -> [Groups -> Seq(Series)]]
        /\ \A t \in 1..Tabs : \A g \in Groups : groupedData'[t][g] \in Seq(SeriesOf(t, g))
        /\ boxes' \in Seq(Box)
    BY <1>2, SeriesJoins, BoxJoins
  <2> QED
    BY <1>1, <2>1, NamesKept DEF DrawnType
<1>4. /\ list \in Seq(SeriesOf(tab, NowGroup)) /\ list # <<>> /\ tab \in 1..Tabs
      /\ DOMAIN boxes' = 1..(n + 1) /\ DOMAIN boxes = 1..n /\ n \in Nat
      /\ \A k \in 1..n : SamePlace(boxes'[k], boxes[k]) /\ boxes'[k].plot = boxes[k].plot
      /\ Drew(boxes'[n + 1], Now.as, NowGroup, list)
  BY <1>2, SeriesJoins, BoxJoins
<1> HIDE DEF n, list
<1>5. SeriesBelong'
  <2> SUFFICES ASSUME NEW k \in 1..(n + 1), NEW i \in DOMAIN boxes'[k].plot
               PROVE  /\ boxes'[k].plot[i].series.tab = boxes'[k].tab
                      /\ GroupKey(boxes'[k].plot[i].series.source) = boxes'[k].group
    BY <1>1, <1>4, NamesKept DEF SeriesBelong
  <2>1. CASE k \in 1..n
    BY <1>4, <2>1 DEF PageInv, SeriesBelong, SamePlace
  <2>2. CASE k = n + 1
    <3>1. boxes'[k].tab = tab /\ boxes'[k].group = NowGroup /\ boxes'[k].plot = Plot(Now.as, list)
      BY <1>4, <2>2 DEF Drew
    <3>2. i \in DOMAIN list /\ boxes'[k].plot[i].series = list[i]
      BY <1>2, <1>4, <3>1, PlotShape, SeriesOfType
    <3>3. list[i] \in SeriesOf(tab, NowGroup)
      BY <1>4, <3>2, LenProperties, ElementOfSeq
    <3> QED
      BY <1>4, <3>1, <3>2, <3>3, SeriesOfType
  <2> QED
    BY <1>4, <2>1, <2>2
<1>6. GroupsCharted'
  <2> SUFFICES ASSUME NEW t \in 1..Tabs, NEW g \in Groups, groupedData'[t][g] # <<>>
               PROVE  \E i \in DOMAIN page.script :
                        Ran(t, i)' /\ IsChart(page, i) /\ GroupKey(page.script[i].of) = g
    BY <1>1, NamesKept DEF GroupsCharted
  <2>1. CASE t = tab /\ g = NowGroup
    <3>1. PICK i \in DOMAIN page.script :
            i = at /\ IsChart(page, i) /\ GroupKey(page.script[i].of) = g
      BY <1>2, <2>1, SeriesJoins DEF NowGroup, Now
    <3>2. Ran(t, i)'
      <4>1. at' = at + 1 /\ at \in Nat
        BY <1>2 DEF ChartRuns, ScriptType
      <4> QED
        BY <1>2, <2>1, <3>1, <4>1 DEF Ran
    <3> QED
      BY <3>1, <3>2
  <2>2. CASE ~(t = tab /\ g = NowGroup)
    <3>1. groupedData[t][g] # <<>>
      BY <1>2, <2>2, SeriesJoins
    <3>2. PICK i \in DOMAIN page.script :
            Ran(t, i) /\ IsChart(page, i) /\ GroupKey(page.script[i].of) = g
      BY <3>1 DEF PageInv, GroupsCharted
    <3> QED
      BY <1>2, <3>2, RanStays
  <2> QED
    BY <2>1, <2>2
<1> QED
  BY <1>1, <1>3, <1>5, <1>6 DEF PageInv

\* Every step keeps the invariant.
LEMMA NextPage == PageInv /\ [Next]_vars => PageInv'
<1> SUFFICES ASSUME PageInv, [Next]_vars PROVE PageInv'
  OBVIOUS
<1>1. ChartRuns \/ UNCHANGED <<groupedData, boxes>>
  BY StepKinds DEF PageInv, OtherRuns, TabTurns, NothingBuilt
<1> QED
  BY <1>1, QuietStep, ChartStep

\* At first no group has a series and there is no box.
LEMMA InitPage == Init => PageInv
<1> SUFFICES ASSUME Init PROVE PageInv
  OBVIOUS
<1>1. ScriptType
  <2>1. page.script \in Seq(Statements) /\ Tabs \in Nat
    BY PagesAssumption DEF Init
  <2>2. Len(page.script) \in Nat
    BY <2>1, LenProperties
  <2> QED
    BY <2>1, <2>2 DEF Init, ScriptType
<1>2. groupedData = [t \in 1..Tabs |-> [g \in Groups |-> <<>>]] /\ boxes = <<>>
  BY DEF Init
<1>3. \A S : <<>> \in Seq(S) /\ DOMAIN <<>> = {}
  OBVIOUS
<1>4. DrawnType
  BY <1>2, <1>3 DEF DrawnType
<1>5. GroupsCharted /\ SeriesBelong
  BY <1>2, <1>3 DEF GroupsCharted, SeriesBelong
<1> QED
  BY <1>1, <1>4, <1>5 DEF PageInv

\* A chart shows only series of its own simulation and of its own group, on every
\* page and whichever traces are missing (drawChart, createGraphContainer).
THEOREM ChartsShowTheirOwn == Spec => []SeriesBelong
<1>1. PageInv => SeriesBelong
  BY DEF PageInv
<1> QED
  BY <1>1, InitPage, NextPage, PTL DEF Spec

-----------------------------------------------------------------------------
\* The ids.  What is in a box.
LEMMA BoxType ==
  ASSUME NEW b \in Box
  PROVE  /\ b.tab \in 1..Tabs /\ b.group \in Groups /\ b.id \in Ids
         /\ b.id[1] \in Nat /\ b.id[2] \in Nat
<1>1. b.tab \in 1..Tabs /\ b.group \in Groups /\ b.id \in Ids
  BY DEF Box
<1> QED
  BY <1>1 DEF Ids

\* A statement that is no heading of these kinds adds none.
LEMMA NoneSinceStep ==
  ASSUME ScriptType, UNCHANGED page, at' = at + 1, at \in Nat, NEW i \in Nat, NEW kinds,
         NoneSince(i, kinds), Now.do \notin kinds
  PROVE  NoneSince(i, kinds)'
<1> SUFFICES ASSUME NEW k \in i..at PROVE page.script[k].do \notin kinds
  BY DEF NoneSince
<1> QED
  BY DEF NoneSince, Now

\* However the counters move, the numbers of a box stay behind them.
LEMMA NumberedStays ==
  ASSUME ScriptType, [Next]_vars, NEW b \in Box, Numbered(b)
  PROVE  Numbered(b)'
<1> DEFINE H == {"section", "subsection"}
           OfGroup(i) == IsChart(page, i) /\ GroupKey(page.script[i].of) = b.id[3]
<1>1. /\ UNCHANGED page /\ (ChartRuns \/ OtherRuns \/ TabTurns \/ NothingBuilt)
      /\ tab \in Nat /\ at \in Nat \ {0}
      /\ currentSectionNumber \in Nat /\ currentSubSectionNumber \in Nat
      /\ b.tab \in Nat /\ b.id[1] \in Nat /\ b.id[2] \in Nat
  BY StepKinds, ScriptTypes, BoxType DEF ScriptType
<1>2. CASE /\ tab' = tab /\ at' = at + 1 /\ UNCHANGED counters
           /\ Now.do \notin {"section", "subsection"}
  <2>1. \A i \in Nat : /\ NoneSince(i, {"section"}) => NoneSince(i, {"section"})'
                       /\ NoneSince(i, H) => NoneSince(i, H)'
    BY <1>1, <1>2, NoneSinceStep
  <2>2. ASSUME b.id[1] = currentSectionNumber, b.id[2] = currentSubSectionNumber, b.tab = tab
        PROVE  \E i \in 1..at : OfGroup(i) /\ NoneSince(i + 1, H)'
    <3>1. PICK i \in 1..(at-1) : OfGroup(i) /\ NoneSince(i + 1, H)
      BY <2>2 DEF Numbered
    <3> QED
      BY <1>1, <2>1, <3>1
  <2>3. /\ \A i : GroupKey(page.script[i].of)' = GroupKey(page.script[i].of)
        /\ \A i : IsChart(page, i)' = IsChart(page, i)
        /\ (at - 1)' = at
    BY <1>1, <1>2 DEF GroupKey, IsChart
  <2> QED
    BY <1>1, <1>2, <2>1, <2>2, <2>3 DEF Numbered, counters
<1>3. CASE OtherRuns /\ Now.do = "section"
  <2>1. currentSectionNumber' = currentSectionNumber + 1 /\ tab' = tab
    BY <1>3 DEF OtherRuns, StartSection
  <2>2. b.id[1] < currentSectionNumber' /\ b.tab <= tab'
    BY <1>1, <2>1 DEF Numbered
  <2> QED
    BY <1>1, <2>1, <2>2 DEF Numbered
<1>4. CASE OtherRuns /\ Now.do = "subsection"
  <2>1. /\ currentSectionNumber' = currentSectionNumber /\ tab' = tab /\ at' = at + 1
        /\ currentSubSectionNumber' = currentSubSectionNumber + 1
    BY <1>4 DEF OtherRuns, StartSubSection
  <2>2. NoneSince(1, {"section"}) => NoneSince(1, {"section"})'
    BY <1>1, <1>4, <2>1, NoneSinceStep
  <2>3. b.id[1] = currentSectionNumber => b.id[2] < currentSubSectionNumber'
    BY <1>1, <2>1 DEF Numbered
  <2> QED
    BY <1>1, <2>1, <2>2, <2>3 DEF Numbered
<1>5. CASE TabTurns
  <2>1. tab' = tab + 1 /\ at' = 1 /\ UNCHANGED counters
    BY <1>5 DEF TabTurns
  <2>2. NoneSince(1, {"section"})'
    BY <2>1 DEF NoneSince
  <2>3. b.tab < tab'
    BY <1>1, <2>1 DEF Numbered
  <2> QED
    BY <1>1, <2>1, <2>2, <2>3 DEF Numbered, counters
<1>6. CASE NothingBuilt
  BY <1>1, <1>6 DEF NothingBuilt, Numbered, NoneSince, IsChart, GroupKey, counters
<1>7. ChartRuns => tab' = tab /\ at' = at + 1 /\ UNCHANGED counters /\ Now.do = "chart"
  BY DEF ChartRuns, Charting
<1>8. OtherRuns => /\ tab' = tab /\ at' = at + 1
                   /\ \/ Now.do \in {"section", "subsection"}
                      \/ Now.do = "nav" /\ UNCHANGED counters
  BY DEF OtherRuns
<1> QED
  BY <1>1, <1>2, <1>3, <1>4, <1>5, <1>6, <1>7, <1>8

\* Where charts are apart, no box has the id of the chart that is drawn now: one of
\* an earlier tab is of an earlier section, one of this tab of an earlier heading.
LEMMA IdIsNew ==
  ASSUME ScriptType, DrawnType, ChartsApart(page), IdsInv, Charting, NEW k \in DOMAIN boxes
  PROVE  boxes[k].id # CreatedId(NowGroup)
<1> SUFFICES ASSUME boxes[k].id = CreatedId(NowGroup) PROVE FALSE
  OBVIOUS
<1> DEFINE b == boxes[k]
<1>1. /\ b.id[1] = currentSectionNumber /\ b.id[2] = currentSubSectionNumber
      /\ b.id[3] = NowGroup
  BY DEF CreatedId
<1>2. Numbered(b) /\ b \in Box
  BY LenProperties, ElementOfSeq DEF IdsInv, DrawnType
<1>3. at \in DOMAIN page.script /\ IsChart(page, at) /\ tab \in 1..Tabs /\ b.tab \in 1..Tabs
  BY <1>2, SeriesJoins, BoxType
<1> HIDE DEF b
<1>4. CASE b.tab < tab
  <2>1. NoneSince(1, {"section"})
    BY <1>1, <1>2, <1>4 DEF Numbered
  <2>2. \E j \in 1..(at-1) : page.script[j].do = "section"
    BY <1>3 DEF ChartsApart
  <2> QED
    BY <2>1, <2>2 DEF NoneSince
<1>5. CASE b.tab = tab
  <2>1. PICK i \in 1..(at-1) : /\ IsChart(page, i) /\ GroupKey(page.script[i].of) = NowGroup
                               /\ NoneSince(i + 1, {"section", "subsection"})
    BY <1>1, <1>2, <1>5 DEF Numbered
  <2>2. SameGroup(page, at, i)
    BY <2>1 DEF SameGroup, NowGroup, Now, GroupKey
  <2>3. \E j \in (i+1)..(at-1) : page.script[j].do \in {"section", "subsection"}
    BY <1>3, <2>1, <2>2 DEF ChartsApart
  <2> QED
    BY <2>1, <2>3 DEF NoneSince
<1>6. b.tab <= tab
  BY <1>2 DEF Numbered
<1> QED
  BY <1>3, <1>4, <1>5, <1>6

\* Every step keeps the ids unique and numbered.
LEMMA NextIds ==
  ASSUME PageInv, ChartsApart(page), IdsInv, [Next]_vars
  PROVE  IdsInv'
<1>1. /\ ScriptType /\ DrawnType /\ UNCHANGED page /\ boxes \in Seq(Box)
      /\ ChartRuns \/ UNCHANGED boxes
  BY StepKinds DEF PageInv, DrawnType, OtherRuns, TabTurns, NothingBuilt
<1>2. \A b \in Box : Numbered(b) => Numbered(b)'
  BY <1>1, NumberedStays
<1>3. \A k \in DOMAIN boxes : boxes[k] \in Box /\ Numbered(boxes[k])
  BY <1>1, LenProperties, ElementOfSeq DEF IdsInv
<1>4. CASE UNCHANGED boxes
  <2>1. ASSUME NEW k \in DOMAIN boxes' PROVE Numbered(boxes[k])'
    <3>1. PICK b \in Box : b = boxes[k] /\ b = boxes'[k] /\ Numbered(b)
      BY <1>3, <1>4
    <3>2. Numbered(b)'
      BY <1>2, <3>1
    <3> QED
      BY <3>1, <3>2 DEF Numbered
  <2>2. IdsUnique'
    BY <1>4 DEF IdsInv, IdsUnique
  <2> QED
    BY <2>1, <2>2 DEF IdsInv
<1>5. CASE ChartRuns
  <2> DEFINE n == Len(boxes)
             list == groupedData'[tab][NowGroup]
  <2>1. Charting
    BY <1>5 DEF ChartRuns
  <2>2. \A k \in DOMAIN boxes : boxes[k].id # CreatedId(NowGroup)
    BY <1>1, <2>1, IdIsNew
  <2>3. /\ DOMAIN boxes' = 1..(n + 1) /\ DOMAIN boxes = 1..n /\ n \in Nat
        /\ boxes' \in Seq(Box)
        /\ Drew(boxes'[n + 1], Now.as, NowGroup, list)
        /\ \A k \in 1..n : boxes'[k] = boxes[k]
    BY <1>1, <2>1, <2>2, BoxJoins
  <2> HIDE DEF n, list
  <2>4. boxes'[n + 1].id = CreatedId(NowGroup) /\ boxes'[n + 1].tab = tab
    BY <2>3 DEF Drew
  <2>5. IdsUnique'
    <3> SUFFICES ASSUME NEW j \in 1..(n + 1), NEW k \in 1..(n + 1), j # k
                 PROVE  boxes'[j].id # boxes'[k].id
      BY <2>3 DEF IdsUnique
    <3> QED
      BY <2>2, <2>3, <2>4 DEF IdsInv, IdsUnique
  <2>6. ASSUME NEW k \in 1..n PROVE Numbered(boxes[k])'
    <3>1. PICK b \in Box : b = boxes[k] /\ b = boxes'[k] /\ Numbered(b)
      BY <1>3, <2>3
    <3>2. Numbered(b)'
      BY <1>2, <3>1
    <3> QED
      BY <3>1, <3>2 DEF Numbered
  <2>7. ASSUME NEW k, k = n + 1 PROVE Numbered(boxes[k])'
    <3>1. /\ tab' = tab /\ at' = at + 1 /\ at \in Nat \ {0} /\ UNCHANGED counters
          /\ tab \in Nat /\ currentSectionNumber \in Nat /\ currentSubSectionNumber \in Nat
      BY <1>1, <1>5, ScriptTypes DEF ChartRuns, Charting, ScriptType
    <3>2. PICK b : b = boxes'[k]
      OBVIOUS
    <3>3. /\ b.tab = tab /\ b.id[1] = currentSectionNumber /\ b.id[2] = currentSubSectionNumber
          /\ b.id[3] = NowGroup
      BY <2>4, <2>7, <3>2 DEF CreatedId
    <3>4. PICK i \in 1..at : i = at /\ IsChart(page, i) /\ GroupKey(page.script[i].of) = NowGroup
      BY <1>1, <2>1, <3>1, SeriesJoins DEF NowGroup, Now
    <3>5. /\ IsChart(page, i)' /\ GroupKey(page.script[i].of)' = b.id[3]
      BY <1>1, <3>3, <3>4 DEF IsChart, GroupKey
    <3>6. NoneSince(i + 1, {"section", "subsection"})'
      BY <3>1, <3>4 DEF NoneSince
    <3>7. Numbered(b)'
      BY <3>1, <3>3, <3>4, <3>5, <3>6 DEF Numbered, counters
    <3> QED
      BY <3>2, <3>7 DEF Numbered
  <2>8. \A k \in DOMAIN boxes' : k \in 1..n \/ k = n + 1
    BY <2>3
  <2> QED
    BY <2>5, <2>6, <2>7, <2>8 DEF IdsInv
<1> QED
  BY <1>1, <1>4, <1>5

\* Where the charts of a group are in different subsections, the ids of the
\* containers are unique in the document, across all tabs (createGraphContainer,
\* startSection, startSubSection).
THEOREM IdsAreUnique == Spec => [](ChartsApart(page) => IdsUnique)
<1>1. Init => IdsInv
  BY DEF Init, IdsInv, IdsUnique
<1>2. PageInv /\ (ChartsApart(page) => IdsInv) /\ [Next]_vars => (ChartsApart(page) => IdsInv)'
  <2> SUFFICES ASSUME PageInv, ChartsApart(page) => IdsInv, [Next]_vars, ChartsApart(page)'
               PROVE  IdsInv'
    OBVIOUS
  <2>1. ChartsApart(page)
    BY StepKinds DEF PageInv
  <2> QED
    BY <2>1, NextIds
<1>3. (ChartsApart(page) => IdsInv) => (ChartsApart(page) => IdsUnique)
  BY DEF IdsInv
<1> QED
  BY <1>1, <1>2, <1>3, InitPage, NextPage, PTL DEF Spec

-----------------------------------------------------------------------------
\* A pie that is alone in its group finds the group empty.
LEMMA PieFindsNothing ==
  ASSUME PageInv, PiesAlone(page), Charting, Now.as = "pie"
  PROVE  groupedData[tab][NowGroup] = <<>>
<1> SUFFICES ASSUME groupedData[tab][NowGroup] # <<>> PROVE FALSE
  OBVIOUS
<1>1. /\ tab \in 1..Tabs /\ NowGroup \in Groups /\ at \in DOMAIN page.script
      /\ IsChart(page, at) /\ at \in Nat
  BY SeriesJoins DEF PageInv, ScriptType
<1>2. PICK i \in DOMAIN page.script :
        Ran(tab, i) /\ IsChart(page, i) /\ GroupKey(page.script[i].of) = NowGroup
  BY <1>1 DEF PageInv, GroupsCharted
<1>3. i # at
  BY <1>1, <1>2 DEF Ran, PageInv, ScriptType
<1>4. SameGroup(page, at, i)
  BY <1>2 DEF SameGroup, NowGroup, Now, GroupKey
<1> QED
  BY <1>1, <1>2, <1>3, <1>4 DEF PiesAlone, Now

\* The chart that is drawn shows the series it is drawn for, and a pie its trace.
LEMMA ChartShowsIts ==
  ASSUME PageInv, PiesAlone(page), Charting
  PROVE  LET plot == Plot(Now.as, groupedData'[tab][NowGroup])
         IN  /\ \E m \in DOMAIN plot : plot[m].series = NowSeries
             /\ Now.as = "pie" => plot[1].points = rawData[tab][Now.of]
<1> DEFINE before == groupedData[tab][NowGroup]
           list == groupedData'[tab][NowGroup]
           S == SeriesOf(tab, NowGroup)
           plot == Plot(Now.as, list)
<1>1. /\ ScriptType /\ DrawnType /\ tab \in 1..Tabs /\ NowGroup \in Groups
      /\ S \subseteq Series /\ NowSeries \in S
      /\ list \in Seq(S) /\ list # <<>> /\ before \in Seq(S) /\ list = Append(before, NowSeries)
  BY SeriesJoins, BoxJoins, SeriesOfType DEF PageInv, DrawnType
<1> HIDE DEF list, before, S
<1>2. /\ 1 \in DOMAIN plot
      /\ \A i \in DOMAIN plot : plot[i].series = list[i]
      /\ Now.as # "pie" => DOMAIN plot = DOMAIN list
      /\ Now.as = "pie" => plot[1].points = rawData[list[1].tab][list[1].source]
  <2> DEFINE kind == Now.as
  <2> HIDE DEF kind
  <2>1. LET shown == Plot(kind, list)
        IN  /\ 1 \in DOMAIN shown
            /\ \A i \in DOMAIN shown : shown[i].series = list[i]
            /\ kind # "pie" => DOMAIN shown = DOMAIN list
            /\ kind = "pie" => shown[1].points = rawData[list[1].tab][list[1].source]
    <3>1. ScriptType /\ S \subseteq Series /\ list \in Seq(S) /\ list # <<>>
      BY <1>1
    <3> QED
      BY <3>1, PlotShape
  <2> QED
    BY <2>1 DEF kind
<1> HIDE DEF plot
<1>3. /\ Len(list) = Len(before) + 1 /\ Len(before) \in Nat /\ list[Len(before) + 1] = NowSeries
      /\ Len(before) + 1 \in DOMAIN list
  <2>1. Len(list) = Len(before) + 1 /\ Len(before) \in Nat /\ list[Len(before) + 1] = NowSeries
    BY <1>1
  <2>2. DOMAIN list = 1..Len(list)
    BY <1>1, LenProperties
  <2> QED
    BY <2>1, <2>2
<1>4. CASE Now.as = "pie"
  <2>1. before = <<>>
    BY <1>4, PieFindsNothing DEF before
  <2>2. Len(before) = 0
    BY <2>1
  <2>3. list[1] = NowSeries
    BY <1>3, <2>2
  <2>4. NowSeries.tab = tab /\ NowSeries.source = Now.of
    BY DEF NowSeries
  <2> QED
    BY <1>2, <1>4, <2>3, <2>4 DEF plot, list
<1>5. CASE Now.as # "pie"
  BY <1>2, <1>3, <1>5 DEF plot, list
<1> QED
  BY <1>4, <1>5

\* Every chart that has run is there after a step, too.
LEMMA NextCharts ==
  ASSUME PageInv, PiesAlone(page), ChartsDrawn, [Next]_vars
  PROVE  ChartsDrawn'
<1>1. /\ ScriptType /\ DrawnType /\ UNCHANGED page /\ tab \in 1..(Tabs + 1)
      /\ ChartRuns \/ (OtherRuns /\ UNCHANGED boxes) \/ (UNCHANGED boxes /\ ~OtherRuns)
  BY StepKinds DEF PageInv, ScriptType, OtherRuns, TabTurns, NothingBuilt
<1> SUFFICES ASSUME NEW t \in 1..Tabs, NEW i \in DOMAIN page.script, Ran(t, i)', IsChart(page, i)
             PROVE  \E k \in DOMAIN boxes' : \E m \in DOMAIN boxes'[k].plot :
                      /\ boxes'[k].tab = t
                      /\ boxes'[k].plot[m].series = [tab |-> t, source |-> page.script[i].of]
  BY <1>1 DEF ChartsDrawn
<1>2. CASE Ran(t, i)
  <2>1. PICK k \in DOMAIN boxes : \E m \in DOMAIN boxes[k].plot :
          /\ boxes[k].tab = t
          /\ boxes[k].plot[m].series = [tab |-> t, source |-> page.script[i].of]
    BY <1>2 DEF ChartsDrawn
  <2>2. CASE UNCHANGED boxes
    BY <2>1, <2>2
  <2>3. CASE ChartRuns
    <3>1. k \in DOMAIN boxes' /\ SamePlace(boxes'[k], boxes[k]) /\ boxes'[k].plot = boxes[k].plot
      BY <1>1, <2>3, BoxJoins DEF ChartRuns
    <3> QED
      BY <2>1, <3>1 DEF SamePlace
  <2> QED
    BY <1>1, <2>2, <2>3
<1>3. CASE ~Ran(t, i)
  <2>1. t = tab /\ i = at /\ (ChartRuns \/ OtherRuns)
    BY <1>1, <1>3, RanStays
  <2>2. ~OtherRuns
    BY <2>1 DEF OtherRuns, IsChart, Now
  <2>3. ChartRuns /\ Charting
    BY <2>1, <2>2 DEF ChartRuns
  <2> DEFINE n == Len(boxes)
             plot == Plot(Now.as, groupedData'[tab][NowGroup])
  <2>4. n + 1 \in DOMAIN boxes' /\ boxes'[n + 1].tab = tab /\ boxes'[n + 1].plot = plot
    <3>1. /\ DOMAIN boxes' = 1..(n + 1) /\ n \in Nat
          /\ Drew(boxes'[n + 1], Now.as, NowGroup, groupedData'[tab][NowGroup])
      BY <1>1, <2>3, BoxJoins
    <3> QED
      BY <3>1 DEF Drew
  <2>5. PICK m \in DOMAIN plot : plot[m].series = NowSeries
    BY <2>3, ChartShowsIts
  <2>6. NowSeries = [tab |-> t, source |-> page.script[i].of]
    BY <2>1 DEF NowSeries, Now
  <2> HIDE DEF n, plot
  <2> QED
    BY <2>1, <2>4, <2>5, <2>6
<1> QED
  BY <1>2, <1>3

\* Where a pie is the only chart of its group, a page is shown only when every chart
\* of every simulation is on it (init, drawChart).
THEOREM ShownPagesAreWhole == Spec => [](PiesAlone(page) => ShownWhole)
<1>1. Init => ChartsDrawn
  <2> SUFFICES ASSUME Init, NEW t \in 1..Tabs, NEW i \in DOMAIN page.script, Ran(t, i) PROVE FALSE
    BY DEF ChartsDrawn
  <2>1. ScriptType
    BY InitPage DEF PageInv
  <2>2. i \in Nat /\ i >= 1 /\ t >= 1
    BY <2>1, ScriptTypes
  <2> QED
    BY <2>2 DEF Init, Ran
<1>2. PageInv /\ (PiesAlone(page) => ChartsDrawn) /\ [Next]_vars => (PiesAlone(page) => ChartsDrawn)'
  <2> SUFFICES ASSUME PageInv, PiesAlone(page) => ChartsDrawn, [Next]_vars, PiesAlone(page)'
               PROVE  ChartsDrawn'
    OBVIOUS
  <2>1. PiesAlone(page)
    BY StepKinds DEF PageInv
  <2> QED
    BY <2>1, NextCharts
<1>3. PageInv /\ (PiesAlone(page) => ChartsDrawn) => (PiesAlone(page) => ShownWhole)
  <2> SUFFICES ASSUME PageInv, ChartsDrawn, status = "shown", NEW t \in 1..Tabs, NEW source \in Charted
               PROVE  \E k \in DOMAIN boxes : \E i \in DOMAIN boxes[k].plot :
                        boxes[k].tab = t /\ boxes[k].plot[i].series = [tab |-> t, source |-> source]
    BY DEF ShownWhole
  <2>1. PICK i \in DOMAIN page.script : IsChart(page, i) /\ source = page.script[i].of
    BY DEF Charted, IsChart
  <2>2. Ran(t, i)
    BY ScriptTypes DEF PageInv, ScriptType, Ran
  <2> QED
    BY <2>1, <2>2 DEF ChartsDrawn
<1> QED
  BY <1>1, <1>2, <1>3, InitPage, NextPage, PTL DEF Spec

-----------------------------------------------------------------------------
\* Only charts are pies.
LEMMA PiesAreCharts ==
  ASSUME ScriptType, NEW i \in DOMAIN page.script, page.script[i].as = "pie"
  PROVE  IsChart(page, i)
<1>1. page.script[i] \in Statements
  BY ScriptTypes
<1> QED
  BY <1>1 DEF Statements, IsChart

\* A pie and its total stay whole, and a new one is.
LEMMA NextPies ==
  ASSUME PageInv, ChartsApart(page), PiesAlone(page), IdsInv, PiesAreWhole, [Next]_vars
  PROVE  PiesAreWhole'
<1>1. /\ ScriptType /\ DrawnType /\ UNCHANGED <<page, rawData>>
      /\ ChartRuns \/ UNCHANGED boxes
  BY StepKinds DEF PageInv, OtherRuns, TabTurns, NothingBuilt
<1>2. \A source : GroupKey(source)' = GroupKey(source)
  BY <1>1, NamesKept
<1>3. CASE UNCHANGED boxes
  BY <1>1, <1>2, <1>3 DEF PiesAreWhole
<1>4. CASE ChartRuns
  <2> DEFINE n == Len(boxes)
             list == groupedData'[tab][NowGroup]
  <2>1. Charting
    BY <1>4 DEF ChartRuns
  <2>2. \A k \in DOMAIN boxes : boxes[k].id # CreatedId(NowGroup)
    BY <1>1, <2>1, IdIsNew
  <2>3. /\ DOMAIN boxes' = 1..(n + 1) /\ DOMAIN boxes = 1..n /\ n \in Nat
        /\ Drew(boxes'[n + 1], Now.as, NowGroup, list)
        /\ \A k \in 1..n : boxes'[k] = boxes[k]
        /\ Now.as = "pie" => boxes'[n + 1].totals = <<tab>>
    BY <1>1, <2>1, <2>2, BoxJoins
  <2>4. Now.as = "pie" => Plot(Now.as, list)[1].points = rawData[tab][Now.of]
    BY <2>1, ChartShowsIts
  <2> HIDE DEF n, list
  <2> SUFFICES ASSUME NEW i \in DOMAIN page.script, NEW k \in 1..(n + 1),
                      page.script[i].as = "pie", boxes'[k].group = GroupKey(page.script[i].of)
               PROVE  /\ boxes'[k].totals = <<boxes'[k].tab>>
                      /\ boxes'[k].plot[1].points = rawData[boxes'[k].tab][page.script[i].of]
    BY <1>1, <1>2, <2>3 DEF PiesAreWhole
  <2>5. CASE k \in 1..n
    BY <2>3, <2>5 DEF PiesAreWhole
  <2>6. CASE k = n + 1
    <3>1. /\ boxes'[k].tab = tab /\ boxes'[k].group = NowGroup
          /\ boxes'[k].plot = Plot(Now.as, list)
      BY <2>3, <2>6 DEF Drew
    <3>2. at \in DOMAIN page.script /\ IsChart(page, at)
      BY <1>1, <2>1, SeriesJoins
    <3>3. SameGroup(page, i, at)
      BY <3>1 DEF SameGroup, NowGroup, Now, GroupKey
    <3>4. i = at
      BY <1>1, <3>2, <3>3, PiesAreCharts DEF PiesAlone
    <3>5. Now = page.script[i]
      BY <3>4 DEF Now
    <3> QED
      BY <2>3, <2>4, <2>6, <3>1, <3>5
  <2> QED
    BY <2>3, <2>5, <2>6
<1> QED
  BY <1>1, <1>3, <1>4

\* On such pages a pie has a slice for each point of its trace, whatever drawChart
\* adds to the array, and the total of its own tab, although it is placed through the
\* whole document (showPieChart).
THEOREM PiesShowTheirTrace ==
  Spec => [](ChartsApart(page) /\ PiesAlone(page) => PiesAreWhole)
<1> DEFINE Fit == ChartsApart(page) /\ PiesAlone(page)
           Inv == IdsInv /\ PiesAreWhole
<1>1. Init => Inv
  BY DEF Init, IdsInv, IdsUnique, PiesAreWhole
<1>2. PageInv /\ (Fit => Inv) /\ [Next]_vars => (Fit => Inv)'
  <2> SUFFICES ASSUME PageInv, Fit => Inv, [Next]_vars, Fit' PROVE Inv'
    OBVIOUS
  <2>1. Fit
    BY StepKinds DEF PageInv
  <2> QED
    BY <2>1, NextIds, NextPies
<1>3. (Fit => Inv) => (Fit => PiesAreWhole)
  OBVIOUS
<1> QED
  BY <1>1, <1>2, <1>3, InitPage, NextPage, PTL DEF Spec

\* All of this holds of every page that meets the two conditions, as the shipped
\* one does (MCDashboard).
THEOREM FitPagesAreRight ==
  ASSUME \A p \in Pages : ChartsApart(p) /\ PiesAlone(p)
  PROVE  Spec => [](IdsUnique /\ SeriesBelong /\ PiesAreWhole /\ ShownWhole)
<1>1. PageInv => ChartsApart(page) /\ PiesAlone(page)
  BY DEF PageInv, ScriptType
<1> QED
  BY <1>1, InitPage, NextPage, ChartsShowTheirOwn, IdsAreUnique, ShownPagesAreWhole,
     PiesShowTheirTrace, PTL DEF Spec
-----------------------------------------------------------------------------
\* Exceptions.  A trace that carries the tags of drawChart was charted in its tab.
TagsFollowCharts ==
  \A x \in tagged : \E t \in 1..Tabs : \E i \in DOMAIN page.script :
    x = <<t, page.script[i].of>> /\ Ran(t, i) /\ IsChart(page, i)

\* Only drawChart adds tags, and to the trace of the chart that runs.
LEMMA NextTags ==
  ASSUME PageInv, TagsFollowCharts, [Next]_vars
  PROVE  TagsFollowCharts'
<1>1. ScriptType /\ UNCHANGED page
  BY StepKinds DEF PageInv
<1>2. \A x \in tagged : \E t \in 1..Tabs : \E i \in DOMAIN page.script :
        x = <<t, page.script[i].of>> /\ Ran(t, i)' /\ IsChart(page, i)
  BY <1>1, RanStays DEF TagsFollowCharts
<1>3. CASE tagged' = tagged
  BY <1>1, <1>2, <1>3 DEF TagsFollowCharts, IsChart
<1>4. CASE RunStatement /\ tagged' # tagged
  <2>1. /\ tab \in 1..Tabs /\ at \in DOMAIN page.script /\ IsChart(page, at)
        /\ tagged' = tagged \cup {<<tab, page.script[at].of>>}
    <3>1. /\ tab <= Tabs /\ at <= Len(page.script)
          /\ page.script[at].do = "chart" /\ DrawChart(page.script[at].of, page.script[at].as)
      BY <1>4 DEF RunStatement, Statement, built
    <3>2. tab \in 1..Tabs /\ at \in DOMAIN page.script
      BY <1>1, <3>1, ScriptTypes DEF ScriptType
    <3> QED
      BY <3>1, <3>2 DEF DrawChart, IsChart
  <2>2. PICK t \in 1..Tabs, i \in DOMAIN page.script : t = tab /\ i = at
    BY <2>1
  <2>3. Ran(t, i)'
    <3>1. tab' = tab /\ at' = at + 1 /\ at \in Nat
      BY <1>1, <1>4 DEF RunStatement, ScriptType
    <3> QED
      BY <2>2, <3>1 DEF Ran
  <2>4. tagged' = tagged \cup {<<t, page.script[i].of>>} /\ IsChart(page, i)
    BY <2>1, <2>2
  <2> QED
    BY <1>1, <1>2, <2>3, <2>4 DEF TagsFollowCharts, IsChart
<1>5. RunStatement \/ tagged' = tagged
  BY DEF Next, Initialise, Throw, NextTab, Show, Click, vars, built
<1> QED
  BY <1>3, <1>4, <1>5

\* Where nothing is missing from data.js, no statement of such a page throws.
LEMMA NoThrow ==
  ASSUME PageInv, TagsFollowCharts, ListedFirst(page), GroupsConfigured(page), Complete
  PROVE  ~Throw
<1> SUFFICES ASSUME Throw PROVE FALSE
  OBVIOUS
<1> DEFINE s == page.script[at]
<1>1. tab \in 1..Tabs /\ at \in DOMAIN page.script /\ at \in Nat
  BY ScriptTypes DEF Throw, PageInv, ScriptType
<1>2. CASE s.do = "nav" /\ NavThrows(s.of)
  <2>1. PICK t \in 1..Tabs, i \in DOMAIN page.script :
          <<tab, s.of>> = <<t, page.script[i].of>> /\ Ran(t, i) /\ IsChart(page, i)
    BY <1>2 DEF NavThrows, TagsFollowCharts
  <2>2. i \in 1..(at-1) /\ page.script[i].of = s.of
    BY <1>1, <2>1, ScriptTypes DEF Ran, PageInv
  <2> QED
    BY <1>1, <1>2, <2>1, <2>2 DEF ListedFirst
<1>3. CASE s.do = "chart" /\ ChartThrows(s.of)
  <2>1. IsChart(page, at) /\ s.of \in Charted
    BY <1>1, <1>3, ChartOf DEF IsChart
  <2> QED
    BY <1>1, <1>3, <2>1 DEF ChartThrows, Complete, GroupsConfigured, GroupKey
<1> QED
  BY <1>2, <1>3 DEF Throw

\* With every trace in data.js, whole or blank, init never ends with an exception on
\* a page that lists each source before it charts it and charts configured groups
\* only: the safety half of PageAppears (showNavData, drawChart, exist_description).
THEOREM CompleteResultsNeverThrow ==
  Spec => [](ListedFirst(page) /\ GroupsConfigured(page) /\ Complete => status # "dead")
<1> DEFINE Sound == ListedFirst(page) /\ GroupsConfigured(page) /\ Complete
<1>1. Init => TagsFollowCharts /\ (Sound => status # "dead")
  BY DEF Init, TagsFollowCharts
<1>2. PageInv /\ TagsFollowCharts /\ [Next]_vars => TagsFollowCharts'
  BY NextTags
<1>3. PageInv /\ TagsFollowCharts /\ (Sound => status # "dead") /\ [Next]_vars
        => (Sound => status # "dead")'
  <2> SUFFICES ASSUME PageInv, TagsFollowCharts, Sound => status # "dead", [Next]_vars, Sound'
               PROVE  status' # "dead"
    OBVIOUS
  <2>1. UNCHANGED <<page, rawData>>
    BY StepKinds DEF PageInv
  <2>2. Sound
    BY <2>1, NamesKept DEF Complete, Charted
  <2>3. ~Throw
    BY <2>2, NoThrow
  <2> QED
    BY <2>2, <2>3 DEF Next, Initialise, RunStatement, NextTab, Show, Click, vars
<1> QED
  BY <1>1, <1>2, <1>3, InitPage, NextPage, PTL DEF Spec
=============================================================================
