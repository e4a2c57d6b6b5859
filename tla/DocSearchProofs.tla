--------------------------- MODULE DocSearchProofs ----------------------------
(***************************************************************************)
(* The invariants of the documentation search, for every index, page, list *)
(* of words and number of filters.                                         *)
(*                                                                         *)
(* There is a lemma for each handler of SearchBox, which says that it      *)
(* leaves a panel good that it found good; then one for each group of      *)
(* actions.  Base is the part of the invariant that survives within a      *)
(* handler, where the focus has moved and Activate is still to come.       *)
(***************************************************************************)
EXTENDS DocSearchProperties, WellFoundedInduction, TLAPS

(***************************************************************************)
(* The ways through a page of results, whatever its rows, those that match *)
(* and those that are unfolded.                                            *)
(***************************************************************************)
\* The order of the natural numbers as a relation.
Below == {ss \in Nat \X Nat : ss[1] < ss[2]}

LEMMA BelowIsWellFounded == IsWellFoundedOn(Below, Nat)
<1>1. OpToRel(<, Nat) = Below
  BY Zenon DEF OpToRel, Below
<1> QED
  BY Zenon, <1>1, NatLessThanWellFounded

\* Where NavNext stops.
LEMMA Least ==
  ASSUME NEW S, S \subseteq Nat, S # {}
  PROVE  \E n \in S : \A m \in S : n <= m
<1>1. PICK n \in S : \A m \in S : <<m, n>> \notin Below
  BY BelowIsWellFounded, WFMin
<1>2. ASSUME NEW m \in S PROVE n <= m
  <2>1. m \in Nat /\ n \in Nat
    OBVIOUS
  <2>2. <<m, n>> \in Nat \X Nat /\ <<m, n>>[1] = m /\ <<m, n>>[2] = n
    BY <2>1
  <2>3. ~(m < n)
    BY Zenon, <1>1, <2>2 DEF Below
  <2> QED
    BY <2>1, <2>3
<1> QED
  BY <1>2

\* Where NavPrev stops.
LEMMA Greatest ==
  ASSUME NEW S, S \subseteq Nat, S # {}, NEW b \in Nat, \A n \in S : n <= b
  PROVE  \E n \in S : \A m \in S : n >= m
<1> DEFINE T == {n \in Nat : b - n \in S}
<1>1. PICK s \in S : TRUE
  OBVIOUS
<1>2. \A m \in S : b - m \in Nat /\ b - (b - m) = m
  OBVIOUS
<1>3. \A m \in S : b - m \in T
  BY <1>2
<1>4. PICK t \in T : \A u \in T : t <= u
  <2>1. T \subseteq Nat /\ T # {}
    BY <1>1, <1>3
  <2> HIDE DEF T
  <2> QED
    BY <2>1, Least
<1>5. \A m \in S : b - t >= m
  BY SMTT(30), <1>3, <1>4
<1> QED
  BY <1>4, <1>5

-----------------------------------------------------------------------------
\* No page, or the answer to a search that can be made.
ValidPage(page) ==
  page = NoPage \/ (page.index \in DOMAIN Matches /\ page.word \in DOMAIN Matches[page.index])

\* The place <<row, child>> is on display.
OnDisplay(page, open, row, child) ==
  /\ row \in Displayed(page) /\ child \in 0..Kids[row]
  /\ child > 0 => Opened(open, row)

LEMMA DisplayedRows ==
  ASSUME NEW page, ValidPage(page)
  PROVE  /\ Displayed(page) \subseteq Rows
         /\ Displayed(page) \subseteq Nat
         /\ \A i, k \in Displayed(page) : i..k \subseteq Displayed(page)
BY KidsAssumption, MatchesAssumption DEF ValidPage, Displayed

LEMMA NavNextFinds ==
  ASSUME NEW page, ValidPage(page), NEW from \in Int
  PROVE  LET next == NavNext(page, from)
         IN \/ next = Beyond /\ \A i \in Displayed(page) : i < from
            \/ \E row \in Displayed(page) :
                 /\ next = <<row, 0>> /\ next # Beyond
                 /\ row >= from /\ \A i \in Displayed(page) : i >= from => row <= i
<1> DEFINE found == {i \in Displayed(page) : i >= from}
<1> DEFINE least == CHOOSE i \in found : \A j \in found : i <= j
<1>1. Displayed(page) \subseteq Nat
  BY DisplayedRows
<1>2. CASE found = {}
  BY <1>1, <1>2 DEF NavNext
<1>3. CASE found # {}
  <2>1. found \subseteq Nat
    BY <1>1
  <2>2. \E i \in found : \A j \in found : i <= j
    <3> HIDE DEF found
    <3> QED
      BY <1>3, <2>1, Least
  <2>3. least \in found /\ \A j \in found : least <= j
    BY <2>2
  <2>4. NavNext(page, from) = <<least, 0>>
    BY <1>3 DEF NavNext
  <2>5. least \in Nat /\ <<least, 0>> # Beyond
    BY <2>1, <2>3 DEF Beyond
  <2> QED
    BY <2>3, <2>4, <2>5
<1> QED
  BY <1>2, <1>3

LEMMA NavPrevFinds ==
  ASSUME NEW page, ValidPage(page), NEW from \in Int
  PROVE  LET prev == NavPrev(page, from)
         IN \/ prev = Beyond /\ \A i \in Displayed(page) : i > from
            \/ \E row \in Displayed(page) :
                 /\ prev = <<row, 0>> /\ prev # Beyond
                 /\ row <= from /\ \A i \in Displayed(page) : i <= from => row >= i
<1> DEFINE found == {i \in Displayed(page) : i <= from}
<1> DEFINE greatest == CHOOSE i \in found : \A j \in found : i >= j
<1>1. Displayed(page) \subseteq Nat
  BY DisplayedRows
<1>2. CASE found = {}
  BY <1>1, <1>2 DEF NavPrev
<1>3. CASE found # {}
  <2>1. found \subseteq Nat /\ from \in Nat /\ \A i \in found : i <= from
    BY <1>1, <1>3
  <2>2. \E i \in found : \A j \in found : i >= j
    <3> HIDE DEF found
    <3> QED
      BY <1>3, <2>1, Greatest
  <2>3. greatest \in found /\ \A j \in found : greatest >= j
    BY <2>2
  <2>4. NavPrev(page, from) = <<greatest, 0>>
    BY <1>3 DEF NavPrev
  <2>5. greatest \in Nat /\ <<greatest, 0>> # Beyond
    BY <2>1, <2>3 DEF Beyond
  <2> QED
    BY <2>3, <2>4, <2>5
<1> QED
  BY <1>2, <1>3

LEMMA DownStays ==
  ASSUME NEW page, ValidPage(page), NEW open, NEW row, NEW child, OnDisplay(page, open, row, child)
  PROVE  \E r, c : DownFrom(page, open, <<row, child>>) = <<r, c>> /\ OnDisplay(page, open, r, c)
<1> DEFINE inside == IF child = 0 THEN Opened(open, row) ELSE child < Kids[row]
<1>1. row \in Rows /\ row \in Nat /\ child \in Nat /\ Kids[row] \in Nat
  BY DisplayedRows, KidsAssumption DEF OnDisplay
<1>2. CASE inside
  <2>1. DownFrom(page, open, <<row, child>>) = <<row, child + 1>>
    BY <1>2 DEF DownFrom
  <2>2. OnDisplay(page, open, row, child + 1)
    BY <1>1, <1>2 DEF OnDisplay, Opened
  <2> QED
    BY <2>1, <2>2
<1>3. CASE ~inside /\ NavNext(page, row + 1) = Beyond
  BY <1>3 DEF DownFrom
<1>4. CASE ~inside /\ NavNext(page, row + 1) # Beyond
  <2>1. PICK r \in Displayed(page) : NavNext(page, row + 1) = <<r, 0>>
    BY <1>1, <1>4, NavNextFinds
  <2>2. OnDisplay(page, open, r, 0)
    BY <2>1, DisplayedRows, KidsAssumption DEF OnDisplay
  <2> QED
    BY <1>4, <2>1, <2>2 DEF DownFrom
<1> QED
  BY <1>2, <1>3, <1>4

\* The row that NavPrev finds is the one before, since no row displayed lies between.
LEMMA PrevIsNeighbour ==
  ASSUME NEW page, ValidPage(page), NEW row \in Displayed(page),
         NEW r \in Displayed(page), r <= row - 1, NavPrev(page, row - 1) = <<r, 0>>
  PROVE  r = row - 1
<1>1. row \in Nat /\ r \in Nat /\ row - 1 \in r..row
  BY DisplayedRows
<1>2. row - 1 \in Displayed(page) /\ row - 1 \in Int
  BY <1>1, DisplayedRows
<1>3. PICK s \in Displayed(page) :
        NavPrev(page, row - 1) = <<s, 0>> /\ \A i \in Displayed(page) : i <= row - 1 => s >= i
  BY <1>2, NavPrevFinds
<1> QED
  BY <1>1, <1>2, <1>3

LEMMA UpStays ==
  ASSUME NEW page, ValidPage(page), NEW open, NEW row, NEW child, OnDisplay(page, open, row, child)
  PROVE  LET up == UpFrom(page, open, <<row, child>>)
         IN up = Beyond \/ \E r, c : up = <<r, c>> /\ OnDisplay(page, open, r, c)
<1>1. row \in Rows /\ row \in Nat /\ child \in Nat /\ Kids[row] \in Nat
  BY DisplayedRows, KidsAssumption DEF OnDisplay
<1>2. CASE child > 0
  BY <1>1, <1>2 DEF UpFrom, OnDisplay
<1>3. CASE child = 0 /\ NavPrev(page, row - 1) = Beyond
  BY <1>3 DEF UpFrom
<1>4. CASE child = 0 /\ NavPrev(page, row - 1) # Beyond
  <2>1. PICK r \in Displayed(page) : NavPrev(page, row - 1) = <<r, 0>> /\ r <= row - 1
    BY <1>1, <1>4, NavPrevFinds
  <2>2. OnDisplay(page, open, r, 0) /\ (Opened(open, r) => OnDisplay(page, open, r, Kids[r]))
    BY <2>1, DisplayedRows, KidsAssumption DEF OnDisplay
  <2>3. NavPrev(page, row - 1) = <<row - 1, 0>> /\ r = row - 1
    BY <1>1, <2>1, PrevIsNeighbour DEF OnDisplay
  <2> QED
    BY <1>4, <2>2, <2>3 DEF UpFrom
<1> QED
  BY <1>1, <1>2, <1>3, <1>4

\* The row before the next one is the row itself, since none displayed lies between;
\* Down leaves it from its last child if it is unfolded.
LEMMA UpAfterDown ==
  ASSUME NEW page, ValidPage(page), NEW open, NEW row, NEW child, OnDisplay(page, open, row, child),
         DownFrom(page, open, <<row, child>>) # <<row, child>>
  PROVE  UpFrom(page, open, DownFrom(page, open, <<row, child>>)) = <<row, child>>
<1> DEFINE inside == IF child = 0 THEN Opened(open, row) ELSE child < Kids[row]
<1>1. row \in Rows /\ row \in Nat /\ child \in 0..Kids[row] /\ Kids[row] \in Nat
  BY DisplayedRows, KidsAssumption DEF OnDisplay
<1>2. CASE inside
  <2>1. DownFrom(page, open, <<row, child>>) = <<row, child + 1>>
    BY <1>2 DEF DownFrom
  <2> QED
    BY <1>1, <2>1 DEF UpFrom
<1>3. CASE ~inside
  <2>1. NavNext(page, row + 1) # Beyond
    BY <1>3 DEF DownFrom
  <2>2. PICK r \in Displayed(page) :
          /\ NavNext(page, row + 1) = <<r, 0>>
          /\ r >= row + 1 /\ \A i \in Displayed(page) : i >= row + 1 => r <= i
    BY <1>1, <2>1, NavNextFinds
  <2>3. DownFrom(page, open, <<row, child>>) = <<r, 0>>
    BY <1>3, <2>1, <2>2 DEF DownFrom
  <2>4. r \in Nat /\ row \in Displayed(page)
    BY DisplayedRows DEF OnDisplay
  <2>5. NavPrev(page, r - 1) = <<row, 0>> /\ <<row, 0>> # Beyond
    BY <1>1, <2>2, <2>4, NavPrevFinds, DisplayedRows
  <2>6. UpFrom(page, open, <<r, 0>>) = IF Opened(open, row) THEN <<row, Kids[row]>> ELSE <<row, 0>>
    <3>1. row <= r - 1
      BY <1>1, <2>2, <2>4
    <3>2. row = r - 1
      BY <2>2, <2>4, <2>5, <3>1, PrevIsNeighbour
    <3> QED
      BY <2>5, <3>2 DEF UpFrom, Opened
  <2>7. child = IF Opened(open, row) THEN Kids[row] ELSE 0
    BY <1>1, <1>3 DEF OnDisplay
  <2> QED
    BY <2>3, <2>6, <2>7
<1> QED
  BY <1>2, <1>3

-----------------------------------------------------------------------------
\* The fields of the panel.
Fields ==
  {"text", "focus", "at", "active", "last", "index", "results", "close", "select", "armed",
   "strays", "hiding", "emptied", "wanted", "loading", "page", "open", "lastKey", "repeatOn"}

Shaped(p) ==
  /\ DOMAIN p = Fields
  /\ p.text \in Texts /\ p.index \in 0..Filters
  /\ ValidPage(p.wanted) /\ ValidPage(p.page)

\* The parts of PanelConsistent that hold in the middle of a handler too ...
Agrees(p) ==
  /\ p.close = p.results
  /\ ~p.active => p.text = Label

\* ... and those that Activate restores at its end.
Rested(p) ==
  /\ ~p.active /\ ~p.results => p.last = ""
  /\ p.focus = "field" => p.active
  /\ p.focus # "field" /\ p.active => p.text # Label

\* The frame is displayed, and this place of it.
OnShow(p, place) ==
  /\ p.results
  /\ \E row, child : place = <<row, child>> /\ OnDisplay(p.page, p.open, row, child)

Placed(p) == p.focus = "frame" => OnShow(p, p.at)

Base(p) == Shaped(p) /\ Agrees(p) /\ Placed(p)

\* What holds between two handlers.
Good(p) == Base(p) /\ Rested(p)

\* The list of filters is not about to close.
Calm(p) == ~(p.select /\ p.hiding)

LEMMA ActivateOn ==
  ASSUME NEW p, Base(p)
  PROVE  LET q == Activate(p, TRUE)
         IN /\ Base(q) /\ q.active /\ q.text # Label
            /\ q.focus = p.focus /\ q.results = p.results /\ q.select = p.select /\ q.hiding = p.hiding
            /\ q.page = p.page /\ q.open = p.open
BY TextsAssumption DEF Base, Shaped, Agrees, Placed, OnShow, Activate, Fields, Texts

LEMMA ActivateOff ==
  ASSUME NEW p, Base(p)
  PROVE  LET q == Activate(p, FALSE)
         IN /\ Base(q) /\ (~q.active /\ ~q.results => q.last = "")
            /\ q.active => q.text # Label
            /\ q.focus = p.focus /\ q.results = p.results /\ q.select = p.select /\ q.hiding = p.hiding
            /\ q.page = p.page /\ q.open = p.open
BY TextsAssumption DEF Base, Shaped, Agrees, Placed, OnShow, Activate, Fields, Texts

\* onblur and onfocus run within it; to move into the frame, it takes a place that
\* is displayed.
LEMMA MoveFocusGood ==
  ASSUME NEW p, Good(p), NEW to, NEW place, to = "frame" => OnShow(p, place)
  PROVE  LET q == MoveFocus(p, to, place)
         IN /\ Good(q) /\ (Calm(p) => Calm(q))
            /\ q.focus = to /\ q.results = p.results /\ q.page = p.page /\ q.open = p.open
<1> DEFINE blurred == IF p.focus = "field" /\ to # "field" THEN Activate(p, FALSE) ELSE p
<1> DEFINE moved == [blurred EXCEPT !.focus = to, !.at = place,
                                    !.lastKey = @ /\ to = "frame", !.repeatOn = @ /\ to = "frame"]
<1>1. /\ Base(blurred) /\ (~blurred.active /\ ~blurred.results => blurred.last = "")
      /\ to # "field" /\ blurred.active => blurred.text # Label
      /\ blurred.results = p.results /\ blurred.select = p.select /\ blurred.hiding = p.hiding
      /\ blurred.page = p.page /\ blurred.open = p.open
  BY ActivateOff DEF Good, Rested
<1>2. /\ Base(moved) /\ (~moved.active /\ ~moved.results => moved.last = "")
      /\ moved.focus = to /\ (to # "field" /\ moved.active => moved.text # Label)
      /\ moved.results = p.results /\ moved.select = p.select /\ moved.hiding = p.hiding
      /\ moved.page = p.page /\ moved.open = p.open
  <2> HIDE DEF blurred
  <2> QED
    BY ZenonT(60), <1>1 DEF Base, Shaped, Agrees, Placed, OnShow, Fields
<1>3. CASE to = "field" /\ p.focus # "field"
  <2>1. MoveFocus(p, to, place) = Activate(moved, TRUE)
    BY <1>3 DEF MoveFocus
  <2> HIDE DEF moved
  <2> QED
    BY ZenonT(60), <1>2, <2>1, ActivateOn DEF Good, Rested, Calm
<1>4. CASE ~(to = "field" /\ p.focus # "field")
  <2>1. MoveFocus(p, to, place) = moved
    BY <1>4 DEF MoveFocus
  <2>2. to = "field" => moved.active
    BY <1>4 DEF Good, Base, Rested, Shaped, Fields
  <2> HIDE DEF moved
  <2> QED
    BY <1>2, <2>1, <2>2 DEF Good, Rested, Calm
<1> QED
  BY <1>3, <1>4

LEMMA ClosedBase ==
  ASSUME NEW p, Base(p)
  PROVE  LET q == Closed(p)
         IN /\ Base(q) /\ q.focus # "frame" /\ (q.focus = "field" <=> p.focus = "field")
            /\ ~q.results /\ q.active = p.active /\ q.text = p.text /\ q.select = p.select /\ q.hiding = p.hiding
BY DEF Base, Shaped, Agrees, Placed, Closed, Fields

LEMMA CloseResultsGood ==
  ASSUME NEW p, Good(p), p.focus # "field"
  PROVE  LET q == CloseResults(p) IN Good(q) /\ (Calm(p) => Calm(q)) /\ q.focus # "frame"
<1>1. CloseResults(p) = Activate(Closed(p), FALSE)
  BY DEF CloseResults
<1>2. Base(Closed(p)) /\ Closed(p).focus \notin {"frame", "field"}
      /\ Closed(p).select = p.select /\ Closed(p).hiding = p.hiding
  BY ClosedBase DEF Good
<1>3. LET q == Activate(Closed(p), FALSE)
      IN /\ Base(q) /\ (~q.active /\ ~q.results => q.last = "")
         /\ (q.active => q.text # Label)
         /\ q.focus = Closed(p).focus /\ q.select = p.select /\ q.hiding = p.hiding
  BY <1>2, ActivateOff
<1> QED
  BY <1>1, <1>2, <1>3 DEF Good, Rested, Calm

LEMMA SearchGood ==
  ASSUME NEW p, Good(p)
  PROVE  LET q == Search(p) IN Good(q) /\ (Calm(p) => Calm(q))
<1>1. ASSUME Searchable(p) PROVE ValidPage([index |-> p.index, word |-> Trimmed[p.text]])
  <2>1. p.index \in 0..Filters /\ p.index < Filters /\ p.text \in Texts
    BY <1>1 DEF Good, Base, Shaped, Searchable
  <2>2. \A i \in 0..Filters : i < Filters => i \in 0..(Filters - 1)
    <3>1. Filters \in Nat
      BY TextsAssumption
    <3> QED
      BY <3>1
  <2>3. p.index \in 0..(Filters - 1)
    BY <2>1, <2>2
  <2>4. p.index \in DOMAIN Matches /\ Trimmed[p.text] \in DOMAIN Matches[p.index]
    BY <2>1, <2>3, TextsAssumption
  <2> QED
    BY <2>4 DEF ValidPage
<1> QED
  BY <1>1 DEF Good, Base, Shaped, Agrees, Rested, Placed, OnShow, Calm, Search, Fields

LEMMA CompareGood ==
  ASSUME NEW p, Good(p)
  PROVE  LET q == Compare(p) IN Good(q) /\ (Calm(p) => Calm(q))
<1>1. CASE Squeezed[p.text] = p.last
  BY <1>1 DEF Compare
<1>2. CASE Squeezed[p.text] # p.last /\ Squeezed[p.text] # ""
  BY <1>2 DEF Compare, Good, Base, Shaped, Agrees, Rested, Placed, OnShow, Calm, Fields
<1>3. CASE Squeezed[p.text] # p.last /\ Squeezed[p.text] = ""
  <2>1. Compare(p) = [Closed(p) EXCEPT !.last = ""]
    BY <1>3 DEF Compare
  <2>2. Base(Closed(p)) /\ Closed(p).focus # "frame"
    BY ClosedBase DEF Good
  <2>3. /\ Closed(p).focus = "field" => Closed(p).active
        /\ Closed(p).focus # "field" /\ Closed(p).active => Closed(p).text # Label
        /\ Calm(p) => Calm(Closed(p))
    BY ClosedBase DEF Good, Rested, Calm
  <2> QED
    BY <2>1, <2>2, <2>3 DEF Good, Base, Shaped, Agrees, Rested, Placed, Calm, Fields
<1> QED
  BY <1>1, <1>2, <1>3

\* The blur of Escape finds the results displayed, and may activate the panel again.
LEMMA EscapeGood ==
  ASSUME NEW p, Good(p)
  PROVE  LET q == Escape(p) IN Good(q) /\ (Calm(p) => Calm(q))
<1> DEFINE left == MoveFocus(p, "page", Nowhere)
<1> DEFINE shut == [Closed(left) EXCEPT !.last = ""]
<1>1. Good(left) /\ left.focus = "page" /\ (Calm(p) => Calm(left))
  BY MoveFocusGood
<1>2. Base(Closed(left)) /\ Closed(left).focus \notin {"frame", "field"}
      /\ Closed(left).select = left.select /\ Closed(left).hiding = left.hiding
  <2> HIDE DEF left
  <2> QED
    BY <1>1, ClosedBase DEF Good
<1>3. Base(shut) /\ shut.focus # "field" /\ shut.select = left.select /\ shut.hiding = left.hiding
  <2> HIDE DEF left
  <2> QED
    BY <1>2 DEF Base, Shaped, Agrees, Placed, Fields
<1>4. Escape(p) = Activate(shut, FALSE)
  BY DEF Escape
<1> HIDE DEF shut, left
<1>5. LET q == Activate(shut, FALSE)
      IN /\ Base(q) /\ (~q.active /\ ~q.results => q.last = "")
         /\ (q.active => q.text # Label)
         /\ q.focus = shut.focus /\ q.select = left.select /\ q.hiding = left.hiding
  BY <1>3, ActivateOff
<1> QED
  BY <1>1, <1>3, <1>4, <1>5 DEF Good, Rested, Calm

LEMMA OnSelectItemGood ==
  ASSUME NEW p, Good(p), NEW id \in 0..Filters
  PROVE  LET q == OnSelectItem(p, id) IN Good(q) /\ (Calm(p) => Calm(q))
<1>1. LET q == [p EXCEPT !.index = id] IN Good(q) /\ (Calm(p) => Calm(q))
  BY DEF Good, Base, Shaped, Agrees, Rested, Placed, OnShow, Calm, Fields
<1> QED
  BY <1>1, SearchGood DEF OnSelectItem

LEMMA CloseSelectionGood ==
  ASSUME NEW p, Good(p)
  PROVE  Good(CloseSelection(p)) /\ Calm(CloseSelection(p))
BY DEF CloseSelection, Good, Base, Shaped, Agrees, Rested, Placed, OnShow, Calm, Fields

LEMMA OnSelectKeyGood ==
  ASSUME NEW p, Good(p), NEW key
  PROVE  LET q == OnSelectKey(p, key) IN Good(q) /\ (Calm(p) => Calm(q))
<1>1. /\ p.index \in 0..Filters /\ Filters \in Nat
      /\ p.index < Filters => p.index + 1 \in 0..Filters
      /\ p.index > 0 => p.index - 1 \in 0..Filters
  <2>1. p.index \in 0..Filters /\ Filters \in Nat
    BY TextsAssumption DEF Good, Base, Shaped
  <2>2. \A i \in 0..Filters : /\ i < Filters => i + 1 \in 0..Filters
                             /\ i > 0 => i - 1 \in 0..Filters
    BY <2>1
  <2> QED
    BY <2>1, <2>2
<1>2. LET q == OnSelectItem(p, p.index) IN Good(q) /\ (Calm(p) => Calm(q))
  BY <1>1, OnSelectItemGood
<1>3. LET q == MoveFocus(CloseSelection(OnSelectItem(p, p.index)), "field", Nowhere)
      IN Good(q) /\ Calm(q)
  BY <1>2, CloseSelectionGood, MoveFocusGood
<1> QED
  BY <1>1, <1>2, <1>3, OnSelectItemGood DEF OnSelectKey, MoreFilters

\* Where Down leads from the field.
LEMMA FirstOnShow ==
  ASSUME NEW p, Good(p), FirstResult(p) # Beyond
  PROVE  OnShow(p, FirstResult(p))
<1>1. p.results /\ FirstResult(p) = NavNext(p.page, 0)
  BY DEF FirstResult
<1>2. ValidPage(p.page)
  BY DEF Good, Base, Shaped
<1>3. PICK row \in Displayed(p.page) : FirstResult(p) = <<row, 0>>
  BY <1>1, <1>2, NavNextFinds
<1>4. OnDisplay(p.page, p.open, row, 0)
  BY <1>2, DisplayedRows, KidsAssumption DEF OnDisplay
<1> QED
  BY <1>1, <1>3, <1>4 DEF OnShow

LEMMA IntoFrameGood ==
  ASSUME NEW p, Good(p)
  PROVE  LET q == IntoFrame(p) IN Good(q) /\ (Calm(p) => Calm(q))
BY FirstOnShow, MoveFocusGood DEF IntoFrame

LEMMA OnSearchFieldChangeGood ==
  ASSUME NEW p, Good(p), NEW key
  PROVE  LET q == OnSearchFieldChange(p, key) IN Good(q) /\ (Calm(p) => Calm(q))
<1> DEFINE killed == [p EXCEPT !.armed = FALSE]
<1>1. Good(killed) /\ (Calm(p) => Calm(killed))
  BY DEF Good, Base, Shaped, Agrees, Rested, Placed, OnShow, Calm, Fields
<1> HIDE DEF killed
<1>2. Good(Show(killed)) /\ Calm(Show(killed))
  BY <1>1 DEF Show, Good, Base, Shaped, Agrees, Rested, Placed, OnShow, Calm, Fields
<1>3. LET q == MoveFocus(Show(killed), "select", Nowhere) IN Good(q) /\ Calm(q)
  BY <1>2, MoveFocusGood
<1>4. LET q == Escape(killed) IN Good(q) /\ (Calm(killed) => Calm(q))
  BY <1>1, EscapeGood
<1>5. LET q == Compare(IntoFrame(killed)) IN Good(q) /\ (Calm(killed) => Calm(q))
  BY <1>1, IntoFrameGood, CompareGood
<1>6. LET q == Compare(killed) IN Good(q) /\ (Calm(killed) => Calm(q))
  BY <1>1, CompareGood
<1>7. \/ OnSearchFieldChange(p, key) = MoveFocus(Show(killed), "select", Nowhere)
      \/ OnSearchFieldChange(p, key) = Escape(killed)
      \/ OnSearchFieldChange(p, key) = Compare(IntoFrame(killed))
      \/ OnSearchFieldChange(p, key) = Compare(killed)
  BY DEF OnSearchFieldChange, killed
<1> QED
  BY <1>1, <1>3, <1>4, <1>5, <1>6, <1>7

\* A row is unfolded, or folded while its children do not have the focus.
LEMMA OpenGood ==
  ASSUME NEW p, Good(p), NEW open,
         \A row, child : p.focus = "frame" /\ p.at = <<row, child>> /\ child > 0 /\ row \in p.open
                           => row \in open
  PROVE  LET q == [p EXCEPT !.open = open] IN Good(q) /\ (Calm(p) => Calm(q))
<1>1. ASSUME p.focus = "frame" PROVE OnShow([p EXCEPT !.open = open], p.at)
  <2>1. PICK row, child : p.at = <<row, child>> /\ OnDisplay(p.page, p.open, row, child)
    BY <1>1 DEF Good, Base, Placed, OnShow
  <2>2. OnDisplay(p.page, open, row, child)
    BY <1>1, <2>1 DEF OnDisplay, Opened
  <2> QED
    BY <1>1, <2>1, <2>2 DEF Good, Base, Placed, OnShow, Shaped, Fields
<1> QED
  BY <1>1 DEF Good, Base, Shaped, Agrees, Rested, Placed, OnShow, Calm, Fields

\* Where Up and Down lead in the frame.
LEMMA StepsOnShow ==
  ASSUME NEW p, Good(p), p.focus = "frame"
  PROVE  LET up == UpFrom(p.page, p.open, p.at)
             down == DownFrom(p.page, p.open, p.at)
         IN (up # Beyond => OnShow(p, up)) /\ OnShow(p, down)
<1>1. PICK row, child : p.at = <<row, child>> /\ OnDisplay(p.page, p.open, row, child)
  BY DEF Good, Base, Placed, OnShow
<1>2. ValidPage(p.page) /\ p.results
  BY DEF Good, Base, Shaped, Placed, OnShow
<1> QED
  BY <1>1, <1>2, UpStays, DownStays DEF OnShow

\* What a key in the frame may do.
LEMMA NavCases ==
  ASSUME NEW p, NEW key
  PROVE  LET up == UpFrom(p.page, p.open, p.at)
             down == DownFrom(p.page, p.open, p.at)
         IN \/ Nav(p, key) = MoveFocus(p, "field", Nowhere)
            \/ up # Beyond /\ Nav(p, key) = MoveFocus(p, "frame", up)
            \/ Nav(p, key) = MoveFocus(p, "frame", down)
            \/ Nav(p, key) = [p EXCEPT !.open = p.open \cup {p.at[1]}]
            \/ p.at[2] = 0 /\ Nav(p, key) = [p EXCEPT !.open = p.open \ {p.at[1]}]
            \/ Nav(p, key) = MoveFocus(CloseResults(p), "field", Nowhere)
            \/ Nav(p, key) = p
BY DEF Nav

LEMMA NavGood ==
  ASSUME NEW p, Good(p), p.focus = "frame", NEW key
  PROVE  LET q == Nav(p, key) IN Good(q) /\ (Calm(p) => Calm(q))
<1> DEFINE up == UpFrom(p.page, p.open, p.at)
<1> DEFINE down == DownFrom(p.page, p.open, p.at)
<1>1. (up # Beyond => OnShow(p, up)) /\ OnShow(p, down)
  BY StepsOnShow
<1> HIDE DEF up, down
<1>2. LET q == MoveFocus(p, "field", Nowhere) IN Good(q) /\ (Calm(p) => Calm(q))
  BY MoveFocusGood
<1>3. ASSUME up # Beyond
      PROVE  LET q == MoveFocus(p, "frame", up) IN Good(q) /\ (Calm(p) => Calm(q))
  BY <1>1, <1>3, MoveFocusGood
<1>4. LET q == MoveFocus(p, "frame", down) IN Good(q) /\ (Calm(p) => Calm(q))
  BY <1>1, MoveFocusGood
<1>5. LET q == [p EXCEPT !.open = p.open \cup {p.at[1]}] IN Good(q) /\ (Calm(p) => Calm(q))
  BY OpenGood
<1>6. ASSUME p.at[2] = 0
      PROVE  LET q == [p EXCEPT !.open = p.open \ {p.at[1]}] IN Good(q) /\ (Calm(p) => Calm(q))
  BY <1>6, OpenGood
<1>7. LET q == MoveFocus(CloseResults(p), "field", Nowhere) IN Good(q) /\ (Calm(p) => Calm(q))
  BY CloseResultsGood, MoveFocusGood
<1>8. \/ Nav(p, key) = MoveFocus(p, "field", Nowhere)
      \/ up # Beyond /\ Nav(p, key) = MoveFocus(p, "frame", up)
      \/ Nav(p, key) = MoveFocus(p, "frame", down)
      \/ Nav(p, key) = [p EXCEPT !.open = p.open \cup {p.at[1]}]
      \/ p.at[2] = 0 /\ Nav(p, key) = [p EXCEPT !.open = p.open \ {p.at[1]}]
      \/ Nav(p, key) = MoveFocus(CloseResults(p), "field", Nowhere)
      \/ Nav(p, key) = p
  BY Zenon, NavCases DEF up, down
<1> QED
  BY <1>2, <1>3, <1>4, <1>5, <1>6, <1>7, <1>8

LEMMA OnFrameKeyGood ==
  ASSUME NEW p, Good(p), p.focus = "frame",
         NEW type \in {"keydown", "keypress", "keyup"}, NEW key
  PROVE  LET q == OnFrameKey(p, type, key) IN Good(q) /\ (Calm(p) => Calm(q))
<1>1. LET q == Processed(p, type) IN Good(q) /\ q.focus = "frame" /\ (Calm(p) => Calm(q))
  BY DEF Processed, Good, Base, Shaped, Agrees, Rested, Placed, OnShow, Calm, Fields
<1>2. LET q == Nav(Processed(p, type), key) IN Good(q) /\ (Calm(p) => Calm(q))
  BY <1>1, NavGood
<1> QED
  BY <1>1, <1>2 DEF OnFrameKey

-----------------------------------------------------------------------------
\* The inductive invariant.
DocInv == Good(panel) /\ (pointed => Calm(panel))

LEMMA InitDoc == Init => DocInv
<1>1. 0 \in 0..Filters
  <2>1. Filters \in Nat
    BY TextsAssumption
  <2> QED
    BY <2>1
<1>2. DOMAIN InitPanel = Fields
  BY DEF InitPanel, Fields
<1>3. Shaped(InitPanel)
  <2>1. InitPanel.text = Label /\ InitPanel.index = 0 /\ InitPanel.wanted = NoPage /\ InitPanel.page = NoPage
    BY DEF InitPanel
  <2> QED
    BY <1>1, <1>2, <2>1 DEF Shaped, ValidPage, Texts
<1>4. Agrees(InitPanel) /\ Rested(InitPanel) /\ Placed(InitPanel)
  BY DEF InitPanel, Agrees, Rested, Placed
<1> QED
  BY <1>3, <1>4 DEF Init, DocInv, Good, Base

LEMMA KeyboardDoc == DocInv /\ Keyboard => DocInv'
<1> SUFFICES ASSUME DocInv, Keyboard PROVE DocInv'
  OBVIOUS
<1>1. pointed' = pointed /\ Good(panel)
  BY DEF Keyboard, DocInv
<1> SUFFICES Good(panel') /\ (Calm(panel) => Calm(panel'))
  BY <1>1 DEF DocInv
<1>2. ASSUME NEW text \in Words \cup {""}, TypeIn(text) PROVE Good(panel') /\ (Calm(panel) => Calm(panel'))
  <2>1. text \in Texts /\ panel.active
    BY <1>1, <1>2 DEF Texts, TypeIn, Good, Rested
  <2> QED
    BY <1>1, <1>2, <2>1
    DEF TypeIn, Good, Base, Shaped, Agrees, Rested, Placed, OnShow, Calm, Fields
<1>3. ASSUME NEW key, FieldKeyDown(key) PROVE Good(panel') /\ (Calm(panel) => Calm(panel'))
  BY <1>1, <1>3 DEF FieldKeyDown
<1>4. ASSUME NEW key, SelectKeyDown(key) PROVE Good(panel') /\ (Calm(panel) => Calm(panel'))
  BY <1>1, <1>4, OnSelectKeyGood DEF SelectKeyDown
<1>5. ASSUME NEW key, FrameKeyDown(key) PROVE Good(panel') /\ (Calm(panel) => Calm(panel'))
  BY <1>1, <1>5, OnFrameKeyGood DEF FrameKeyDown
<1>6. CASE FrameEnter
  <2>1. panel' = [panel EXCEPT !.open = Toggled(panel.open, panel.at[1])] /\ panel.at[2] = 0
    BY <1>6 DEF FrameEnter, OnFrameKey
  <2> QED
    BY <1>1, <2>1, OpenGood
<1>7. CASE KeyPress
  BY <1>1, <1>7, OnFrameKeyGood DEF KeyPress
<1>8. CASE KeyUp
  BY <1>1, <1>8, OnFrameKeyGood, OnSearchFieldChangeGood DEF KeyUp
<1> QED
  BY <1>2, <1>3, <1>4, <1>5, <1>6, <1>7, <1>8 DEF Keyboard

LEMMA ClickDoc ==
  ASSUME Good(panel),
         \/ ClickPage \/ ClickField \/ ClickClose
         \/ \E id \in 0..(Filters - 1) : ClickFilter(id)
         \/ \E row \in Rows : ClickRow(row)
  PROVE  Good(panel') /\ (Calm(panel) => Calm(panel'))
<1>1. CASE ClickPage
  BY <1>1, MoveFocusGood DEF ClickPage
<1>2. CASE ClickField
  BY <1>2, MoveFocusGood DEF ClickField
<1>3. CASE ClickClose
  <2>1. LET q == MoveFocus(panel, "page", Nowhere)
        IN Good(q) /\ q.focus = "page" /\ (Calm(panel) => Calm(q))
    BY MoveFocusGood
  <2> QED
    BY <1>3, <2>1, CloseResultsGood DEF ClickClose
<1>4. ASSUME NEW id \in 0..(Filters - 1), ClickFilter(id)
      PROVE  Good(panel') /\ (Calm(panel) => Calm(panel'))
  <2>1. LET q == MoveFocus(panel, "select", Nowhere) IN Good(q) /\ (Calm(panel) => Calm(q))
    BY MoveFocusGood
  <2>2. Filters \in Nat
    BY TextsAssumption
  <2>3. id \in 0..Filters
    BY <2>2
  <2> QED
    BY <1>4, <2>1, <2>3, OnSelectItemGood DEF ClickFilter
<1>5. ASSUME NEW row \in Rows, ClickRow(row)
      PROVE  Good(panel') /\ (Calm(panel) => Calm(panel'))
  <2> DEFINE q == MoveFocus(panel, "frame", <<row, 0>>)
  <2>1. OnShow(panel, <<row, 0>>)
    BY <1>5, KidsAssumption DEF ClickRow, OnShow, OnDisplay
  <2>2. Good(q) /\ (Calm(panel) => Calm(q))
    BY <2>1, MoveFocusGood
  <2>3. q.at = <<row, 0>>
    BY DEF MoveFocus
  <2>4. panel' = [q EXCEPT !.open = Toggled(q.open, row)]
    BY <1>5 DEF ClickRow
  <2> HIDE DEF q
  <2> QED
    BY <2>2, <2>3, <2>4, OpenGood
<1> QED
  BY <1>1, <1>2, <1>3, <1>4, <1>5

LEMMA MouseDoc == DocInv /\ Mouse => DocInv'
<1> SUFFICES ASSUME DocInv, Mouse PROVE DocInv'
  OBVIOUS
<1>1. CASE PointerOut
  BY <1>1 DEF PointerOut, Hide, DocInv, Good, Base, Shaped, Agrees, Rested, Placed, OnShow, Fields
<1>2. CASE PointerOver
  BY <1>2 DEF PointerOver, Show, Hide, DocInv, Good, Base, Shaped, Agrees, Rested, Placed, OnShow,
              Calm, Fields
<1> QED
  BY <1>1, <1>2, ClickDoc DEF Mouse, DocInv

LEMMA TimerDoc == DocInv /\ (KeyTimer \/ StrayTimer \/ HideTimer \/ Load) => DocInv'
<1> SUFFICES ASSUME DocInv, KeyTimer \/ StrayTimer \/ HideTimer \/ Load PROVE DocInv'
  OBVIOUS
<1>1. pointed' = pointed /\ Good(panel)
  BY DEF DocInv, KeyTimer, StrayTimer, HideTimer, Load
<1> SUFFICES Good(panel') /\ (Calm(panel) => Calm(panel'))
  BY <1>1 DEF DocInv
<1>2. CASE KeyTimer
  <2>1. LET q == [panel EXCEPT !.armed = FALSE] IN Good(q) /\ (Calm(panel) => Calm(q))
    BY <1>1 DEF Good, Base, Shaped, Agrees, Rested, Placed, OnShow, Calm, Fields
  <2> QED
    BY <1>2, <2>1, SearchGood DEF KeyTimer
<1>3. CASE StrayTimer
  <2>1. LET q == [panel EXCEPT !.strays = panel.strays - 1] IN Good(q) /\ (Calm(panel) => Calm(q))
    BY <1>1 DEF Good, Base, Shaped, Agrees, Rested, Placed, OnShow, Calm, Fields
  <2> QED
    BY <1>3, <2>1, SearchGood DEF StrayTimer
<1>4. CASE HideTimer
  <2>1. Good([panel EXCEPT !.hiding = FALSE])
    BY <1>1 DEF Good, Base, Shaped, Agrees, Rested, Placed, OnShow, Fields
  <2> QED
    BY <1>4, <2>1, CloseSelectionGood DEF HideTimer
<1>5. CASE Load
  BY <1>1, <1>5 DEF Load, Loaded, Good, Base, Shaped, Agrees, Rested, Placed, Calm, Fields
<1> QED
  BY <1>2, <1>3, <1>4, <1>5

LEMMA NextDoc == DocInv /\ [Next]_vars => DocInv'
<1>1. DocInv /\ UNCHANGED vars => DocInv'
  BY DEF vars, DocInv
<1> QED
  BY <1>1, KeyboardDoc, MouseDoc, TimerDoc DEF Next

LEMMA DocInvariant == Spec => []DocInv
BY InitDoc, NextDoc, PTL DEF Spec

\* Whatever handler runs within another, the label, the activation, the window of
\* results and its close icon agree, also when the label itself is typed
\* (search.js:192-198, 209-211, 292-297, 334, 374-398).
THEOREM PanelIsConsistent == Spec => []PanelConsistent
<1>1. DocInv => PanelConsistent
  BY DEF DocInv, Good, Base, Agrees, Rested, PanelConsistent
<1> QED
  BY <1>1, DocInvariant, PTL

\* The list of filters never closes under the pointer (search.js:138-143).
THEOREM ListStaysUnderPointer == Spec => []PointedStaysOpen
<1>1. DocInv => PointedStaysOpen
  BY DEF DocInv, Calm, PointedStaysOpen
<1> QED
  BY <1>1, DocInvariant, PTL

\* The focus is never in a hidden window, on a row that does not match, or on a
\* child that is folded (search.js:522-562, 587-706).
THEOREM FocusStaysVisible == Spec => []FocusOnVisible
<1>1. DocInv => FocusOnVisible
  BY DEF DocInv, Good, Base, Placed, OnShow, OnDisplay, FocusOnVisible
<1> QED
  BY <1>1, DocInvariant, PTL

\* Up undoes Down on every page of results, from every place on display
\* (search.js:596-628, 634-640, 671-692).
THEOREM UpIsTheWayBack == Spec => []UpUndoesDown
<1>1. ASSUME DocInv PROVE UpUndoesDown
  <2>1. ValidPage(panel.page)
    BY <1>1 DEF DocInv, Good, Base, Shaped
  <2>2. ASSUME NEW row, NEW child, OnDisplay(panel.page, panel.open, row, child)
        PROVE  <<row, child>> \in Visible
    <3>1. row \in Rows /\ row # -2
      BY <2>1, <2>2, DisplayedRows DEF OnDisplay
    <3> QED
      BY <2>2, <3>1 DEF OnDisplay, Visible, Places, Nowhere
  <2>3. ASSUME NEW place \in Visible,
               DownFrom(panel.page, panel.open, place) # place
        PROVE  LET next == DownFrom(panel.page, panel.open, place)
               IN next \in Visible /\ UpFrom(panel.page, panel.open, next) = place
    <3>1. PICK row \in Rows : \E child \in 0..Kids[row] : place = <<row, child>>
      BY DEF Visible, Places
    <3>2. PICK child \in 0..Kids[row] : place = <<row, child>>
      BY <3>1
    <3>3. OnDisplay(panel.page, panel.open, row, child)
      BY <3>2 DEF Visible, OnDisplay
    <3>4. DownFrom(panel.page, panel.open, place) \in Visible
      BY <2>1, <2>2, <3>2, <3>3, DownStays
    <3> QED
      BY <2>1, <2>3, <3>2, <3>3, <3>4, UpAfterDown
  <2> QED
    BY <2>3 DEF UpUndoesDown
<1> QED
  BY <1>1, DocInvariant, PTL

(***************************************************************************)
(* What lastSearchValue remembers suppresses no search that is due, unless *)
(* Activate emptied the field.  LastIsOnDisplay is not inductive: it       *)
(* speaks of the word that is in the field, and the field may be empty     *)
(* while a word is remembered, between the keydown that empties it and the *)
(* keyup that compares it.  If a filter were chosen in between, typing the *)
(* word again would start no search.  The invariant says that only a       *)
(* letter key held in the field comes between the two.                     *)
(***************************************************************************)
\* Something is remembered, and the field has not been emptied since by Activate.
Remembers(p) == p.last # "" /\ p.active /\ ~p.emptied

\* What is remembered was searched and is on display, for the filter selected.
Known(p) ==
  /\ p.last \in Texts
  /\ p.last # "" => p.results /\ p.wanted.word = p.last
  /\ Remembers(p) /\ p.index # Filters => p.wanted.index = p.index

\* While something is remembered the field is not empty.
Kept(p) == Remembers(p) => p.text # ""

\* What holds between two handlers.
Fine(p) == Good(p) /\ Known(p) /\ Kept(p)

LEMMA ForgotFine ==
  ASSUME NEW p, Good(p), p.last = ""
  PROVE  Fine(p)
BY DEF Fine, Known, Kept, Remembers, Texts

\* Activate empties the field only with a mark, and forgets when it deactivates.
LEMMA ActivateFine ==
  ASSUME NEW p, DOMAIN p = Fields, Known(p), Kept(p), NEW isActive
  PROVE  Known(Activate(p, isActive)) /\ Kept(Activate(p, isActive))
BY DEF Fields, Known, Kept, Remembers, Activate, Texts

LEMMA MoveFocusFine ==
  ASSUME NEW p, Fine(p), NEW to, NEW place, to = "frame" => OnShow(p, place)
  PROVE  Fine(MoveFocus(p, to, place)) /\ MoveFocus(p, to, place).focus = to
<1> DEFINE blurred == IF p.focus = "field" /\ to # "field" THEN Activate(p, FALSE) ELSE p
<1> DEFINE moved == [blurred EXCEPT !.focus = to, !.at = place,
                                    !.lastKey = @ /\ to = "frame", !.repeatOn = @ /\ to = "frame"]
<1>1. Good(MoveFocus(p, to, place)) /\ MoveFocus(p, to, place).focus = to
  BY MoveFocusGood DEF Fine
<1>2. DOMAIN blurred = Fields /\ Known(blurred) /\ Kept(blurred)
  BY ActivateOff, ActivateFine DEF Fine, Good, Base, Shaped
<1>3. DOMAIN moved = Fields /\ Known(moved) /\ Kept(moved)
  <2> HIDE DEF blurred
  <2> QED
    BY <1>2 DEF Fields, Known, Kept, Remembers
<1>4. MoveFocus(p, to, place) \in {moved, Activate(moved, TRUE)}
  BY DEF MoveFocus
<1> HIDE DEF moved
<1> QED
  BY <1>1, <1>3, <1>4, ActivateFine DEF Fine

\* Search remembers what it searches, and displays it.
LEMMA SearchKnows ==
  ASSUME NEW p, Good(p), Known(p)
  PROVE  LET q == Search(p)
         IN Known(q) /\ (Kept(p) => Kept(q)) /\ q.focus = p.focus
<1>1. DOMAIN p = Fields /\ p.text \in Texts
  BY DEF Good, Base, Shaped
<1>2. CASE Searchable(p)
  <2>1. Trimmed[p.text] \in Texts
    BY <1>1, TextsAssumption
  <2>2. Trimmed[p.text] # "" => p.text # ""
    BY SpacesAssumption
  <2> QED
    BY <1>1, <1>2, <2>1, <2>2 DEF Search, Known, Kept, Remembers, Fields
<1>3. CASE ~Searchable(p)
  BY <1>1, <1>3 DEF Search, Known, Kept, Remembers, Fields
<1> QED
  BY <1>2, <1>3

\* Compare needs no text: an empty field makes it forget.
LEMMA CompareFine ==
  ASSUME NEW p, Good(p), Known(p)
  PROVE  Fine(Compare(p))
<1>1. Good(Compare(p)) /\ DOMAIN p = Fields /\ p.text \in Texts
  BY CompareGood DEF Good, Base, Shaped
<1>2. CASE Squeezed[p.text] = p.last
  <2>1. p.text = "" => p.last = ""
    BY <1>2, TextsAssumption
  <2> QED
    BY <1>1, <1>2, <2>1 DEF Compare, Fine, Kept, Remembers
<1>3. CASE Squeezed[p.text] # p.last /\ Squeezed[p.text] # ""
  <2>1. p.text # ""
    BY <1>3, TextsAssumption
  <2> QED
    BY <1>1, <1>3, <2>1 DEF Compare, Fine, Known, Kept, Remembers, Fields
<1>4. CASE Squeezed[p.text] # p.last /\ Squeezed[p.text] = ""
  <2>1. Compare(p).last = ""
    BY <1>1, <1>4 DEF Compare, Closed, Fields
  <2> QED
    BY <1>1, <2>1, ForgotFine
<1> QED
  BY <1>2, <1>3, <1>4

LEMMA CloseResultsFine ==
  ASSUME NEW p, Fine(p), p.focus # "field"
  PROVE  Fine(CloseResults(p)) /\ CloseResults(p).focus # "frame"
<1>1. Good(CloseResults(p)) /\ CloseResults(p).focus # "frame"
  BY CloseResultsGood DEF Fine
<1>2. CloseResults(p).last = ""
  BY DEF CloseResults, Closed, Activate, Fine, Good, Base, Shaped, Fields
<1> QED
  BY <1>1, <1>2, ForgotFine

LEMMA EscapeFine ==
  ASSUME NEW p, Good(p)
  PROVE  Fine(Escape(p))
<1> DEFINE left == MoveFocus(p, "page", Nowhere)
<1> DEFINE shut == [Closed(left) EXCEPT !.last = ""]
<1>1. DOMAIN left = Fields
  BY MoveFocusGood DEF Good, Base, Shaped
<1>2. DOMAIN shut = Fields /\ shut.last = ""
  <2> HIDE DEF left
  <2> QED
    BY <1>1 DEF Closed, Fields
<1>3. Escape(p) = Activate(shut, FALSE)
  BY DEF Escape
<1>4. Activate(shut, FALSE).last = ""
  <2> HIDE DEF shut
  <2> QED
    BY <1>2 DEF Activate, Fields
<1> QED
  BY <1>3, <1>4, EscapeGood, ForgotFine

\* A filter chosen without a search finds the field empty or the panel inactive.
LEMMA OnSelectItemFine ==
  ASSUME NEW p, Fine(p), NEW id \in 0..Filters
  PROVE  Fine(OnSelectItem(p, id))
<1> DEFINE q == [p EXCEPT !.index = id]
<1>1. Good(OnSelectItem(p, id)) /\ DOMAIN p = Fields /\ p.text \in Texts
  BY OnSelectItemGood DEF Fine, Good, Base, Shaped
<1>2. CASE Searches(q) /\ Searchable(q)
  <2>1. OnSelectItem(p, id) = Search(q)
    BY <1>2 DEF OnSelectItem
  <2>2. DOMAIN q = Fields /\ q.text = p.text /\ q.index = id
    BY <1>1 DEF Fields
  <2>3. Trimmed[q.text] \in Texts /\ (Trimmed[q.text] # "" => q.text # "")
    BY <1>1, <2>2, TextsAssumption, SpacesAssumption
  <2>4. Known(Search(q)) /\ Kept(Search(q))
    <3> HIDE DEF q
    <3> QED
      BY <1>2, <2>2, <2>3 DEF Search, Known, Kept, Remembers, Fields
  <2> QED
    BY <1>1, <2>1, <2>4 DEF Fine
<1>3. CASE Searches(q) /\ ~Searchable(q)
  <2>1. id = Filters
    <3>1. Filters \in Nat /\ q.index = id
      BY <1>1, TextsAssumption DEF Fields
    <3> QED
      BY <1>3, <3>1 DEF Searchable
  <2>2. OnSelectItem(p, id) = [q EXCEPT !.armed = FALSE, !.strays = @ + IF q.armed THEN 1 ELSE 0]
    BY <1>3 DEF OnSelectItem, Search
  <2>3. LET r == OnSelectItem(p, id)
        IN /\ r.last = p.last /\ r.active = p.active /\ r.emptied = p.emptied /\ r.results = p.results /\ r.wanted = p.wanted
           /\ r.text = p.text /\ r.index = Filters
    BY <1>1, <2>1, <2>2 DEF Fields
  <2> QED
    BY <1>1, <2>3 DEF Fine, Known, Kept, Remembers
<1>4. CASE ~Searches(q)
  <2>1. Squeezed[p.text] = "" \/ ~p.active
    BY <1>1, <1>4 DEF Searches, Fields
  <2>2. p.text = "" \/ ~p.active
    BY <1>1, <2>1, SpacesAssumption DEF Texts
  <2>3. ~Remembers(p)
    BY <2>2 DEF Fine, Kept, Remembers
  <2>4. /\ OnSelectItem(p, id) = q
        /\ q.last = p.last /\ q.active = p.active /\ q.emptied = p.emptied
        /\ q.results = p.results /\ q.wanted = p.wanted
    BY <1>1, <1>4 DEF OnSelectItem, Fields
  <2> QED
    BY <1>1, <2>3, <2>4 DEF Fine, Known, Kept, Remembers
<1> QED
  BY <1>2, <1>3, <1>4

\* The fields on which Known and Kept depend.
Memory(p) == <<p.last, p.active, p.emptied, p.results, p.wanted, p.index, p.text>>

LEMMA SameMemory ==
  ASSUME NEW p, NEW q, Memory(q) = Memory(p)
  PROVE  (Known(p) => Known(q)) /\ (Kept(p) => Kept(q))
BY DEF Memory, Known, Kept, Remembers

LEMMA CloseSelectionFine ==
  ASSUME NEW p, Fine(p)
  PROVE  Fine(CloseSelection(p))
<1>1. Memory(CloseSelection(p)) = Memory(p)
  BY DEF Memory, CloseSelection, Fine, Good, Base, Shaped, Fields
<1> QED
  BY <1>1, SameMemory, CloseSelectionGood DEF Fine

LEMMA OnSelectKeyFine ==
  ASSUME NEW p, Fine(p), NEW key
  PROVE  Fine(OnSelectKey(p, key))
<1>1. /\ p.index \in 0..Filters /\ Filters \in Nat
      /\ p.index < Filters => p.index + 1 \in 0..Filters
      /\ p.index > 0 => p.index - 1 \in 0..Filters
  <2>1. p.index \in 0..Filters /\ Filters \in Nat
    BY TextsAssumption DEF Fine, Good, Base, Shaped
  <2>2. \A i \in 0..Filters : /\ i < Filters => i + 1 \in 0..Filters
                             /\ i > 0 => i - 1 \in 0..Filters
    BY <2>1
  <2> QED
    BY <2>1, <2>2
<1>2. Fine(OnSelectItem(p, p.index))
  BY <1>1, OnSelectItemFine
<1>3. Fine(MoveFocus(CloseSelection(OnSelectItem(p, p.index)), "field", Nowhere))
  BY <1>2, CloseSelectionFine, MoveFocusFine
<1> QED
  BY <1>1, <1>2, <1>3, OnSelectItemFine DEF OnSelectKey, MoreFilters

LEMMA IntoFrameFine ==
  ASSUME NEW p, Fine(p)
  PROVE  Fine(IntoFrame(p))
<1>1. CASE FirstResult(p) = Beyond
  BY <1>1 DEF IntoFrame
<1>2. CASE FirstResult(p) # Beyond
  <2>1. OnShow(p, FirstResult(p))
    BY <1>2, FirstOnShow DEF Fine
  <2> QED
    BY <1>2, <2>1, MoveFocusFine DEF IntoFrame
<1> QED
  BY <1>1, <1>2

\* A letter just typed may have left the field empty: Compare forgets then.
LEMMA OnSearchFieldChangeFine ==
  ASSUME NEW p, Good(p), Known(p), NEW key,
         Kept(p) \/ key = "letter"
  PROVE  Fine(OnSearchFieldChange(p, key))
<1> DEFINE killed == [p EXCEPT !.armed = FALSE]
<1>1. Good(killed)
  BY DEF Good, Base, Shaped, Agrees, Rested, Placed, OnShow, Fields
<1>2. Memory(killed) = Memory(p)
  BY DEF Memory, Good, Base, Shaped, Fields
<1>3. Known(killed) /\ (Kept(p) => Kept(killed))
  <2> HIDE DEF killed
  <2> QED
    BY <1>2, SameMemory
<1> HIDE DEF killed
<1>4. CASE key = "letter"
  <2>1. OnSearchFieldChange(p, key) = Compare(killed)
    BY <1>4 DEF OnSearchFieldChange, killed
  <2> QED
    BY <1>1, <1>3, <2>1, CompareFine
<1>5. CASE Kept(p)
  <2>1. Fine(killed)
    BY <1>1, <1>3, <1>5 DEF Fine
  <2>2. Fine(Show(killed))
    <3>1. Memory(Show(killed)) = Memory(killed)
      BY <1>1 DEF Memory, Show, Good, Base, Shaped, Fields
    <3>2. Good(Show(killed))
      BY <1>1 DEF Show, Good, Base, Shaped, Agrees, Rested, Placed, OnShow, Fields
    <3> QED
      BY <2>1, <3>1, <3>2, SameMemory DEF Fine
  <2>3. Fine(MoveFocus(Show(killed), "select", Nowhere))
    BY <2>2, MoveFocusFine
  <2>4. Fine(Escape(killed)) /\ Fine(Compare(killed)) /\ Fine(Compare(IntoFrame(killed)))
    BY <2>1, EscapeFine, CompareFine, IntoFrameFine DEF Fine
  <2>5. OnSearchFieldChange(p, key)
          \in {MoveFocus(Show(killed), "select", Nowhere), Escape(killed),
               Compare(IntoFrame(killed)), Compare(killed)}
    BY DEF OnSearchFieldChange, killed
  <2> QED
    BY <2>3, <2>4, <2>5
<1> QED
  BY <1>4, <1>5

LEMMA NavFine ==
  ASSUME NEW p, Fine(p), p.focus = "frame", NEW key
  PROVE  Fine(Nav(p, key))
<1> DEFINE up == UpFrom(p.page, p.open, p.at)
<1> DEFINE down == DownFrom(p.page, p.open, p.at)
<1>1. (up # Beyond => OnShow(p, up)) /\ OnShow(p, down)
  BY StepsOnShow DEF Fine
<1>2. Good(Nav(p, key))
  BY NavGood DEF Fine
<1> HIDE DEF up, down
<1>3. Fine(MoveFocus(p, "field", Nowhere))
  BY MoveFocusFine
<1>4. up # Beyond => Fine(MoveFocus(p, "frame", up))
  BY <1>1, MoveFocusFine
<1>5. Fine(MoveFocus(p, "frame", down))
  BY <1>1, MoveFocusFine
<1>6. Fine(MoveFocus(CloseResults(p), "field", Nowhere))
  BY CloseResultsFine, MoveFocusFine
<1>7. CASE \E open : Nav(p, key) = [p EXCEPT !.open = open]
  <2>1. Memory(Nav(p, key)) = Memory(p)
    BY <1>7 DEF Memory, Fine, Good, Base, Shaped, Fields
  <2> QED
    BY <1>2, <2>1, SameMemory DEF Fine
<1>8. \/ Nav(p, key) = MoveFocus(p, "field", Nowhere)
      \/ up # Beyond /\ Nav(p, key) = MoveFocus(p, "frame", up)
      \/ Nav(p, key) = MoveFocus(p, "frame", down)
      \/ Nav(p, key) = [p EXCEPT !.open = p.open \cup {p.at[1]}]
      \/ Nav(p, key) = [p EXCEPT !.open = p.open \ {p.at[1]}]
      \/ Nav(p, key) = MoveFocus(CloseResults(p), "field", Nowhere)
      \/ Nav(p, key) = p
  BY Zenon, NavCases DEF up, down
<1> QED
  BY <1>3, <1>4, <1>5, <1>6, <1>7, <1>8

LEMMA OnFrameKeyFine ==
  ASSUME NEW p, Fine(p), p.focus = "frame",
         NEW type \in {"keydown", "keypress", "keyup"}, NEW key
  PROVE  Fine(OnFrameKey(p, type, key))
<1>1. Memory(Processed(p, type)) = Memory(p)
  BY DEF Memory, Processed, Fine, Good, Base, Shaped, Fields
<1>2. Good(Processed(p, type)) /\ Processed(p, type).focus = "frame"
  BY DEF Processed, Fine, Good, Base, Shaped, Agrees, Rested, Placed, OnShow, Fields
<1>3. Fine(Processed(p, type))
  BY <1>1, <1>2, SameMemory DEF Fine
<1> QED
  BY <1>2, <1>3, NavFine DEF OnFrameKey

-----------------------------------------------------------------------------
MemoryInv ==
  /\ Known(panel)
  /\ Kept(panel) \/ (held = "letter" /\ panel.focus = "field")

LEMMA InitMemory == Init => MemoryInv
<1>1. InitPanel.last = ""
  BY DEF InitPanel
<1> QED
  BY <1>1 DEF Init, MemoryInv, Known, Kept, Remembers, Texts

LEMMA KeyboardMemory == DocInv /\ MemoryInv /\ Keyboard => MemoryInv'
<1> SUFFICES ASSUME DocInv, MemoryInv, Keyboard PROVE MemoryInv'
  OBVIOUS
<1>1. Good(panel) /\ Known(panel)
  BY DEF DocInv, MemoryInv
<1>2. ASSUME held = NoKey PROVE Fine(panel)
  BY <1>1, <1>2 DEF MemoryInv, Fine, NoKey
<1>3. ASSUME panel.focus # "field" PROVE Fine(panel)
  BY <1>1, <1>3 DEF MemoryInv, Fine
<1>4. ASSUME NEW text \in Words \cup {""}, TypeIn(text) PROVE MemoryInv'
  <2>1. Known(panel')
    BY <1>1, <1>4 DEF TypeIn, Known, Remembers, Good, Base, Shaped, Fields
  <2>2. held' = "letter" /\ panel'.focus = "field"
    BY <1>1, <1>4 DEF TypeIn, Good, Base, Shaped, Fields
  <2> QED
    BY <2>1, <2>2 DEF MemoryInv
<1>5. ASSUME NEW key, FieldKeyDown(key) PROVE MemoryInv'
  BY <1>2, <1>5 DEF FieldKeyDown, MemoryInv, Fine
<1>6. ASSUME NEW key, SelectKeyDown(key) PROVE MemoryInv'
  BY <1>2, <1>6, OnSelectKeyFine DEF SelectKeyDown, MemoryInv, Fine
<1>7. ASSUME NEW key, FrameKeyDown(key) PROVE MemoryInv'
  BY <1>2, <1>7, OnFrameKeyFine DEF FrameKeyDown, MemoryInv, Fine
<1>8. CASE FrameEnter
  <2>1. panel' = [panel EXCEPT !.open = Toggled(panel.open, panel.at[1])]
    BY <1>8 DEF FrameEnter, OnFrameKey
  <2>2. Memory(panel') = Memory(panel)
    BY <1>1, <2>1 DEF Memory, Good, Base, Shaped, Fields
  <2>3. Fine(panel)
    BY <1>2, <1>8 DEF FrameEnter
  <2> QED
    BY <2>2, <2>3, SameMemory DEF MemoryInv, Fine
<1>9. CASE KeyPress
  BY <1>3, <1>9, OnFrameKeyFine DEF KeyPress, MemoryInv, Fine
<1>10. CASE KeyUp
  <2>1. CASE panel.focus = "field"
    <3>1. Kept(panel) \/ held = "letter"
      BY DEF MemoryInv
    <3> QED
      BY <1>1, <1>10, <2>1, <3>1, OnSearchFieldChangeFine DEF KeyUp, MemoryInv, Fine
  <2>2. CASE panel.focus = "frame"
    BY <1>3, <1>10, <2>2, OnFrameKeyFine DEF KeyUp, MemoryInv, Fine
  <2>3. CASE panel.focus \notin {"field", "frame"}
    BY <1>3, <1>10, <2>3 DEF KeyUp, MemoryInv, Fine
  <2> QED
    BY <2>1, <2>2, <2>3
<1> QED
  BY <1>4, <1>5, <1>6, <1>7, <1>8, <1>9, <1>10 DEF Keyboard

LEMMA MouseMemory == DocInv /\ MemoryInv /\ Mouse => MemoryInv'
<1> SUFFICES ASSUME DocInv, MemoryInv, Mouse PROVE MemoryInv'
  OBVIOUS
<1>1. Fine(panel) /\ DOMAIN panel = Fields
  BY DEF DocInv, MemoryInv, Mouse, Fine, NoKey, Good, Base, Shaped
<1>2. CASE ClickPage
  BY <1>1, <1>2, MoveFocusFine DEF ClickPage, MemoryInv, Fine
<1>3. CASE ClickField
  BY <1>1, <1>3, MoveFocusFine DEF ClickField, MemoryInv, Fine
<1>4. CASE ClickClose
  <2>1. Fine(CloseResults(MoveFocus(panel, "page", Nowhere)))
    BY <1>1, MoveFocusFine, CloseResultsFine
  <2> QED
    BY <1>4, <2>1 DEF ClickClose, MemoryInv, Fine
<1>5. ASSUME NEW id \in 0..(Filters - 1), ClickFilter(id) PROVE MemoryInv'
  <2>1. Filters \in Nat
    BY TextsAssumption
  <2>2. id \in 0..Filters
    BY <2>1
  <2>3. Fine(OnSelectItem(MoveFocus(panel, "select", Nowhere), id))
    BY <1>1, <2>2, MoveFocusFine, OnSelectItemFine
  <2> QED
    BY <1>5, <2>3 DEF ClickFilter, MemoryInv, Fine
<1>6. ASSUME NEW row \in Rows, ClickRow(row) PROVE MemoryInv'
  <2> DEFINE q == MoveFocus(panel, "frame", <<row, 0>>)
  <2>1. OnShow(panel, <<row, 0>>)
    BY <1>6, KidsAssumption DEF ClickRow, OnShow, OnDisplay
  <2>2. Fine(q)
    BY <1>1, <2>1, MoveFocusFine
  <2>3. panel' = [q EXCEPT !.open = Toggled(q.open, row)]
    BY <1>6 DEF ClickRow
  <2> HIDE DEF q
  <2>4. Memory(panel') = Memory(q)
    BY <2>2, <2>3 DEF Memory, Fine, Good, Base, Shaped, Fields
  <2> QED
    BY <2>2, <2>4, SameMemory DEF MemoryInv, Fine
<1>7. CASE PointerOut \/ PointerOver
  <2>1. Memory(panel') = Memory(panel)
    BY <1>1, <1>7 DEF PointerOut, PointerOver, Hide, Show, Memory, Fields
  <2> QED
    BY <1>1, <2>1, SameMemory DEF MemoryInv, Fine
<1> QED
  BY <1>2, <1>3, <1>4, <1>5, <1>6, <1>7 DEF Mouse

LEMMA TimerMemory == DocInv /\ MemoryInv /\ (KeyTimer \/ StrayTimer \/ HideTimer \/ Load) => MemoryInv'
<1> SUFFICES ASSUME DocInv, MemoryInv, KeyTimer \/ StrayTimer \/ HideTimer \/ Load PROVE MemoryInv'
  OBVIOUS
<1>1. Good(panel) /\ Known(panel) /\ DOMAIN panel = Fields
      /\ held' = held /\ (Kept(panel) \/ (held = "letter" /\ panel.focus = "field"))
  BY DEF DocInv, MemoryInv, Good, Base, Shaped, KeyTimer, StrayTimer, HideTimer, Load
<1> SUFFICES Known(panel') /\ (Kept(panel) => Kept(panel')) /\ (panel.focus = "field" => panel'.focus = "field")
  BY <1>1 DEF MemoryInv
<1>2. ASSUME NEW q, Good(q), Memory(q) = Memory(panel), q.focus = panel.focus, panel' = Search(q)
      PROVE  Known(panel') /\ (Kept(panel) => Kept(panel')) /\ panel'.focus = panel.focus
  BY <1>1, <1>2, SameMemory, SearchKnows
<1>3. CASE KeyTimer
  <2> DEFINE q == [panel EXCEPT !.armed = FALSE]
  <2>1. Good(q) /\ Memory(q) = Memory(panel) /\ q.focus = panel.focus
    BY <1>1 DEF Memory, Good, Base, Shaped, Agrees, Rested, Placed, OnShow, Fields
  <2> QED
    BY <1>2, <1>3, <2>1 DEF KeyTimer
<1>4. CASE StrayTimer
  <2> DEFINE q == [panel EXCEPT !.strays = @ - 1]
  <2>1. Good(q) /\ Memory(q) = Memory(panel) /\ q.focus = panel.focus
    BY <1>1 DEF Memory, Good, Base, Shaped, Agrees, Rested, Placed, OnShow, Fields
  <2> QED
    BY <1>2, <1>4, <2>1 DEF StrayTimer
<1>5. CASE HideTimer \/ Load
  <2>1. Memory(panel') = Memory(panel) /\ (panel.focus = "field" => panel'.focus = "field")
    BY ZenonT(60), <1>1, <1>5 DEF HideTimer, CloseSelection, Load, Loaded, Memory, Fields
  <2> QED
    BY <1>1, <2>1, SameMemory
<1> QED
  BY <1>3, <1>4, <1>5

LEMMA NextMemory == DocInv /\ MemoryInv /\ [Next]_vars => MemoryInv'
<1>1. MemoryInv /\ UNCHANGED vars => MemoryInv'
  BY DEF vars, MemoryInv
<1> QED
  BY <1>1, KeyboardMemory, MouseMemory, TimerMemory DEF Next

\* For every list of words, the label among them, every index and page: when
\* releasing a key starts no search, the search made last was for the word in the
\* field and its window is displayed; and it was made with the filter selected,
\* unless Activate has emptied the field since (search.js:200-214, 256-265, 365,
\* 385-389).
THEOREM NothingDueIsSuppressed == Spec => []LastIsOnDisplay
<1>1. ASSUME DocInv, MemoryInv PROVE LastIsOnDisplay
  <2> SUFFICES ASSUME NEW word \in Words, NEW index \in 0..(Filters - 1),
                      Typed(word, index), Squeezed[word] = panel.last
               PROVE  Shown(word) /\ (panel.wanted.index = index \/ panel.emptied)
    BY DEF LastIsOnDisplay
  <2>1. panel.last # ""
    BY SpacesAssumption
  <2>2. Filters \in Nat
    BY TextsAssumption
  <2>3. panel.index # Filters
    BY <2>2 DEF Typed
  <2>4. Squeezed[panel.last] = panel.last
    <3>1. word \in Texts /\ panel.last \in Texts
      BY <1>1 DEF Texts, MemoryInv, Known
    <3> QED
      BY <3>1, SpacesAssumption
  <2>5. Shown(word)
    BY <1>1, <2>1, <2>4 DEF MemoryInv, Known, Shown
  <2>6. panel.wanted.index = index \/ panel.emptied
    BY <1>1, <2>1, <2>3 DEF MemoryInv, Known, Remembers, Typed
  <2> QED
    BY <2>5, <2>6
<1> QED
  BY <1>1, DocInvariant, InitMemory, NextMemory, PTL DEF Spec
===============================================================================
