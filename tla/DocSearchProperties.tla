------------------------- MODULE DocSearchProperties -------------------------
(***************************************************************************)
(* What a reader of the documentation may rely on: the results on display  *)
(* are those of the text in the field, and the focus is where it can be    *)
(* seen.                                                                   *)
(***************************************************************************)
EXTENDS DocSearch

Places == {Nowhere} \cup UNION {{<<row, child>> : child \in 0..Kids[row]} : row \in Rows}

\* Activation, the label and the two windows agree, whichever of the handlers
\* that open and close them ran last and whatever blur it ran inside
\* (search.js:192-198, 209-211, 292-297, 334, 374-398): the close icon is there
\* with the results, the field shows its label exactly while the panel is
\* inactive, unless the reader has just typed it, and a panel at rest remembers
\* no search that would suppress the next.
PanelConsistent ==
  /\ panel.close = panel.results
  /\ IF panel.focus = "field" THEN panel.active ELSE panel.active <=> panel.text # Label
  /\ ~panel.active /\ ~panel.results => panel.last = ""

Typed(word, index) ==
  panel.active /\ panel.text = word /\ panel.index = index

Shown(word) == panel.results /\ Squeezed[panel.wanted.word] = Squeezed[word]

\* When the text of the field counts as searched already, so that releasing a
\* key starts no search, the search made last was for that word, its window is
\* displayed, and it was made with the filter selected: no path leaves in
\* lastSearchValue a value that suppresses a search that is due (search.js:200-214,
\* 256-265, 365) but one.  With results displayed, Activate empties a field that
\* holds the label, typed or searched, and keeps lastSearchValue (385-389); the
\* filter can then be changed without a search, and typing what was searched
\* starts none.  Texts that differ in spaces only count as one.
LastIsOnDisplay ==
  \A word \in Words, index \in 0..(Filters - 1) :
    Typed(word, index) /\ Squeezed[word] = panel.last =>
      Shown(word) /\ (panel.wanted.index = index \/ panel.emptied)

\* While the pointer rests on the icon or the list of filters, no timer is
\* about to close the list (search.js:138-143).
PointedStaysOpen == pointed /\ panel.select => ~panel.hiding

\* The focus in the frame is on a row that matches, or on a child that is
\* unfolded, in a window that is displayed (search.js:522-562, 587-706).
FocusOnVisible ==
  panel.focus = "frame" =>
    /\ panel.results /\ panel.at[1] \in Displayed(panel.page)
    /\ panel.at[2] > 0 => Opened(panel.open, panel.at[1])

Visible ==
  {place \in Places \ {Nowhere} :
     place[1] \in Displayed(panel.page) /\ (place[2] > 0 => Opened(panel.open, place[1]))}

\* Up is the way back of Down from every place on display, whichever rows match
\* and are unfolded, across the border of rows and children (search.js:596-628
\* against 634-640, and 671-692).
UpUndoesDown ==
  \A place \in Visible :
    LET next == DownFrom(panel.page, panel.open, place)
    IN next # place => next \in Visible /\ UpFrom(panel.page, panel.open, next) = place

Answered(word, index) ==
  panel.results /\ panel.page.index = index /\ Squeezed[panel.page.word] = Squeezed[word]

Due(word) ==
  /\ panel.armed /\ Searchable(panel) /\ Typed(word, panel.index)
  /\ ~(panel.emptied /\ Squeezed[word] = panel.last)

\* A search that was due is answered: with the timer running, the frame gets the
\* page of the word in the field for the filter selected, unless the reader
\* changes the word, gives the search up, or turns to the list of filters, which
\* kills the timer (search.js:156-160, 203-208, 305-366).  The index past the last
\* finds nothing, and a word that is searched already, before Activate emptied the
\* field, is not searched again.
DueIsAnswered ==
  \A word \in Words :
    Due(word)
      ~> Answered(word, panel.index) \/ ~Typed(word, panel.index) \/ panel.focus = "select"
=============================================================================
