------------------------------ MODULE SearchBox ------------------------------
(***************************************************************************)
(* The search box of the generated documentation: class SearchBox of       *)
(* search.js with the frame of SearchResults.  Its handlers call each      *)
(* other, also through the focus: moving the focus runs onblur and onfocus *)
(* of the field before the caller goes on.  So a handler is an operator    *)
(* from panel to panel, and DocSearch makes the actions.                   *)
(*                                                                         *)
(* Positions, sizes and the marks in the list of filters are left out.     *)
(***************************************************************************)
EXTENDS SearchResults, FiniteSets

CONSTANTS
  Words,     \* what may be typed in the field
  Label,     \* what an unused field shows ("Search"); it may be typed too
  Squeezed,  \* for each text, the text without spaces
  Trimmed,   \* for each text, the text without leading spaces
  Filters    \* number of indexes, numbered from 0, one for each select item

Texts == Words \cup {"", Label}

ASSUME TextsAssumption ==
  /\ "" \notin Words /\ Label # ""
  /\ Squeezed \in [Texts -> STRING] /\ Trimmed \in [Texts -> Texts]
  /\ Squeezed[""] = "" /\ Filters \in Nat \ {0} /\ 0..(Filters - 1) \subseteq DOMAIN Matches
  /\ \A i \in 0..(Filters - 1), t \in Texts : Trimmed[t] \in DOMAIN Matches[i]

\* No word is blank, nor is the label, which does not start with a space.
ASSUME SpacesAssumption ==
  /\ Trimmed[""] = "" /\ Trimmed[Label] = Label
  /\ \A word \in Words \cup {Label} : Squeezed[word] # ""
  /\ \A t, u \in Texts : Squeezed[t] = u => Squeezed[u] = u

NoKey == "none"
Nowhere == <<-2, 0>>

\* The panel when init_search has run: it selects index 0 and searches nothing.
InitPanel ==
  [ text |-> Label,        \* content of MSearchField
    focus |-> "page", at |-> Nowhere,   \* the focus, and the place it has in the frame
    active |-> FALSE,      \* searchActive
    last |-> "",           \* lastSearchValue
    index |-> 0,           \* searchIndex
    results |-> FALSE,     \* MSearchResultsWindow is displayed
    close |-> FALSE,       \* MSearchClose is displayed
    select |-> FALSE,      \* MSearchSelectWindow is displayed
    armed |-> FALSE,       \* the search timer in keyTimeout
    strays |-> 0,          \* search timers that keyTimeout no longer holds
    hiding |-> FALSE,      \* the timer in hideTimeout
    emptied |-> FALSE,     \* history: Activate emptied the field after the last search
    wanted |-> NoPage, loading |-> FALSE,  \* the page assigned to the frame last
    page |-> NoPage,       \* the page in the frame
    open |-> {},           \* its rows whose children are displayed
    lastKey |-> FALSE, repeatOn |-> FALSE ]   \* of the page: a key is down, and repeats

-----------------------------------------------------------------------------
Activate(p, isActive) ==
  IF isActive \/ p.results
  THEN IF p.text = Label
       THEN [p EXCEPT !.text = "", !.active = TRUE, !.emptied = TRUE]
       ELSE p
  ELSE [p EXCEPT !.text = Label, !.active = FALSE, !.last = ""]

\* The focus moves: onblur and onfocus of the field.  What ProcessKeys remembers
\* is dropped with the focus, for the next keydown in the frame overwrites it.
MoveFocus(p, to, place) ==
  LET blurred == IF p.focus = "field" /\ to # "field" THEN Activate(p, FALSE) ELSE p
      moved == [blurred EXCEPT !.focus = to, !.at = place,
                               !.lastKey = @ /\ to = "frame", !.repeatOn = @ /\ to = "frame"]
  IN IF to = "field" /\ p.focus # "field" THEN Activate(moved, TRUE) ELSE moved

\* Mutation of Show: the hide timer goes on.
ShowHideGoesOn(p) == [p EXCEPT !.select = TRUE]

Show(p) == [p EXCEPT !.select = TRUE, !.hiding = FALSE]

Hide(p) == [p EXCEPT !.hiding = TRUE]

\* An element that is no longer displayed loses the focus.
CloseSelection(p) ==
  [p EXCEPT !.select = FALSE, !.focus = IF @ = "select" THEN "page" ELSE @]

\* Mutation of Closed: the close icon stays.
ClosedKeepsIcon(p) ==
  LET inside == p.focus = "frame"
  IN [p EXCEPT !.results = FALSE,
               !.focus = IF inside THEN "page" ELSE @, !.at = IF inside THEN Nowhere ELSE @]

\* The window of results and the close icon disappear, with the focus if it is
\* in the window.
Closed(p) ==
  LET inside == p.focus = "frame"
  IN [p EXCEPT !.results = FALSE, !.close = FALSE,
               !.focus = IF inside THEN "page" ELSE @, !.at = IF inside THEN Nowhere ELSE @]

CloseResults(p) == Activate(Closed(p), FALSE)

\* Past the last index there is no list of letters.
Searchable(p) == p.index < Filters

\* Mutation of Search: the page of an index is loaded once.
SearchLoadsOnce(p) ==
  LET forgot == [p EXCEPT !.armed = FALSE, !.strays = @ + IF p.armed THEN 1 ELSE 0]
  IN IF ~Searchable(p) THEN forgot
     ELSE [forgot EXCEPT
             !.wanted = IF @.index = p.index THEN @ ELSE [index |-> p.index, word |-> Trimmed[p.text]],
             !.loading = @ \/ p.wanted.index # p.index,
             !.last = Trimmed[p.text], !.results = TRUE, !.close = TRUE, !.emptied = FALSE]

\* A timer that has not fired is forgotten.  At an index past the last, the
\* TypeError of line 321 ends the handler.
Search(p) ==
  LET forgot == [p EXCEPT !.armed = FALSE, !.strays = @ + IF p.armed THEN 1 ELSE 0]
  IN IF Searchable(p)
     THEN [forgot EXCEPT !.wanted = [index |-> p.index, word |-> Trimmed[p.text]],
                         !.loading = TRUE, !.last = Trimmed[p.text],
                         !.results = TRUE, !.close = TRUE, !.emptied = FALSE]
     ELSE forgot

Searches(p) == Squeezed[p.text] # "" /\ p.active

OnSelectItem(p, id) ==
  LET q == [p EXCEPT !.index = id] IN IF Searches(q) THEN Search(q) ELSE q

\* Whether Down goes on; it may reach the number of filters, one past the last.
MoreFilters(p) == p.index < Filters

\* A key in the list of filters.
OnSelectKey(p, key) ==
  CASE key = "down" /\ MoreFilters(p) -> OnSelectItem(p, p.index + 1)
    [] key = "up" /\ p.index > 0 -> OnSelectItem(p, p.index - 1)
    [] key \in {"enter", "escape"} /\ Searches(p) /\ ~Searchable(p) -> OnSelectItem(p, p.index)
    [] key \in {"enter", "escape"} /\ ~(Searches(p) /\ ~Searchable(p)) ->
         MoveFocus(CloseSelection(OnSelectItem(p, p.index)), "field", Nowhere)
    [] OTHER -> p

-----------------------------------------------------------------------------
\* NavNext(0) of the page in the frame: there is none before the first search,
\* and a window that is not displayed does not take the focus.
FirstResult(p) == IF p.results THEN NavNext(p.page, 0) ELSE Beyond

IntoFrame(p) ==
  IF FirstResult(p) = Beyond THEN p ELSE MoveFocus(p, "frame", FirstResult(p))

\* Mutation of Compare: emptying the field leaves lastSearchValue.
CompareKeepsLast(p) ==
  IF Squeezed[p.text] = p.last THEN p
  ELSE IF Squeezed[p.text] # "" THEN [p EXCEPT !.armed = TRUE]
  ELSE Closed(p)

\* The content without spaces is compared with what was searched last.
Compare(p) ==
  IF Squeezed[p.text] = p.last THEN p
  ELSE IF Squeezed[p.text] # "" THEN [p EXCEPT !.armed = TRUE]
  ELSE [Closed(p) EXCEPT !.last = ""]

\* Escape out of the field: the blur comes first, with the results displayed.
Escape(p) ==
  Activate([Closed(MoveFocus(p, "page", Nowhere)) EXCEPT !.last = ""], FALSE)

\* A key is released in the field.
OnSearchFieldChange(p, key) ==
  LET killed == [p EXCEPT !.armed = FALSE]
  IN CASE key = "shiftDown" -> MoveFocus(Show(killed), "select", Nowhere)
       [] key = "escape" -> Escape(killed)
       [] key \in {"down", "enter"} -> Compare(IntoFrame(killed))
       [] OTHER -> Compare(killed)

-----------------------------------------------------------------------------
\* A key in the frame, at a row (Nav) or at a child (NavChild).
Nav(p, key) ==
  LET row == p.at[1]
      child == p.at[2]
      up == UpFrom(p.page, p.open, p.at)
  IN CASE key = "up" /\ up = Beyond -> MoveFocus(p, "field", Nowhere)
       [] key = "up" /\ up # Beyond -> MoveFocus(p, "frame", up)
       [] key = "down" -> MoveFocus(p, "frame", DownFrom(p.page, p.open, p.at))
       [] key = "right" /\ child = 0 /\ Kids[row] > 0 -> [p EXCEPT !.open = @ \cup {row}]
       [] key = "left" /\ child = 0 -> [p EXCEPT !.open = @ \ {row}]
       [] key = "escape" -> MoveFocus(CloseResults(p), "field", Nowhere)
       [] OTHER -> p

\* ProcessKeys: what it remembers of an event.  lastKey is the key of the event
\* whenever Nav acts on it, so that only whether it is 0 is kept ...
Processed(p, type) ==
  CASE type = "keydown" -> [p EXCEPT !.repeatOn = FALSE, !.lastKey = TRUE]
    [] type = "keypress" -> [p EXCEPT !.repeatOn = @ \/ p.lastKey]
    [] type = "keyup" -> [p EXCEPT !.repeatOn = FALSE, !.lastKey = FALSE]

\* ... and whether the event acts.  The first keypress after keydown does not.
ActsOn(p, type) == type = "keydown" \/ (type = "keypress" /\ p.repeatOn /\ p.lastKey)

OnFrameKey(p, type, key) ==
  CASE key = "enter" -> p
    [] key # "enter" /\ ActsOn(p, type) -> Nav(Processed(p, type), key)
    [] OTHER -> Processed(p, type)
=============================================================================
