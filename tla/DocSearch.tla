------------------------------ MODULE DocSearch ------------------------------
(***************************************************************************)
(* A reader searches the generated documentation (docs/html, search.js):   *)
(* the events of the browser - keys, clicks, the pointer, timers and the   *)
(* frame that finishes loading - and the handler each of them runs.        *)
(*                                                                         *)
(* One key is held at a time, and its keyup goes to the element that has   *)
(* the focus by then.  The mouse rests while a key is held.  A click on a  *)
(* single result, or Enter on one, leaves the page and is not modelled.    *)
(***************************************************************************)
EXTENDS SearchBox

CONSTANT MaxStrays  \* bound of the model: forgotten timers at a time

VARIABLES
  panel,
  held,     \* the key that is down
  pointed   \* the pointer is over the select icon or the list of filters

vars == <<panel, held, pointed>>

Init == panel = InitPanel /\ held = NoKey /\ pointed = FALSE

-----------------------------------------------------------------------------
\* A key goes down.  In the field a letter, or another key that acts on nothing,
\* leaves some text; in the frame Enter clicks.
TypeIn(text) ==
  /\ panel.focus = "field"
  /\ held = NoKey /\ held' = "letter"
  /\ panel' = [panel EXCEPT !.text = text]

FieldKeyDown(key) ==
  /\ panel.focus = "field" /\ key \in {"down", "shiftDown", "enter", "escape"}
  /\ held = NoKey /\ held' = key
  /\ UNCHANGED panel

SelectKeyDown(key) ==
  /\ panel.focus = "select" /\ key \in {"up", "down", "enter", "escape"}
  /\ held = NoKey /\ held' = key
  /\ panel' = OnSelectKey(panel, key)

FrameKeyDown(key) ==
  /\ panel.focus = "frame" /\ key \in {"up", "down", "left", "right", "escape"}
  /\ held = NoKey /\ held' = key
  /\ panel' = OnFrameKey(panel, "keydown", key)

FrameEnter ==
  /\ panel.focus = "frame" /\ panel.at[2] = 0 /\ Kids[panel.at[1]] > 0
  /\ held = NoKey /\ held' = "enter"
  /\ panel' = [OnFrameKey(panel, "keydown", "enter") EXCEPT !.open = Toggled(@, panel.at[1])]

\* The held key repeats, in a browser that sends keypress.
KeyPress ==
  /\ panel.focus = "frame" /\ held \notin {NoKey, "enter"}
  /\ panel' = OnFrameKey(panel, "keypress", held)
  /\ UNCHANGED held

KeyUp ==
  /\ held # NoKey /\ held' = NoKey
  /\ panel' = CASE panel.focus = "field" -> OnSearchFieldChange(panel, held)
                [] panel.focus = "frame" -> OnFrameKey(panel, "keyup", held)
                [] OTHER -> panel
  /\ UNCHANGED pointed

Keyboard ==
  /\ \/ \E text \in Words \cup {""} : TypeIn(text)
     \/ \E key \in {"up", "down", "shiftDown", "left", "right", "enter", "escape"} :
          FieldKeyDown(key) \/ SelectKeyDown(key) \/ FrameKeyDown(key)
     \/ FrameEnter
     \/ KeyPress
     \/ KeyUp
  /\ UNCHANGED pointed

-----------------------------------------------------------------------------
\* A click moves the focus before it acts.
ClickPage == panel' = MoveFocus(panel, "page", Nowhere)

ClickField == panel' = MoveFocus(panel, "field", Nowhere)

ClickClose ==
  /\ panel.close
  /\ panel' = CloseResults(MoveFocus(panel, "page", Nowhere))

ClickFilter(id) ==
  /\ panel.select
  /\ panel' = OnSelectItem(MoveFocus(panel, "select", Nowhere), id)

ClickRow(row) ==
  /\ panel.results /\ row \in Displayed(panel.page) /\ Kids[row] > 0
  /\ panel' = [MoveFocus(panel, "frame", <<row, 0>>) EXCEPT !.open = Toggled(@, row)]

\* The pointer leaves the icon or the list, or comes to one of them.  Between the
\* two it leaves one before it comes to the other.
PointerOut == pointed /\ panel' = Hide(panel) /\ pointed' = FALSE

PointerOver ==
  /\ panel' = Show(IF pointed THEN Hide(panel) ELSE panel)
  /\ pointed' = TRUE

Mouse ==
  /\ held = NoKey /\ UNCHANGED held
  /\ \/ /\ \/ ClickPage \/ ClickField \/ ClickClose
           \/ \E id \in 0..(Filters - 1) : ClickFilter(id)
           \/ \E row \in Rows : ClickRow(row)
        /\ UNCHANGED pointed
     \/ PointerOut \/ PointerOver

-----------------------------------------------------------------------------
KeyTimer ==
  /\ panel.armed
  /\ panel' = Search([panel EXCEPT !.armed = FALSE])
  /\ UNCHANGED <<held, pointed>>

StrayTimer ==
  /\ panel.strays > 0
  /\ panel' = Search([panel EXCEPT !.strays = @ - 1])
  /\ UNCHANGED <<held, pointed>>

HideTimer ==
  /\ panel.hiding
  /\ panel' = CloseSelection([panel EXCEPT !.hiding = FALSE])
  /\ UNCHANGED <<held, pointed>>

\* The frame shows the page it was sent to, from its start.
Loaded(p) ==
  [p EXCEPT !.loading = FALSE, !.page = p.wanted, !.open = {},
            !.lastKey = FALSE, !.repeatOn = FALSE,
            !.focus = IF p.focus = "frame" THEN "page" ELSE p.focus,
            !.at = Nowhere]

Load ==
  /\ panel.loading
  /\ panel' = Loaded(panel)
  /\ UNCHANGED <<held, pointed>>

Next ==
  /\ Keyboard \/ Mouse \/ KeyTimer \/ StrayTimer \/ HideTimer \/ Load
  /\ panel'.strays <= MaxStrays

\* A key that went down comes up, timers fire, pages load.
Fairness == WF_vars(KeyUp) /\ WF_vars(KeyTimer) /\ WF_vars(Load)

Spec == Init /\ [][Next]_vars /\ Fairness
=============================================================================
