---------------------------- MODULE SearchResults ----------------------------
(***************************************************************************)
(* The page of search results of the generated documentation, shown in a   *)
(* frame: class SearchResults of search.js.  The page is a list of rows; a *)
(* row with several results has children, which can be opened and closed.  *)
(* Only the rows that match the search are displayed.                      *)
(*                                                                         *)
(* A place is <<row, child>>: rows are numbered from 0 and children from 1 *)
(* and child 0 is the row itself.  A page is the record of the search it   *)
(* answers: the index searched and the word.                               *)
(***************************************************************************)
EXTENDS Integers

CONSTANTS
  Kids,     \* for each row, the number of its children: 0 for a single result
  Matches   \* for each index and word searched, the rows displayed

Rows == DOMAIN Kids

ASSUME KidsAssumption ==
  /\ Rows \subseteq Nat /\ Kids \in [Rows -> Nat]
  /\ \A row \in Rows : 0..row \subseteq Rows

\* The rows are sorted by name, and those that match share a prefix: no row
\* between two that are displayed is hidden.
ASSUME MatchesAssumption ==
  \A index \in DOMAIN Matches : \A word \in DOMAIN Matches[index] :
    /\ Matches[index][word] \subseteq Rows
    /\ \A i, k \in Matches[index][word] : i..k \subseteq Matches[index][word]

NoPage == [index |-> -1, word |-> ""]

Displayed(page) == IF page = NoPage THEN {} ELSE Matches[page.index][page.word]

\* No such element: getElementById found nothing.
Beyond == <<-1, 0>>

\* Mutation of NavNext: the row with this number, displayed or not.
NavNextAny(page, from) == IF from \in Rows THEN <<from, 0>> ELSE Beyond

\* The first row displayed from "from" on.
NavNext(page, from) ==
  LET next == {i \in Displayed(page) : i >= from}
  IN IF next = {} THEN Beyond ELSE <<CHOOSE i \in next : \A j \in next : i <= j, 0>>

\* The last row displayed up to "from".
NavPrev(page, from) ==
  LET prev == {i \in Displayed(page) : i <= from}
  IN IF prev = {} THEN Beyond ELSE <<CHOOSE i \in prev : \A j \in prev : i >= j, 0>>

\* FindChildElement finds a list of children, and it is displayed.
Opened(open, row) == row \in open /\ Kids[row] > 0

Toggled(open, row) ==
  CASE Kids[row] = 0 -> open
    [] Opened(open, row) -> open \ {row}
    [] OTHER -> open \cup {row}

\* Where Down leads: into the children if they are displayed, else to the next
\* row.  At the end the focus stays.
DownFrom(page, open, place) ==
  LET row == place[1]
      child == place[2]
      inside == IF child = 0 THEN Opened(open, row) ELSE child < Kids[row]
      next == NavNext(page, row + 1)
  IN IF inside THEN <<row, child + 1>> ELSE IF next = Beyond THEN place ELSE next

\* Mutation of UpFrom: always to the row before, whatever is open.
UpFromRows(page, open, place) ==
  IF place[2] > 0 THEN <<place[1], place[2] - 1>> ELSE NavPrev(page, place[1] - 1)

\* Where Up leads.  If the row that NavPrev finds has its children displayed, to
\* the last child of the row before, by its number, whether or not it is that row.
UpFrom(page, open, place) ==
  LET before == place[1] - 1
      prev == NavPrev(page, before)
  IN CASE place[2] > 0 -> <<place[1], place[2] - 1>>
       [] place[2] = 0 /\ prev # Beyond /\ Opened(open, prev[1]) /\ Kids[before] > 0 ->
            <<before, Kids[before]>>
       [] OTHER -> prev
=============================================================================
