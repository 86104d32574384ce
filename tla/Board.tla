-------------------------------- MODULE Board --------------------------------
(***************************************************************************)
(* What the widget routes promise of a board's layout, with no gate, lock  *)
(* or transaction in sight: every write happens at once, on the board as   *)
(* it is at that moment.  BoardGrid implements it; BoardView is the        *)
(* browser of a server that keeps it.                                      *)
(***************************************************************************)
EXTENDS GridGeometry, FiniteSets

CONSTANTS
    Widgets,       \* widget ids
    MaxWidgets,    \* MAX_WIDGETS_PER_BOARD
    PutsBack       \* PATCHes without a grid field may come in between

VARIABLES
    board,   \* the board is there
    rect     \* the rectangle of each widget, NoRect when there is none

layout == <<board, rect>>

On == {w \in Widgets : rect[w] # NoRect}

ClearFor(w, a) == \A v \in On \ {w} : Disjoint(a, rect[v])

Empty == board = TRUE /\ rect = [w \in Widgets |-> NoRect]

\* 201: there was room, in the columns and under the cap, and the cells were free.
Create(w, a) ==
    /\ board /\ w \notin On /\ Cardinality(On) < MaxWidgets
    /\ Fits(a) /\ ClearFor(w, a)
    /\ rect' = [rect EXCEPT ![w] = a]
    /\ UNCHANGED board

CanPlace(w, a) == w \in On /\ Fits(a) /\ ClearFor(w, a)

\* 200 for a move or a resize.
Place(w, a) ==
    /\ CanPlace(w, a)
    /\ rect' = [rect EXCEPT ![w] = a]
    /\ UNCHANGED board

\* A PATCH of other fields writes the rectangle it read at the gate: what comes
\* back fits the columns, and is nothing more than that.
PutBack(w, a) ==
    /\ PutsBack /\ w \in On /\ Fits(a)
    /\ rect' = [rect EXCEPT ![w] = a]
    /\ UNCHANGED board

Remove(w) ==
    /\ w \in On
    /\ rect' = [rect EXCEPT ![w] = NoRect]
    /\ UNCHANGED board

DropBoard == board /\ board' = FALSE /\ rect' = [w \in Widgets |-> NoRect]

Change ==
    \/ \E w \in Widgets :
          \/ \E a \in Rect : Create(w, a) \/ Place(w, a) \/ PutBack(w, a)
          \/ Remove(w)
    \/ DropBoard

Layout == Empty /\ [][Change]_layout
=============================================================================
