----------------------------- MODULE GridGeometry -----------------------------
(***************************************************************************)
(* Rectangles on a board's grid: the arithmetic that the widget routes     *)
(* (apps/api/src/routes/widgets.ts) and the board view (apps/web) share.   *)
(***************************************************************************)
EXTENDS Integers

CONSTANTS
    GridColumns,   \* GRID_COLUMNS
    GridRows,      \* the rows a caller may ask for (bound; the code has none)
    MaxSpan        \* WIDGET_MAX_SPAN

Side == {"col", "row", "width", "height"}

NoRect == [col |-> 0, row |-> 0, width |-> 0, height |-> 0]
Rect == [col : 0 .. GridColumns - 1, row : GridRows,
         width : 1 .. MaxSpan, height : 1 .. MaxSpan]

\* Placed one column apart, taken for clear.
RectanglesOverlapInner(a, b) ==
    /\ a.col + 1 < b.col + b.width /\ a.col + a.width > b.col + 1
    /\ a.row < b.row + b.height /\ a.row + a.height > b.row

RectanglesOverlap(a, b) ==
    /\ a.col < b.col + b.width /\ a.col + a.width > b.col
    /\ a.row < b.row + b.height /\ a.row + a.height > b.row

\* gridCol + gridWidth > GRID_COLUMNS is refused.
Fits(a) == a.col + a.width <= GridColumns

\* The fields sent, the others from the row (gridCol ?? widget.gridCol).
Merged(row, sends, to) ==
    [col    |-> IF "col" \in sends THEN to.col ELSE row.col,
     row    |-> IF "row" \in sends THEN to.row ELSE row.row,
     width  |-> IF "width" \in sends THEN to.width ELSE row.width,
     height |-> IF "height" \in sends THEN to.height ELSE row.height]

\* The grid cells a rectangle covers, what "overlap" is about.
Cells(a) == (a.col .. a.col + a.width - 1) \X (a.row .. a.row + a.height - 1)
Disjoint(a, b) == Cells(a) \intersect Cells(b) = {}
=============================================================================
