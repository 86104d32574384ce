--------------------------- MODULE BoardPage_proofs ---------------------------
(***************************************************************************)
(* What the board page's properties rest on, for any number of widgets,    *)
(* of saves in flight and of pointers, any grid and any interval.  Where   *)
(* the pointer goes never matters, only what the page does with it; what   *)
(* a save carries is true of the server until it is answered, because      *)
(* nobody else writes to that widget in the meantime; and the clock of the *)
(* reloads is bounded by the steps left on its timer.                      *)
(***************************************************************************)
EXTENDS BoardPage, FiniteSetTheorems, TLAPS

-----------------------------------------------------------------------------
(* Greatest elements *)

\* A function on a finite set has a greatest value.  There would otherwise be a
\* smallest non-empty subset without one, and taking an element out of it leaves
\* a smaller one.
LEMMA FiniteHasGreatest ==
    ASSUME NEW S, IsFiniteSet(S), S # {}, NEW f \in [S -> Int]
    PROVE  \E x \in S : \A y \in S : f[y] <= f[x]
<1> DEFINE Without == {T \in SUBSET S : T # {} /\ \A x \in T : \E y \in T : f[y] > f[x]}
<1>1. SUFFICES ASSUME S \in Without PROVE FALSE
  <2>1. S \notin Without
    BY <1>1
  <2> QED
    BY <2>1
<1>2. IsWellFoundedOn(StrictSubsetOrdering(S), SUBSET S)
  BY FS_StrictSubsetOrderingWellFounded, FS_FiniteSubsetsOfFinite
<1>3. PICK T \in Without : \A U \in Without : ~(<<U, T>> \in StrictSubsetOrdering(S))
  <2> HIDE DEF Without
  <2>1. Without \subseteq SUBSET S
    BY DEF Without
  <2> QED
    BY <1>1, <1>2, <2>1, WFMin
<1>4. PICK x \in T : TRUE
  OBVIOUS
<1> DEFINE U == T \ {x}
<1>5. U # {}
  <2>1. PICK y \in T : f[y] > f[x]
    BY <1>4
  <2>2. f[x] \in Int
    BY <1>4
  <2> QED
    BY <2>1, <2>2
<1>6. U \notin Without
  BY <1>3, <1>4 DEF StrictSubsetOrdering
<1>7. PICK z \in U : \A y \in U : ~(f[y] > f[z])
  BY <1>5, <1>6
<1>8. PICK y \in T : f[y] > f[z]
  BY <1>7
<1>9. y = x
  BY <1>7, <1>8
<1>10. PICK v \in T : f[v] > f[x]
  BY <1>4
<1>11. v \in U
  BY <1>4, <1>10
<1> QED
  <2>1. f[v] \in Int /\ f[x] \in Int /\ f[z] \in Int
    BY <1>4, <1>7, <1>10
  <2> QED
    BY <2>1, <1>7, <1>8, <1>9, <1>10, <1>11

\* Some of the numbers up to a bound: there is a least one.
LEMMA SomeHaveLeast ==
    ASSUME NEW n \in Nat, NEW T \in SUBSET (0 .. n), T # {}
    PROVE  \E m \in T : \A k \in T : m <= k
<1> DEFINE f == [k \in T |-> -k]
<1>1. IsFiniteSet(T)
  <2>1. IsFiniteSet(0 .. n)
    BY FS_Interval
  <2> QED
    BY <2>1, FS_Subset
<1>2. f \in [T -> Int]
  OBVIOUS
<1>3. PICK m \in T : \A k \in T : f[k] <= f[m]
  <2> HIDE DEF f
  <2> QED
    BY <1>1, <1>2, FiniteHasGreatest
<1>4. \A k \in T : m <= k
  BY <1>3
<1> QED
  BY <1>4

-----------------------------------------------------------------------------
(* Placements *)

LEMMA Grid ==
    /\ GridColumns \in Nat /\ GridRows \subseteq Nat /\ MaxSpan \in Nat /\ MaxSpan >= 1
    /\ NewSpan \in 1 .. MaxSpan /\ NewSpan <= GridColumns
    /\ Interval \in Nat /\ Interval >= 1
    BY ViewAssumption, PageAssumption

LEMMA PlacementType ==
    ASSUME NEW a \in Placement
    PROVE  /\ a.col \in Nat /\ a.row \in Nat /\ a.width \in Int /\ a.height \in Int
           /\ a.width >= 1 /\ a.height >= 1
           /\ a = [col |-> a.col, row |-> a.row, width |-> a.width, height |-> a.height]
    BY Grid DEF Placement

LEMMA NoPlacementIsNone == NoRect \notin Placement
    BY DEF Placement, NoRect

LEMMA RectIsPlacement == Rect \subseteq Placement
<1>1. ASSUME NEW a \in Rect PROVE a \in Placement
  <2>1. a.row \in Nat
    BY Grid DEF Rect
  <2>2. 0 .. GridColumns - 1 \subseteq Nat
    BY Grid
  <2> QED
    BY <2>1, <2>2 DEF Rect, Placement
<1> QED
  BY <1>1

\* The page's four comparisons say exactly that two placements share a grid cell
\* (BoardView.svelte and widget-placement.ts, rectanglesOverlap and overlaps).
LEMMA OverlapIsShared ==
    ASSUME NEW a \in Placement, NEW b \in Placement, ~RectanglesOverlap(a, b)
    PROVE  Disjoint(a, b)
<1> USE PlacementType
<1>1. SUFFICES ASSUME ~Disjoint(a, b) PROVE RectanglesOverlap(a, b)
  OBVIOUS
<1>2. PICK c \in Cells(a) : c \in Cells(b)
  BY <1>1 DEF Disjoint
<1>3. PICK x \in a.col .. a.col + a.width - 1, y \in a.row .. a.row + a.height - 1 :
          c = <<x, y>>
  BY <1>2 DEF Cells
<1>4. x \in b.col .. b.col + b.width - 1 /\ y \in b.row .. b.row + b.height - 1
  BY <1>2, <1>3 DEF Cells
<1> QED
  BY <1>3, <1>4 DEF RectanglesOverlap


-----------------------------------------------------------------------------
(* The inductive invariants *)

\* A drag's body has no span, and what it carries keeps the span there was.
KeepsSpan(save) ==
    save.span \/ (save.to.width = save.from.width /\ save.to.height = save.from.height)

Waiting(w) == {save \in Save : save.widget = w /\ KeepsSpan(save)}

Sent == [status : {"sent", "accepted", "refused", "unheard"}, save : {a \in Save : KeepsSpan(a)}]

Dragging == [mode : {"drag"}, widget : Widgets]
Resizing == [mode : {"resize"}, widget : Widgets, handle : Handles, origin : Placement]

LayoutTyped == board \in BOOLEAN /\ rect \in [Widgets -> Placement \union {NoRect}]

\* Each part of the page has its type, and a captured pointer's widget is on the
\* screen.
ScreenTyped ==
    /\ loaded \in [Widgets -> Placement \union {NoRect}]
    /\ local \in [Widgets -> Placement \union {NoRect}]
    /\ gesture = NoGesture \/ gesture \in Dragging \/ gesture \in Resizing
    /\ held \in SUBSET Widgets /\ Cardinality(held) <= Fingers
    /\ held \subseteq OnScreen

SavesTyped ==
    /\ pending \in [Widgets -> Save \union {NoSave}]
    /\ \A w \in Widgets : pending[w] # NoSave => pending[w] \in Waiting(w)
    /\ flight \in [Slots -> Sent \union {Free}]

Typed == LayoutTyped /\ ScreenTyped /\ SavesTyped /\ others \in Nat

\* The steps to the next tick and the age add up to less than two intervals.
ClockInv ==
    /\ timer \in 0 .. Interval /\ age \in 0 .. MaxAge
    /\ visible => timer # Off
    /\ visible /\ ~passedOver => age + timer < 2 * Interval

\* A save of w is on its way, or its answer is.
OutFor(s, w) == flight[s] # Free /\ flight[s].save.widget = w

\* Of a widget left alone until its save is answered: no more than one save is
\* about, none while a pointer is down on it, and one that waits is what shows.
Alone(w) ==
    /\ w \in held => ~Unsettled(w)
    /\ pending[w] # NoSave => \A s \in Slots : ~OutFor(s, w)
    /\ \A s, t \in Slots : OutFor(s, w) /\ OutFor(t, w) => s = t
    /\ pending[w] # NoSave => local[w] = pending[w].to

OneSave == \A w \in Widgets : Alone(w)

\* Where nobody else writes, a save finds the server as it was when the widget
\* was dropped, and a widget without an override is where it was loaded.
InStep(w) ==
    /\ local[w] = NoRect => loaded[w] = rect[w] /\ ~Unsettled(w)
    /\ w \in On /\ ~Unsettled(w) /\ local[w] # NoRect => local[w] = rect[w]
    /\ w \in On /\ pending[w] # NoSave => rect[w] = pending[w].from
    /\ \A s \in Slots : w \in On /\ OutFor(s, w) =>
          /\ local[w] = flight[s].save.to
          /\ flight[s].status = "accepted" => rect[w] = flight[s].save.to
          /\ flight[s].status # "accepted" => rect[w] = flight[s].save.from

NobodyElse ==
    others = 0 =>
        /\ \A w \in Widgets : InStep(w)
        /\ \A s \in Slots : flight[s].status # "unheard"

SaveInv == Typed /\ OneSave /\ NobodyElse


-----------------------------------------------------------------------------
(* Where a pointer takes a widget *)

LEMMA ClampSpanIs ==
    ASSUME NEW v \in Int, NEW most \in Int
    PROVE  /\ ClampSpan(v, most) \in 1 .. MaxSpan
           /\ most >= 1 => ClampSpan(v, most) <= most
    BY Grid DEF ClampSpan, Clamp

\* One axis of a resize stays on the grid's near side and within the span, and
\* the edge that is not held stays where it is.
LEMMA ResizeAxisIs ==
    ASSUME NEW shape \in Shape, NEW at \in Nat, NEW span \in 1 .. MaxSpan,
           NEW pointer \in Int, NEW room \in Int
    PROVE  /\ ResizeAxis(shape, at, span, pointer, room).at \in Nat
           /\ ResizeAxis(shape, at, span, pointer, room).span \in 1 .. MaxSpan
           /\ shape = "end" =>
                 ResizeAxis(shape, at, span, pointer, room).at
                   + ResizeAxis(shape, at, span, pointer, room).span = at + span
           /\ shape # "end" => ResizeAxis(shape, at, span, pointer, room).at = at
<1> DEFINE grown == ClampSpan(at + span - pointer, at + span)
           start == ClampSpan(pointer - at + 1, room)
<1>1. grown \in 1 .. MaxSpan /\ grown <= at + span
  <2>1. span \in Int /\ at + span - pointer \in Int /\ at + span \in Int /\ at + span >= 1
    BY Grid
  <2> QED
    BY <2>1, ClampSpanIs
<1>2. start \in 1 .. MaxSpan
  <2>1. pointer - at + 1 \in Int
    OBVIOUS
  <2> QED
    BY <2>1, ClampSpanIs
<1>3. CASE shape = "none"
  BY <1>3 DEF ResizeAxis
<1>4. CASE shape = "start"
  <2>1. ResizeAxis(shape, at, span, pointer, room) = [at |-> at, span |-> start]
    BY <1>4 DEF ResizeAxis
  <2> HIDE DEF start
  <2> QED
    BY <1>2, <1>4, <2>1
<1>5. CASE shape = "end"
  <2>1. ResizeAxis(shape, at, span, pointer, room) = [at |-> at + span - grown, span |-> grown]
    BY <1>5 DEF ResizeAxis
  <2> HIDE DEF grown
  <2>2. grown \in Int /\ span \in Int
    BY <1>1, Grid
  <2> QED
    BY <1>1, <1>5, <2>1, <2>2, Grid
<1> QED
  BY <1>3, <1>4, <1>5 DEF Shape

LEMMA PointerType ==
    ASSUME NEW p \in Pointers PROVE p.col \in Int /\ p.row \in Int
<1>1. p.col \in -1 .. GridColumns /\ p.row \in {-1} \union GridRows
  BY DEF Pointers
<1>2. p.row = -1 \/ p.row \in Nat
  BY <1>1, Grid
<1> QED
  BY <1>1, <1>2, Grid

\* A resize yields a placement with the edges that are not held where they were.
LEMMA ResizeIs ==
    ASSUME NEW g \in Resizing, NEW p \in Pointers
    PROVE  /\ ResizeTo(g, p) \in Placement
           /\ g.handle.col = "end" =>
                 ResizeTo(g, p).col + ResizeTo(g, p).width = g.origin.col + g.origin.width
           /\ g.handle.col # "end" => ResizeTo(g, p).col = g.origin.col
           /\ g.handle.row = "end" =>
                 ResizeTo(g, p).row + ResizeTo(g, p).height = g.origin.row + g.origin.height
           /\ g.handle.row # "end" => ResizeTo(g, p).row = g.origin.row
<1>1. g.handle.col \in Shape /\ g.handle.row \in Shape
  BY DEF Resizing, Handles
<1>2. g.origin \in Placement
  BY DEF Resizing
<1>3. /\ g.origin.col \in Nat /\ g.origin.row \in Nat
      /\ g.origin.width \in 1 .. MaxSpan /\ g.origin.height \in 1 .. MaxSpan
  BY <1>2 DEF Placement
<1>4. p.col \in Int /\ p.row \in Int /\ GridColumns - g.origin.col \in Int /\ MaxSpan \in Int
  BY <1>3, PointerType, Grid
<1> DEFINE col == ResizeAxis(g.handle.col, g.origin.col, g.origin.width, p.col,
                             GridColumns - g.origin.col)
           row == ResizeAxis(g.handle.row, g.origin.row, g.origin.height, p.row, MaxSpan)
<1>5. /\ col.at \in Nat /\ col.span \in 1 .. MaxSpan
      /\ g.handle.col = "end" => col.at + col.span = g.origin.col + g.origin.width
      /\ g.handle.col # "end" => col.at = g.origin.col
  BY <1>1, <1>3, <1>4, ResizeAxisIs
<1>6. /\ row.at \in Nat /\ row.span \in 1 .. MaxSpan
      /\ g.handle.row = "end" => row.at + row.span = g.origin.row + g.origin.height
      /\ g.handle.row # "end" => row.at = g.origin.row
  BY <1>1, <1>3, <1>4, ResizeAxisIs
<1>7. ResizeTo(g, p) = [col |-> col.at, row |-> row.at, width |-> col.span, height |-> row.span]
  BY DEF ResizeTo
<1> HIDE DEF col, row
<1> QED
  BY <1>5, <1>6, <1>7 DEF Placement

\* A drag moves the placement and keeps its span.
LEMMA DragIs ==
    ASSUME NEW a \in Placement, NEW p \in Pointers
    PROVE  /\ DragTo(a, p) \in Placement
           /\ DragTo(a, p).width = a.width /\ DragTo(a, p).height = a.height
<1> DEFINE col == Clamp(0, GridColumns - 1, p.col)
           row == IF p.row < 0 THEN 0 ELSE p.row
<1>1. col \in Nat /\ row \in Nat
  BY PointerType, Grid DEF Clamp
<1>2. DragTo(a, p) = [a EXCEPT !.col = col, !.row = row]
  BY DEF DragTo
<1> HIDE DEF col, row
<1> QED
  BY <1>1, <1>2 DEF Placement

LEMMA MergedIs ==
    ASSUME NEW a \in Placement, NEW b \in Placement, NEW sends
    PROVE  Merged(a, sends, b) \in Placement
    BY DEF Placement, Merged

\* What a save sends, put over the row it was made from, is where it wants to go.
LEMMA MergedIsWanted ==
    ASSUME NEW save \in Save, KeepsSpan(save)
    PROVE  Merged(save.from, Body(save), save.to) = save.to
<1>1. save.to \in Placement /\ save.from \in Placement
  BY DEF Save
<1>2. CASE save.span
  BY <1>1, <1>2, PlacementType DEF Merged, Body
<1>3. CASE ~save.span
  BY <1>1, <1>3, PlacementType DEF Merged, Body, KeepsSpan
<1> QED
  BY <1>2, <1>3


-----------------------------------------------------------------------------
(* Loads, and the slot of the next widget *)

LEMMA HeldIsFinite ==
    ASSUME Typed, NEW S \in SUBSET held
    PROVE  IsFiniteSet(held) /\ IsFiniteSet(S) /\ Cardinality(S) <= Fingers
<1>1. IsFiniteSet(held)
  BY ViewAssumption, FS_Subset DEF Typed, ScreenTyped
<1>2. IsFiniteSet(S) /\ Cardinality(S) <= Cardinality(held)
  BY <1>1, FS_Subset
<1>3. Cardinality(S) \in Nat /\ Cardinality(held) \in Nat
  BY <1>1, <1>2, FS_CardinalityType
<1> QED
  BY <1>1, <1>2, <1>3, ViewAssumption DEF Typed, ScreenTyped

LEMMA ScreenType ==
    ASSUME Typed, NEW w \in Widgets
    PROVE  /\ w \in OnScreen => CurrentPlacement(w) \in Placement
           /\ w \in OnScreen => loaded[w] \in Placement
           /\ w \in On => rect[w] \in Placement
           /\ CurrentPlacement(w) \in Placement \union {NoRect}
    BY DEF Typed, LayoutTyped, ScreenTyped, OnScreen, On, CurrentPlacement

LEMMA LowestEdgeIs ==
    ASSUME Typed
    PROVE  /\ LowestEdge \in Nat
           /\ \A w \in Widgets : loaded[w].row + loaded[w].height <= LowestEdge
<1> DEFINE edge == [w \in Widgets |-> loaded[w].row + loaded[w].height]
           Edges == {0} \union {loaded[w].row + loaded[w].height : w \in Widgets}
           Lowest(n) == \A w \in Widgets : loaded[w].row + loaded[w].height <= n
<1>1. \A w \in Widgets : loaded[w].row + loaded[w].height \in Nat
  <2>1. TAKE w \in Widgets
  <2>2. CASE loaded[w] = NoRect
    BY <2>2 DEF NoRect
  <2>3. CASE loaded[w] \in Placement
    BY <2>3, PlacementType
  <2> QED
    BY <2>2, <2>3 DEF Typed, ScreenTyped
<1>2. \E n \in Edges : Lowest(n)
  <2>1. CASE Widgets = {}
    BY <2>1
  <2>2. CASE Widgets # {}
    <3>1. edge \in [Widgets -> Int]
      BY <1>1
    <3>2. PICK x \in Widgets : \A y \in Widgets : edge[y] <= edge[x]
      <4> HIDE DEF edge
      <4> QED
        BY <2>2, <3>1, ViewAssumption, FiniteHasGreatest
    <3>3. Lowest(edge[x]) /\ edge[x] \in Edges
      BY <3>2
    <3> QED
      BY <3>3
  <2> QED
    BY <2>1, <2>2
<1>3. LowestEdge \in Edges /\ Lowest(LowestEdge)
  <2> HIDE DEF Edges, Lowest
  <2>1. LowestEdge = CHOOSE n \in Edges : Lowest(n)
    BY DEF LowestEdge, Edges, Lowest
  <2> QED
    BY <1>2, <2>1
<1> QED
  BY <1>1, <1>3

\* The rows down to the lowest edge hold a slot: the last of them is empty.
LEMMA ASlotIsFree ==
    ASSUME Typed PROVE FreeSlots # {}
<1> DEFINE below == [col |-> 0, row |-> LowestEdge, width |-> NewSpan, height |-> NewSpan]
<1>1. below \in [col : 0 .. GridColumns - NewSpan, row : RowsToEdge,
                 width : {NewSpan}, height : {NewSpan}]
  BY LowestEdgeIs, Grid DEF RowsToEdge
<1>2. ASSUME NEW w \in OnScreen PROVE ~RectanglesOverlap(below, loaded[w])
  <2>1. w \in Widgets /\ loaded[w] \in Placement
    BY <1>2, ScreenType DEF OnScreen
  <2>2. loaded[w].row + loaded[w].height <= LowestEdge
    BY <2>1, LowestEdgeIs
  <2>3. loaded[w].row + loaded[w].height \in Int
    BY <2>1, PlacementType
  <2> QED
    BY <2>2, <2>3, LowestEdgeIs DEF RectanglesOverlap
<1>3. below \in FreeSlots
  BY <1>1, <1>2 DEF FreeSlots
<1> QED
  BY <1>3

LEMMA FreeSlotType ==
    ASSUME Typed, NEW a \in FreeSlots
    PROVE  /\ a \in Placement
           /\ a.row \in 0 .. LowestEdge /\ a.col \in 0 .. GridColumns
           /\ Fits(a)
           /\ \A w \in OnScreen : ~RectanglesOverlap(a, loaded[w])
<1>1. /\ a \in [col : 0 .. GridColumns - NewSpan, row : RowsToEdge,
                width : {NewSpan}, height : {NewSpan}]
      /\ \A w \in OnScreen : ~RectanglesOverlap(a, loaded[w])
  BY DEF FreeSlots
<1>2. a.col \in 0 .. GridColumns - NewSpan /\ a.row \in 0 .. LowestEdge
  BY <1>1 DEF RowsToEdge
<1>3. a.width = NewSpan /\ a.height = NewSpan
  BY <1>1
<1>4. a.col \in Nat /\ a.row \in Nat
  BY <1>2, LowestEdgeIs, Grid
<1>5. a \in Placement
  BY <1>1, <1>3, <1>4, Grid DEF Placement
<1> QED
  BY <1>1, <1>2, <1>3, <1>5, Grid DEF Fits

\* The slot that is offered is a free one.
LEMMA FindFreeSlotIsFree ==
    ASSUME Typed PROVE FindFreeSlot \in FreeSlots
<1> DEFINE Rows == {k \in 0 .. LowestEdge : \E a \in FreeSlots : a.row = k}
<1>1. PICK row \in Rows : \A k \in Rows : row <= k
  <2>1. Rows # {}
    BY ASlotIsFree, FreeSlotType
  <2> HIDE DEF Rows
  <2>2. Rows \in SUBSET (0 .. LowestEdge)
    BY DEF Rows
  <2> QED
    BY <2>1, <2>2, LowestEdgeIs, SomeHaveLeast
<1> DEFINE Cols == {k \in 0 .. GridColumns : \E a \in FreeSlots : a.row = row /\ a.col = k}
<1>2. PICK col \in Cols : \A k \in Cols : col <= k
  <2>1. Cols # {}
    BY <1>1, FreeSlotType
  <2> HIDE DEF Cols
  <2>2. Cols \in SUBSET (0 .. GridColumns)
    BY DEF Cols
  <2> QED
    BY <2>1, <2>2, Grid, SomeHaveLeast
<1>3. PICK a \in FreeSlots : a.row = row /\ a.col = col
  BY <1>2
<1>4. ASSUME NEW b \in FreeSlots
      PROVE  a.row < b.row \/ (a.row = b.row /\ a.col <= b.col)
  <2>1. b.row \in Rows /\ b.row \in Int /\ a.row \in Int /\ a.row <= b.row
    BY <1>1, <1>3, FreeSlotType
  <2>2. CASE b.row = a.row
    <3>1. b.col \in Cols
      BY <1>3, <2>2, FreeSlotType
    <3> QED
      BY <1>2, <1>3, <2>2, <3>1
  <2> QED
    BY <2>1, <2>2
<1> HIDE DEF Rows, Cols
<1> QED
  BY <1>3, <1>4 DEF FindFreeSlot


-----------------------------------------------------------------------------
(* What each step does, with the types it keeps *)

\* A drop leaves everything alone, or places the widget clear of its siblings
\* and has that saved.
LEMMA DropIs ==
    ASSUME Typed, NEW w \in OnScreen, NEW p \in Pointers, gesture # NoGesture, Drop(w, p)
    PROVE  /\ gesture' = NoGesture
           /\ UNCHANGED <<board, rect, loaded, flight, others>>
           /\ \/ UNCHANGED <<local, pending>>
              \/ \E save \in Waiting(w) :
                    /\ save.from = CurrentPlacement(w)
                    /\ ~OverlapsAnySibling(w, save.to)
                    /\ local' = [local EXCEPT ![w] = save.to]
                    /\ pending' = [pending EXCEPT ![w] = save]
<1> DEFINE save == IF gesture.mode = "drag" THEN DragSave(w, p) ELSE ResizeSave(w, p)
<1>1. w \in Widgets /\ CurrentPlacement(w) \in Placement
  BY ScreenType DEF OnScreen
<1>2. save \in Waiting(w) /\ save.from = CurrentPlacement(w)
  <2>1. CASE gesture \in Dragging
    <3>1. save = DragSave(w, p)
      BY <2>1 DEF Dragging
    <3> DEFINE to == DragTo(CurrentPlacement(w), p)
    <3>2. /\ to \in Placement /\ to.width = CurrentPlacement(w).width
          /\ to.height = CurrentPlacement(w).height
      BY <1>1, DragIs
    <3>3. save = [widget |-> w, to |-> to, from |-> CurrentPlacement(w), span |-> FALSE]
      BY <3>1 DEF DragSave
    <3> HIDE DEF to, save
    <3> QED
      BY <1>1, <3>2, <3>3 DEF Waiting, Save, KeepsSpan
  <2>2. CASE gesture \in Resizing
    <3>1. save = ResizeSave(w, p)
      BY <2>2 DEF Resizing
    <3> DEFINE to == ResizeTo(gesture, p)
    <3>2. to \in Placement
      BY <2>2, ResizeIs
    <3>3. save = [widget |-> w, to |-> to, from |-> CurrentPlacement(w), span |-> TRUE]
      BY <3>1 DEF ResizeSave
    <3> HIDE DEF to, save
    <3> QED
      BY <1>1, <3>2, <3>3 DEF Waiting, Save, KeepsSpan
  <2> QED
    BY <2>1, <2>2 DEF Typed, ScreenTyped
<1>3. /\ gesture' = NoGesture
      /\ UNCHANGED <<board, rect, loaded, flight, others>>
      /\ IF OverlapsAnySibling(w, save.to)
           THEN UNCHANGED <<local, pending>>
           ELSE /\ local' = [local EXCEPT ![w] = save.to]
                /\ pending' = [pending EXCEPT ![w] = save]
  BY DEF Drop, Scheduled
<1> HIDE DEF save
<1> QED
  BY <1>2, <1>3

\* The part of a drop that types the page.
LEMMA DropTyped ==
    ASSUME Typed, NEW w \in OnScreen, NEW p \in Pointers, gesture # NoGesture, Drop(w, p),
           held' \in SUBSET held
    PROVE  Typed'
<1>1. UNCHANGED <<board, rect, loaded, flight, others>> /\ gesture' = NoGesture
  BY DropIs
<1>2. held' \in SUBSET Widgets /\ Cardinality(held') <= Fingers /\ held' \subseteq OnScreen'
  BY <1>1, HeldIsFinite DEF Typed, ScreenTyped, OnScreen
<1>3. CASE UNCHANGED <<local, pending>>
  BY <1>1, <1>2, <1>3 DEF Typed, LayoutTyped, ScreenTyped, SavesTyped
<1>4. ASSUME NEW save \in Waiting(w),
             local' = [local EXCEPT ![w] = save.to], pending' = [pending EXCEPT ![w] = save]
      PROVE  Typed'
  <2>1. save \in Save /\ save.to \in Placement /\ w \in Widgets
    BY DEF Waiting, Save, OnScreen
  <2>2. local' \in [Widgets -> Placement \union {NoRect}]
    BY <1>4, <2>1 DEF Typed, ScreenTyped
  <2>3. /\ pending' \in [Widgets -> Save \union {NoSave}]
        /\ \A u \in Widgets : pending'[u] # NoSave => pending'[u] \in Waiting(u)
    BY <1>4, <2>1 DEF Typed, SavesTyped
  <2> QED
    BY <1>1, <1>2, <2>2, <2>3 DEF Typed, LayoutTyped, ScreenTyped, SavesTyped
<1> QED
  BY <1>3, <1>4, DropIs

\* The server's writes leave a layout of placements.
LEMMA WritesTyped ==
    ASSUME LayoutTyped, NEW w \in Widgets
    PROVE  /\ \A a \in Placement : Create(w, a) \/ Place(w, a) => LayoutTyped'
           /\ Remove(w) => LayoutTyped'
    BY DEF LayoutTyped, Create, Place, Remove

LEMMA ReloadTyped ==
    ASSUME Typed, NEW now \in [Widgets -> Placement \union {NoRect}], Reloaded(now)
    PROVE  ScreenTyped' /\ SavesTyped'
<1>1. held' \in SUBSET held
  BY DEF Reloaded
<1>2. held' \in SUBSET Widgets /\ Cardinality(held') <= Fingers
  BY <1>1, HeldIsFinite DEF Typed, ScreenTyped
<1>3. held' \subseteq OnScreen'
  BY <1>2 DEF Reloaded, OnScreen
<1> QED
  BY <1>2, <1>3 DEF Typed, ScreenTyped, SavesTyped, Reloaded

\* What the server makes of a save, heard of or not.
LEMMA SaveIs ==
    ASSUME Typed, NEW s \in Slots, flight[s] # Free
    PROVE  /\ flight[s] \in Sent
           /\ flight[s].save \in Save /\ KeepsSpan(flight[s].save)
           /\ flight[s].save.widget \in Widgets
           /\ flight[s].save.to \in Placement /\ flight[s].save.from \in Placement
<1>1. flight[s] \in Sent
  BY DEF Typed, SavesTyped
<1>2. flight[s].save \in Save /\ KeepsSpan(flight[s].save)
  BY <1>1 DEF Sent
<1> QED
  BY <1>1, <1>2 DEF Save

LEMMA ServedTyped ==
    ASSUME Typed, NEW s \in Slots, flight[s] # Free,
           NEW to, to = Merged(rect[flight[s].save.widget], Body(flight[s].save), flight[s].save.to),
           Place(flight[s].save.widget, to)
    PROVE  LayoutTyped'
<1>1. flight[s].save.widget \in Widgets /\ flight[s].save.to \in Placement
  BY SaveIs
<1>2. rect[flight[s].save.widget] \in Placement
  BY <1>1, ScreenType DEF Place, CanPlace
<1>3. to \in Placement
  BY <1>1, <1>2, MergedIs
<1> QED
  BY <1>1, <1>3, WritesTyped DEF Typed


-----------------------------------------------------------------------------
(* Types, and the reach of a placement *)

LEMMA InitTyped == PageInit => Typed
<1>1. SUFFICES ASSUME PageInit PROVE Typed
  OBVIOUS
<1>2. Start \in [Widgets -> Placement \union {NoRect}]
  BY ViewAssumption, RectIsPlacement
<1>3. Cardinality({}) <= Fingers
  BY ViewAssumption, FS_EmptySet
<1>4. rect = Start /\ loaded = Start /\ board \in BOOLEAN /\ others = 0
  BY <1>1 DEF PageInit, Init
<1>5. LayoutTyped
  BY <1>2, <1>4 DEF LayoutTyped
<1>6. ScreenTyped
  BY <1>1, <1>2, <1>3, <1>4 DEF PageInit, Init, ScreenTyped
<1>7. SavesTyped
  BY <1>1 DEF PageInit, Init, SavesTyped
<1> QED
  BY <1>4, <1>5, <1>6, <1>7 DEF Typed

LEMMA ViewStepTyped ==
    ASSUME Typed, ViewStep PROVE Typed'
<1> USE DEF Typed
<1>1. ASSUME NEW w \in Widgets, Press(w) PROVE Typed'
  <2>1. w \in OnScreen /\ CurrentPlacement(w) \in Placement
    BY <1>1, ScreenType DEF Press, MayPress
  <2>2. gesture' \in Dragging \/ gesture' \in Resizing
    <3>1. ASSUME StartDrag(w) PROVE gesture' \in Dragging
      BY <3>1 DEF StartDrag, Dragging
    <3>2. ASSUME StartResize(w) PROVE gesture' \in Resizing
      BY <2>1, <3>2 DEF StartResize, Resizing
    <3> QED
      BY <1>1, <3>1, <3>2 DEF Press
  <2>3. /\ held' = held \union {w} /\ Cardinality(held) < Fingers /\ w \notin held
        /\ UNCHANGED <<board, rect, loaded, local, pending, flight, drops, others>>
    BY <1>1 DEF Press, MayPress
  <2>4. Cardinality(held') <= Fingers
    <3>1. IsFiniteSet(held)
      BY HeldIsFinite
    <3>2. Cardinality(held') = Cardinality(held) + 1
      BY <2>3, <3>1, FS_AddElement
    <3>3. Cardinality(held) \in Nat
      BY <3>1, FS_CardinalityType
    <3> QED
      BY <2>3, <3>2, <3>3, ViewAssumption
  <2>5. held' \in SUBSET Widgets /\ held' \subseteq OnScreen'
    BY <2>1, <2>3 DEF ScreenTyped, OnScreen
  <2> QED
    BY <2>2, <2>3, <2>4, <2>5 DEF LayoutTyped, ScreenTyped, SavesTyped
<1>2. ASSUME NEW w \in Widgets, Release(w) PROVE Typed'
  <2>1. w \in OnScreen /\ held' \in SUBSET held
    BY <1>2 DEF Release, ScreenTyped
  <2>2. CASE gesture = NoGesture
    <3>1. UNCHANGED <<board, rect, loaded, local, gesture, pending, flight, drops, others>>
      BY <1>2, <2>2 DEF Release
    <3>2. held' \in SUBSET Widgets /\ Cardinality(held') <= Fingers /\ held' \subseteq OnScreen'
      BY <2>1, <3>1, HeldIsFinite DEF ScreenTyped, OnScreen
    <3> QED
      BY <3>1, <3>2 DEF LayoutTyped, ScreenTyped, SavesTyped
  <2>3. CASE gesture # NoGesture
    <3>1. PICK p \in Pointers : Drop(w, p)
      BY <1>2, <2>3 DEF Release
    <3> QED
      BY <2>1, <2>3, <3>1, DropTyped
  <2> QED
    BY <2>2, <2>3
<1>3. ASSUME NEW w \in Widgets, MenuTap(w) PROVE Typed'
  <2>1. PICK p \in Pointers : Drop(w, p)
    BY <1>3 DEF MenuTap
  <2>2. w \in OnScreen /\ held' \in SUBSET held /\ gesture # NoGesture
    BY <1>3 DEF MenuTap, MayPress
  <2> QED
    BY <2>1, <2>2, DropTyped
<1>4. ASSUME NEW w \in Widgets, TimerFires(w) PROVE Typed'
  <2>1. PICK s \in Slots : flight' = [flight EXCEPT ![s] = [status |-> "sent", save |-> pending[w]]]
    BY <1>4 DEF TimerFires
  <2>2. pending[w] \in Waiting(w)
    BY <1>4 DEF TimerFires, SavesTyped
  <2>3. [status |-> "sent", save |-> pending[w]] \in Sent
    BY <2>2 DEF Sent, Waiting
  <2>4. flight' \in [Slots -> Sent \union {Free}]
    BY <2>1, <2>3 DEF SavesTyped
  <2>5. /\ pending' = [pending EXCEPT ![w] = NoSave]
        /\ UNCHANGED <<board, rect, loaded, local, gesture, held, drops, others>>
    BY <1>4 DEF TimerFires
  <2>6. SavesTyped'
    BY <2>4, <2>5 DEF SavesTyped
  <2> QED
    BY <2>5, <2>6 DEF LayoutTyped, ScreenTyped, OnScreen
<1>5. ASSUME NEW s \in Slots, Serve(s) PROVE Typed'
  <2>1. flight[s] # Free
    BY <1>5 DEF Serve, Free
  <2>2. UNCHANGED <<loaded, local, gesture, held, pending, drops, others>>
    BY <1>5 DEF Serve
  <2>3. flight[s] \in Sent
    BY <2>1, SaveIs
  <2>4. PICK word \in {"accepted", "refused"} : flight' = [flight EXCEPT ![s].status = word]
    BY <1>5 DEF Serve
  <2>5. [flight[s] EXCEPT !.status = word] \in Sent
    BY <2>3 DEF Sent
  <2>6. SavesTyped'
    BY <2>2, <2>4, <2>5 DEF SavesTyped
  <2>7. LayoutTyped'
    <3>1. \/ UNCHANGED <<board, rect>>
          \/ Place(flight[s].save.widget,
                   Merged(rect[flight[s].save.widget], Body(flight[s].save), flight[s].save.to))
      BY <1>5 DEF Serve, layout
    <3> QED
      BY <2>1, <3>1, ServedTyped DEF LayoutTyped
  <2> QED
    BY <2>2, <2>6, <2>7 DEF ScreenTyped, OnScreen
<1>6. ASSUME NEW s \in Slots, Answer(s) PROVE Typed'
  <2>1. flight[s] # Free
    BY <1>6 DEF Answer, Free
  <2>2. flight[s].save.from \in Placement
    BY <2>1, SaveIs
  <2>3. /\ local' = local \/ local' = [local EXCEPT ![flight[s].save.widget] = flight[s].save.from]
        /\ flight' = [flight EXCEPT ![s] = Free]
        /\ UNCHANGED <<board, rect, loaded, gesture, held, pending, drops, others>>
    BY <1>6 DEF Answer, RolledBack
  <2>4. local' \in [Widgets -> Placement \union {NoRect}]
    BY <2>2, <2>3 DEF ScreenTyped
  <2> QED
    BY <2>3, <2>4 DEF LayoutTyped, ScreenTyped, SavesTyped, OnScreen
<1>7. ASSUME NEW s \in Slots, ServeUnheard(s) PROVE Typed'
  <2>1. flight[s] # Free
    BY <1>7 DEF ServeUnheard, Free
  <2>2. /\ flight' = [flight EXCEPT ![s] = Free]
        /\ UNCHANGED <<loaded, local, gesture, held, pending, drops, others>>
    BY <1>7 DEF ServeUnheard
  <2>3. LayoutTyped'
    <3>1. \/ UNCHANGED <<board, rect>>
          \/ Place(flight[s].save.widget,
                   Merged(rect[flight[s].save.widget], Body(flight[s].save), flight[s].save.to))
      BY <1>7 DEF ServeUnheard, layout
    <3> QED
      BY <2>1, <3>1, ServedTyped DEF LayoutTyped
  <2> QED
    BY <2>2, <2>3 DEF ScreenTyped, SavesTyped, OnScreen
<1>8. ASSUME Leave PROVE Typed'
  <2>1. /\ gesture' = NoGesture /\ held' = {}
        /\ local' = [w \in Widgets |-> NoRect] /\ loaded' = rect
        /\ pending' = [w \in Widgets |-> NoSave]
        /\ others' = others + 1 /\ UNCHANGED <<board, rect>>
    BY <1>8 DEF Leave, TimersCleared, layout
  <2>2. ScreenTyped'
    BY <2>1, ViewAssumption, FS_EmptySet DEF ScreenTyped, LayoutTyped
  <2>3. flight' \in [Slots -> Sent \union {Free}]
    <3>1. ASSUME NEW s \in Slots, flight[s].status \in {"sent", "unheard"}
          PROVE  [flight[s] EXCEPT !.status = "unheard"] \in Sent
      <4>1. flight[s] \in Sent
        BY <3>1 DEF SavesTyped, Free
      <4> QED
        BY <4>1 DEF Sent
    <3>2. flight' = [s \in Slots |-> IF flight[s].status \in {"sent", "unheard"}
                                     THEN [flight[s] EXCEPT !.status = "unheard"] ELSE Free]
      BY <1>8 DEF Leave
    <3> QED
      BY <3>1, <3>2
  <2>4. SavesTyped'
    BY <2>1, <2>3 DEF SavesTyped
  <2> QED
    BY <2>1, <2>2, <2>4 DEF LayoutTyped
<1>9. ASSUME OtherTab PROVE Typed'
  <2>1. PICK w \in Widgets : Remove(w) \/ \E a \in Rect : Place(w, a)
    BY <1>9 DEF OtherTab
  <2>2. LayoutTyped'
    BY <2>1, RectIsPlacement, WritesTyped
  <2>3. UNCHANGED <<loaded, local, gesture, held, pending, flight>> /\ others' = others + 1
    BY <1>9 DEF OtherTab, view
  <2> QED
    BY <2>2, <2>3 DEF ScreenTyped, SavesTyped, OnScreen
<1> HIDE DEF Typed
<1> QED
  BY <1>1, <1>2, <1>3, <1>4, <1>5, <1>6, <1>7, <1>8, <1>9 DEF ViewStep

LEMMA NextTyped ==
    ASSUME Typed, [Next]_vars PROVE Typed'
<1>1. CASE ViewStep
  BY <1>1, ViewStepTyped
<1>2. ASSUME NEW w \in Widgets, AddWidget(w) PROVE Typed'
  <2>1. FindFreeSlot \in Placement
    BY FindFreeSlotIsFree, FreeSlotType
  <2>2. LayoutTyped'
    BY <1>2, <2>1, WritesTyped DEF AddWidget, Typed
  <2>3. Reloaded(rect') /\ others' = others
    BY <1>2 DEF AddWidget
  <2>4. ScreenTyped' /\ SavesTyped'
    BY <2>2, <2>3, ReloadTyped DEF LayoutTyped
  <2> QED
    BY <2>2, <2>3, <2>4 DEF Typed
<1>3. ASSUME NEW w \in Widgets, DeleteWidget(w) PROVE Typed'
  <2>1. Remove(w) \/ UNCHANGED <<board, rect>>
    BY <1>3 DEF DeleteWidget, layout
  <2>2. LayoutTyped'
    BY <2>1, WritesTyped DEF Typed, LayoutTyped
  <2>3. Reloaded(rect') /\ others' = others
    BY <1>3 DEF DeleteWidget
  <2>4. ScreenTyped' /\ SavesTyped'
    BY <2>2, <2>3, ReloadTyped DEF LayoutTyped
  <2> QED
    BY <2>2, <2>3, <2>4 DEF Typed
<1>4. ASSUME Reloaded(rect), UNCHANGED <<board, rect, others>> PROVE Typed'
  <2>1. ScreenTyped' /\ SavesTyped'
    BY <1>4, ReloadTyped DEF Typed, LayoutTyped
  <2> QED
    BY <1>4, <2>1 DEF Typed, LayoutTyped
<1>5. ASSUME UNCHANGED <<board, rect, view, others>> PROVE Typed'
  BY <1>5 DEF Typed, LayoutTyped, ScreenTyped, SavesTyped, OnScreen, view
<1>6. CASE Reload
  BY <1>4, <1>6 DEF Reload, layout
<1>7. CASE TimePasses
  BY <1>4, <1>5, <1>7 DEF TimePasses, TickNow, layout
<1>8. CASE Hide
  BY <1>5, <1>8 DEF Hide, layout
<1>9. CASE ComeBack
  BY <1>4, <1>5, <1>9 DEF ComeBack, TickNow, layout
<1>10. CASE UNCHANGED vars
  BY <1>5, <1>10 DEF vars
<1> QED
  BY <1>1, <1>2, <1>3, <1>6, <1>7, <1>8, <1>9, <1>10 DEF Next


\* Nothing the page shows, has waiting or sends is off the near side of the grid
\* or out of span, and no more pointers are captured than there are fingers.
LEMMA TypedIsTypeOK == Typed => TypeOK
<1>1. SUFFICES ASSUME Typed PROVE TypeOK
  OBVIOUS
<1>2. ASSUME NEW s \in Slots, flight[s] # Free
      PROVE  /\ flight[s].save \in Save
             /\ flight[s].status \in {"sent", "accepted", "refused", "unheard"}
  <2>1. flight[s].save \in Save /\ flight[s] \in Sent
    BY <1>1, <1>2, SaveIs
  <2> QED
    BY <2>1 DEF Sent
<1> QED
  BY <1>1, <1>2 DEF Typed, LayoutTyped, ScreenTyped, SavesTyped, TypeOK, Dragging, Resizing

LEMMA TypedIsHeldEdge == Typed => HeldEdgeOnly
<1>1. SUFFICES ASSUME Typed, gesture.mode = "resize", NEW p \in Pointers
               PROVE  LET g == gesture.origin
                          a == ResizeTo(gesture, p)
                      IN /\ gesture.handle.col = "end" => a.col + a.width = g.col + g.width
                         /\ gesture.handle.col # "end" => a.col = g.col
                         /\ gesture.handle.row = "end" => a.row + a.height = g.row + g.height
                         /\ gesture.handle.row # "end" => a.row = g.row
  BY DEF HeldEdgeOnly
<1>2. gesture \in Resizing
  BY <1>1 DEF Typed, ScreenTyped, NoGesture, Dragging
<1> QED
  BY <1>2, ResizeIs

LEMMA TypedIsNextSlot == Typed => NextSlotIsFree
<1>1. SUFFICES ASSUME Typed PROVE NextSlotIsFree
  OBVIOUS
<1>2. FindFreeSlot \in FreeSlots
  BY <1>1, FindFreeSlotIsFree
<1>3. ASSUME NEW w \in OnScreen PROVE Disjoint(FindFreeSlot, loaded[w])
  <2>1. FindFreeSlot \in Placement /\ ~RectanglesOverlap(FindFreeSlot, loaded[w])
    BY <1>1, <1>2, FreeSlotType
  <2>2. loaded[w] \in Placement
    BY <1>1, ScreenType DEF OnScreen
  <2> QED
    BY <2>1, <2>2, OverlapIsShared
<1> QED
  BY <1>1, <1>2, <1>3, ASlotIsFree, FreeSlotType DEF NextSlotIsFree

LEMMA TypedAlways == Spec => []Typed
<1> QED
  BY InitTyped, NextTyped, PTL DEF Spec

-----------------------------------------------------------------------------
(* Reloads *)

LEMMA NextClock ==
    ASSUME ClockInv, [Next]_vars PROVE ClockInv'
<1>1. ASSUME UNCHANGED clock PROVE ClockInv'
  BY <1>1 DEF clock, ClockInv, Off, MaxAge
<1>2. /\ timer \in 0 .. Interval /\ age \in 0 .. 2 * Interval
      /\ visible => timer # 0
      /\ visible /\ ~passedOver => age + timer < 2 * Interval
  BY DEF ClockInv, Off, MaxAge
<1>3. SUFFICES ASSUME ~UNCHANGED clock
               PROVE  /\ timer' \in 0 .. Interval /\ age' \in 0 .. 2 * Interval
                      /\ visible' => timer' # 0
                      /\ visible' /\ ~passedOver' => age' + timer' < 2 * Interval
  BY <1>1 DEF ClockInv, Off, MaxAge
<1>4. CASE TimePasses
  <2>1. visible' <=> visible
    BY <1>4 DEF TimePasses
  <2>2. Older \in 0 .. 2 * Interval /\ Older <= age + 1
    BY <1>2, Grid DEF Older, MaxAge
  <2>3. CASE timer = 1
    <3>1. timer' = Interval /\ (age' = 0 \/ (age' = Older /\ passedOver'))
      BY <1>4, <2>3 DEF TimePasses, TickNow
    <3>2. /\ timer' \in 0 .. Interval /\ age' \in 0 .. 2 * Interval /\ timer' # 0
          /\ age' = 0 => age' + timer' < 2 * Interval
      <4>1. timer' = Interval /\ (age' = 0 \/ age' = Older)
        BY <3>1
      <4> HIDE <3>1
      <4> QED
        BY <2>2, <4>1, Grid
    <3> QED
      BY <3>1, <3>2
  <2>4. CASE timer # 1
    <3>1. timer' = IF timer = 0 THEN 0 ELSE timer - 1
      BY <1>4, <2>4 DEF TimePasses, Off
    <3>2. age' = Older /\ passedOver' = passedOver
      BY <1>4, <2>4 DEF TimePasses
    <3>3. visible' /\ ~passedOver' => timer # 0 /\ age + timer < 2 * Interval
      BY <1>2, <2>1, <3>2
    <3>4. visible' => timer # 0
      BY <1>2, <2>1
    <3>5. timer' \in 0 .. Interval /\ age' \in 0 .. 2 * Interval
      BY <1>2, <2>2, <2>4, <3>1, <3>2, Grid
    <3>6. timer # 0 => timer' # 0
      BY <1>2, <2>4, <3>1, Grid
    <3>7. timer # 0 /\ age + timer < 2 * Interval => age' + timer' < 2 * Interval
      BY <1>2, <2>2, <2>4, <3>1, <3>2, Grid
    <3> QED
      BY <3>3, <3>4, <3>5, <3>6, <3>7
  <2> QED
    BY <2>3, <2>4
<1>5. CASE Hide
  <2>1. ~visible' /\ timer' = 0 /\ age' = age
    BY <1>5 DEF Hide, Off
  <2> QED
    BY <1>2, <2>1, Grid
<1>6. CASE ComeBack
  <2>1. timer' = Interval
    BY <1>6 DEF ComeBack
  <2>2. age' = 0 \/ (age' = age /\ passedOver') \/ (age' = age /\ ~(age >= Interval))
    BY <1>6 DEF ComeBack, TickNow, MissedOne
  <2> QED
    BY <1>2, <2>1, <2>2, Grid
<1>7. CASE UNCHANGED vars
  BY <1>3, <1>7 DEF vars
<1>8. ASSUME NEW w \in Widgets, AddWidget(w) \/ DeleteWidget(w) PROVE FALSE
  BY <1>3, <1>8 DEF AddWidget, DeleteWidget
<1>9. CASE Reload
  BY <1>3, <1>9 DEF Reload
<1> QED
  BY <1>3, <1>4, <1>5, <1>6, <1>7, <1>8, <1>9 DEF Next

\* A board in front of its reader is never two intervals old, unless a reload was
\* passed over for a gesture (board-auto-refresh.ts): each reload that is due
\* resets the age, and the one on return leaves less than an interval of it.
THEOREM BoardsAreFresh == Spec => []FreshUnlessHeld
<1>1. PageInit => ClockInv
  <2>1. ASSUME PageInit PROVE timer = Interval /\ age = 0
    BY <2>1 DEF PageInit
  <2> QED
    BY <2>1, Grid DEF ClockInv, Off, MaxAge
<1>2. ClockInv => FreshUnlessHeld
  BY Grid DEF ClockInv, FreshUnlessHeld, Off
<1> QED
  BY <1>1, <1>2, NextClock, PTL DEF Spec

-----------------------------------------------------------------------------
(* Drops *)

\* A widget is dropped clear of every sibling as the screen shows it: only a drop
\* schedules a save, and the comparisons it makes are about shared cells.
THEOREM DropsAreClear == Spec => DropIsClear
<1> DEFINE Clear == \A w \in Widgets : pending'[w] \notin {NoSave, pending[w]} =>
                       \A v \in OnScreen \ {w} : Disjoint(local'[w], CurrentPlacement(v))
<1>1. ASSUME Typed, NEW w \in OnScreen, NEW p \in Pointers, gesture # NoGesture, Drop(w, p)
      PROVE  Clear
  <2>1. CASE UNCHANGED pending
    BY <2>1
  <2>2. ASSUME NEW save \in Waiting(w), ~OverlapsAnySibling(w, save.to),
               local' = [local EXCEPT ![w] = save.to], pending' = [pending EXCEPT ![w] = save],
               NEW v \in OnScreen \ {w}
        PROVE  Disjoint(local'[w], CurrentPlacement(v))
    <3>1. save.to \in Placement /\ CurrentPlacement(v) \in Placement
      BY <1>1, ScreenType DEF Waiting, Save, OnScreen
    <3>2. ~RectanglesOverlap(save.to, CurrentPlacement(v))
      BY <2>2 DEF OverlapsAnySibling
    <3>3. local'[w] = save.to
      BY <1>1, <2>2 DEF Typed, ScreenTyped, OnScreen
    <3> QED
      BY <3>1, <3>2, <3>3, OverlapIsShared
  <2>3. ASSUME NEW save \in Waiting(w), pending' = [pending EXCEPT ![w] = save],
               NEW u \in Widgets, u # w
        PROVE  pending'[u] = pending[u]
    BY <1>1, <2>3 DEF Typed, SavesTyped
  <2> QED
    BY <1>1, <2>1, <2>2, <2>3, DropIs
<1>2. ASSUME Typed, \A w \in Widgets : pending'[w] \in {NoSave, pending[w]} PROVE Clear
  BY <1>2
<1>3. ASSUME Typed, [Next]_vars PROVE [Clear]_pending
  <2>1. ASSUME NEW w \in Widgets, Release(w) PROVE Clear \/ UNCHANGED pending
    <3>1. w \in OnScreen
      BY <1>3, <2>1 DEF Release, Typed, ScreenTyped
    <3> QED
      BY <1>1, <1>3, <2>1, <3>1 DEF Release
  <2>2. ASSUME NEW w \in Widgets, MenuTap(w) PROVE Clear
    BY <1>1, <1>3, <2>2 DEF MenuTap, MayPress
  <2>3. ASSUME NEW w \in Widgets, TimerFires(w) PROVE Clear
    BY <1>2, <1>3, <2>3 DEF TimerFires, Typed, SavesTyped
  <2>4. ASSUME Leave PROVE Clear
    BY <1>2, <1>3, <2>4 DEF Leave, TimersCleared
  <2>5. CASE ViewStep
    <3>1. ASSUME NEW w \in Widgets, Press(w) PROVE UNCHANGED pending
      BY <3>1 DEF Press
    <3>2. ASSUME NEW s \in Slots, Serve(s) \/ Answer(s) \/ ServeUnheard(s)
          PROVE  UNCHANGED pending
      BY <3>2 DEF Serve, Answer, ServeUnheard
    <3>3. ASSUME OtherTab PROVE UNCHANGED pending
      BY <3>3 DEF OtherTab, view
    <3> HIDE DEF Clear
    <3> QED
      BY <2>1, <2>2, <2>3, <2>4, <2>5, <3>1, <3>2, <3>3 DEF ViewStep
  <2>6. CASE Next /\ ~ViewStep
    <3>1. UNCHANGED pending
      BY <2>6 DEF Next, AddWidget, DeleteWidget, Reload, TimePasses, Hide, ComeBack,
                  TickNow, Reloaded, view
    <3> QED
      BY <3>1
  <2>7. CASE UNCHANGED vars
    BY <2>7 DEF vars, view
  <2> HIDE DEF Clear
  <2> QED
    BY <1>3, <2>5, <2>6, <2>7
<1> QED
  BY <1>3, TypedAlways, PTL DEF Spec, DropIsClear


-----------------------------------------------------------------------------
(* One save at a time *)

LEMMA UnsettledIs ==
    ASSUME NEW w
    PROVE  Unsettled(w) <=> pending[w] # NoSave \/ \E s \in Slots : OutFor(s, w)
    BY DEF Unsettled, OutFor

\* A widget stays alone when its saves only become fewer.
LEMMA FewerIsAlone ==
    ASSUME NEW w \in Widgets, Alone(w),
           \A s \in Slots : OutFor(s, w)' => OutFor(s, w),
           pending'[w] # NoSave => pending'[w] = pending[w] /\ local'[w] = local[w],
           w \in held' => w \in held
    PROVE  Alone(w)'
<1>1. Unsettled(w)' <=> pending'[w] # NoSave \/ \E s \in Slots : OutFor(s, w)'
  BY DEF Unsettled, OutFor
<1>2. w \in held' => ~Unsettled(w)'
  BY <1>1, UnsettledIs DEF Alone
<1> HIDE <1>1
<1> QED
  BY <1>2 DEF Alone

LEMMA DropAlone ==
    ASSUME Typed, OneSave, NEW w \in OnScreen, NEW p \in Pointers, gesture # NoGesture,
           Drop(w, p), ~Unsettled(w), held' = held \ {w}
    PROVE  OneSave'
<1>1. UNCHANGED flight
  BY DropIs
<1>2. \A u \in Widgets, s \in Slots : OutFor(s, u)' <=> OutFor(s, u)
  BY <1>1 DEF OutFor
<1>3. CASE UNCHANGED <<local, pending>>
  BY <1>2, <1>3, FewerIsAlone DEF OneSave
<1>4. ASSUME NEW save \in Waiting(w),
             local' = [local EXCEPT ![w] = save.to], pending' = [pending EXCEPT ![w] = save]
      PROVE  OneSave'
  <2>1. ASSUME NEW u \in Widgets, u # w PROVE Alone(u)'
    <3>1. pending'[u] = pending[u] /\ local'[u] = local[u] /\ (u \in held' => u \in held)
      BY <1>4, <2>1 DEF Typed, ScreenTyped, SavesTyped
    <3> QED
      BY <1>2, <3>1, FewerIsAlone DEF OneSave
  <2>2. w \in Widgets /\ w \notin held'
    BY DEF OnScreen
  <2>3. pending'[w] = save /\ local'[w] = save.to
    BY <1>4, <2>2 DEF Typed, ScreenTyped, SavesTyped
  <2>4. \A s \in Slots : ~OutFor(s, w)'
    BY <1>2, <2>2, UnsettledIs
  <2>5. Alone(w)'
    BY <2>2, <2>3, <2>4 DEF Alone
  <2> QED
    BY <2>1, <2>5 DEF OneSave
<1> QED
  BY <1>3, <1>4, DropIs

LEMMA NextOneSave ==
    ASSUME Patient, Typed, OneSave, [Next]_vars PROVE OneSave'
<1>1. ASSUME UNCHANGED <<local, pending, flight>>, held' \subseteq held PROVE OneSave'
  <2>1. \A u \in Widgets, s \in Slots : OutFor(s, u)' <=> OutFor(s, u)
    BY <1>1 DEF OutFor
  <2> QED
    BY <1>1, <2>1, FewerIsAlone DEF OneSave
<1>2. ASSUME NEW w \in Widgets, Press(w) PROVE OneSave'
  <2>1. ~Unsettled(w) /\ held' = held \union {w} /\ UNCHANGED <<local, pending, flight>>
    BY <1>2 DEF Press, MayPress
  <2>2. \A u \in Widgets : Unsettled(u)' <=> Unsettled(u)
    BY <2>1 DEF Unsettled
  <2>3. \A u \in Widgets, s \in Slots : OutFor(s, u)' <=> OutFor(s, u)
    BY <2>1 DEF OutFor
  <2> QED
    BY <2>1, <2>2, <2>3 DEF OneSave, Alone
<1>3. ASSUME NEW w \in Widgets, Release(w) PROVE OneSave'
  <2>1. w \in OnScreen /\ ~Unsettled(w) /\ held' = held \ {w}
    BY <1>3 DEF Release, Typed, ScreenTyped, OneSave, Alone
  <2>2. CASE gesture = NoGesture
    BY <1>1, <1>3, <2>1, <2>2 DEF Release
  <2>3. CASE gesture # NoGesture
    BY <1>3, <2>1, <2>3, DropAlone DEF Release
  <2> QED
    BY <2>2, <2>3
<1>4. ASSUME NEW w \in Widgets, MenuTap(w) PROVE OneSave'
  <2>1. w \in OnScreen /\ ~Unsettled(w) /\ held' = held \ {w} /\ gesture # NoGesture
    BY <1>4 DEF MenuTap, MayPress
  <2> QED
    BY <1>4, <2>1, DropAlone DEF MenuTap
<1>5. ASSUME NEW w \in Widgets, TimerFires(w) PROVE OneSave'
  <2>1. PICK s \in Slots :
            /\ flight[s] = Free
            /\ flight' = [flight EXCEPT ![s] = [status |-> "sent", save |-> pending[w]]]
    BY <1>5 DEF TimerFires
  <2>2. /\ pending[w] # NoSave /\ pending' = [pending EXCEPT ![w] = NoSave]
        /\ UNCHANGED <<local, held>>
    BY <1>5 DEF TimerFires
  <2>3. pending[w].widget = w
    BY <2>2 DEF Typed, SavesTyped, Waiting
  <2>4. ASSUME NEW t \in Slots, NEW u \in Widgets
        PROVE  OutFor(t, u)' <=> (t = s /\ u = w) \/ (t # s /\ OutFor(t, u))
    <3>1. CASE t = s
      <4>1. flight'[t] = [status |-> "sent", save |-> pending[w]]
        BY <2>1, <3>1 DEF Typed, SavesTyped
      <4>2. flight'[t] # Free
        BY <4>1 DEF Free
      <4> QED
        BY <2>3, <3>1, <4>1, <4>2 DEF OutFor
    <3>2. CASE t # s
      BY <2>1, <3>2 DEF OutFor, Typed, SavesTyped
    <3> QED
      BY <3>1, <3>2
  <2>5. \A u \in Widgets : ~OutFor(s, u)
    BY <2>1 DEF OutFor
  <2>6. ASSUME NEW u \in Widgets, u # w PROVE Alone(u)'
    <3>1. pending'[u] = pending[u]
      BY <2>2, <2>6 DEF Typed, SavesTyped
    <3> QED
      BY <2>2, <2>4, <2>6, <3>1, FewerIsAlone DEF OneSave
  <2>7. Alone(w)'
    <3>1. \A t \in Slots : ~OutFor(t, w)
      BY <2>2 DEF OneSave, Alone
    <3>2. w \notin held'
      BY <2>2, UnsettledIs DEF OneSave, Alone
    <3>3. pending'[w] = NoSave
      BY <2>2 DEF Typed, SavesTyped
    <3> QED
      BY <2>4, <3>1, <3>2, <3>3 DEF Alone
  <2> QED
    BY <2>6, <2>7 DEF OneSave
<1>6. ASSUME NEW s \in Slots, Serve(s) PROVE OneSave'
  <2>1. UNCHANGED <<local, pending, held>> /\ flight[s] # Free
    BY <1>6 DEF Serve, Free
  <2>2. PICK word \in {"accepted", "refused"} : flight' = [flight EXCEPT ![s].status = word]
    BY <1>6 DEF Serve
  <2>3. \A u \in Widgets, t \in Slots : OutFor(t, u)' => OutFor(t, u)
    <3>1. \A t \in Slots : t # s => flight'[t] = flight[t]
      BY <2>2 DEF Typed, SavesTyped
    <3>2. flight'[s].save = flight[s].save
      BY <2>1, <2>2, SaveIs DEF Typed, SavesTyped, Sent
    <3> QED
      BY <2>1, <3>1, <3>2 DEF OutFor
  <2> QED
    BY <2>1, <2>3, FewerIsAlone DEF OneSave
<1>7. ASSUME NEW s \in Slots, Answer(s) \/ ServeUnheard(s) PROVE OneSave'
  <2>1. flight' = [flight EXCEPT ![s] = Free] /\ UNCHANGED <<pending, held>>
    BY <1>7 DEF Answer, ServeUnheard
  <2>2. \A u \in Widgets, t \in Slots : OutFor(t, u)' => OutFor(t, u)
    BY <2>1 DEF OutFor, Typed, SavesTyped
  <2>3. ASSUME NEW u \in Widgets, pending'[u] # NoSave PROVE local'[u] = local[u]
    <3>1. \/ local' = local
          \/ /\ local' = [local EXCEPT ![flight[s].save.widget] = flight[s].save.from]
             /\ flight[s] # Free
      BY <1>7 DEF Answer, ServeUnheard, RolledBack, Free
    <3>2. CASE u = flight[s].save.widget /\ flight[s] # Free
      BY <2>1, <2>3, <3>2 DEF OneSave, Alone, OutFor
    <3>3. CASE u # flight[s].save.widget
      BY <3>1, <3>3 DEF Typed, ScreenTyped
    <3> QED
      BY <3>1, <3>2, <3>3
  <2> QED
    BY <2>1, <2>2, <2>3, FewerIsAlone DEF OneSave
<1>8. ASSUME Leave PROVE OneSave'
  <2>1. /\ pending' = [w \in Widgets |-> NoSave] /\ held' = {}
        /\ flight' = [s \in Slots |-> IF flight[s].status \in {"sent", "unheard"}
                                      THEN [flight[s] EXCEPT !.status = "unheard"] ELSE Free]
    BY <1>8 DEF Leave, TimersCleared
  <2>2. ASSUME NEW u \in Widgets, NEW t \in Slots, OutFor(t, u)' PROVE OutFor(t, u)
    <3>1. /\ flight[t].status \in {"sent", "unheard"}
          /\ flight'[t] = [flight[t] EXCEPT !.status = "unheard"]
      BY <2>1, <2>2 DEF OutFor
    <3>2. flight[t] # Free
      BY <3>1 DEF Free
    <3>3. flight'[t].save = flight[t].save
      BY <3>1, <3>2, SaveIs DEF Sent
    <3> QED
      BY <2>2, <3>2, <3>3 DEF OutFor
  <2> QED
    BY <2>1, <2>2, FewerIsAlone DEF OneSave
<1>9. CASE OtherTab
  BY <1>1, <1>9 DEF OtherTab, view
<1>10. ASSUME NEW w \in Widgets, AddWidget(w) \/ DeleteWidget(w) PROVE OneSave'
  BY <1>1, <1>10 DEF AddWidget, DeleteWidget, Reloaded
<1>11. CASE Reload
  BY <1>1, <1>11 DEF Reload, Reloaded
<1>12. CASE TimePasses \/ Hide \/ ComeBack
  BY <1>1, <1>12 DEF TimePasses, Hide, ComeBack, TickNow, Reloaded, view
<1>13. CASE UNCHANGED vars
  BY <1>1, <1>13 DEF vars, view
<1> QED
  BY <1>2, <1>3, <1>4, <1>5, <1>6, <1>7, <1>8, <1>9, <1>10, <1>11, <1>12, <1>13
  DEF Next, ViewStep


-----------------------------------------------------------------------------
(* The screen and the server *)

\* A widget stays in step when nothing that is its own changes.
LEMMA UntouchedIsInStep ==
    ASSUME NEW u \in Widgets, InStep(u),
           pending'[u] = pending[u], local'[u] = local[u], rect'[u] = rect[u],
           loaded'[u] = loaded[u] \/ loaded'[u] = rect[u],
           \A s \in Slots : OutFor(s, u)' <=> OutFor(s, u),
           \A s \in Slots : OutFor(s, u) => flight'[s] = flight[s]
    PROVE  InStep(u)'
<1>1. Unsettled(u)' <=> Unsettled(u)
  BY DEF Unsettled, OutFor
<1>2. u \in On' <=> u \in On
  BY DEF On
<1> QED
  BY <1>1, <1>2 DEF InStep

LEMMA DropInStep ==
    ASSUME Typed, OneSave, \A u \in Widgets : InStep(u), NEW w \in OnScreen,
           NEW p \in Pointers, gesture # NoGesture, Drop(w, p), ~Unsettled(w)
    PROVE  (\A u \in Widgets : InStep(u))' /\ UNCHANGED flight
<1>1. UNCHANGED <<rect, loaded, flight>>
  BY DropIs
<1>2. \A u \in Widgets, s \in Slots : OutFor(s, u)' <=> OutFor(s, u)
  BY <1>1 DEF OutFor
<1>3. CASE UNCHANGED <<local, pending>>
  BY <1>1, <1>2, <1>3, UntouchedIsInStep
<1>4. ASSUME NEW save \in Waiting(w), save.from = CurrentPlacement(w),
             local' = [local EXCEPT ![w] = save.to], pending' = [pending EXCEPT ![w] = save]
      PROVE  (\A u \in Widgets : InStep(u))'
  <2>1. ASSUME NEW u \in Widgets, u # w PROVE InStep(u)'
    <3>1. pending'[u] = pending[u] /\ local'[u] = local[u]
      BY <1>4, <2>1 DEF Typed, ScreenTyped, SavesTyped
    <3> QED
      BY <1>1, <1>2, <3>1, UntouchedIsInStep
  <2>2. w \in Widgets /\ save.to \in Placement
    BY DEF OnScreen, Waiting, Save
  <2>3. pending'[w] = save /\ local'[w] = save.to /\ local'[w] # NoRect
    BY <1>4, <2>2, NoPlacementIsNone DEF Typed, ScreenTyped, SavesTyped
  <2>4. pending'[w] # NoSave
    BY <2>2, <2>3, ViewAssumption DEF NoSave, Waiting, Save
  <2>5. w \in On => rect[w] = save.from
    BY <1>4, <2>2 DEF InStep, CurrentPlacement
  <2>6. \A s \in Slots : ~OutFor(s, w)'
    BY <1>2, <2>2, UnsettledIs
  <2>7. Unsettled(w)'
    BY <2>4 DEF Unsettled
  <2>8. w \in On' => rect'[w] = pending'[w].from
    BY <1>1, <2>3, <2>5 DEF On
  <2>9. InStep(w)'
    BY <2>3, <2>6, <2>7, <2>8 DEF InStep
  <2> QED
    BY <2>1, <2>9
<1> QED
  BY <1>1, <1>3, <1>4, DropIs

LEMMA NextNobodyElse ==
    ASSUME Patient, Typed, OneSave, NobodyElse, [Next]_vars PROVE NobodyElse'
<1> DEFINE AllInStep == \A u \in Widgets : InStep(u)
           AllHeard == \A s \in Slots : flight[s].status # "unheard"
<1>1. SUFFICES ASSUME others' = 0 PROVE AllInStep' /\ AllHeard'
  BY DEF NobodyElse
<1>2. ~Leave /\ ~OtherTab
  BY <1>1 DEF Leave, OtherTab, Typed
<1>3. others = 0
  BY <1>1, <1>2 DEF Next, ViewStep, Press, Release, MenuTap, Drop, TimerFires, Serve, Answer,
                    ServeUnheard, AddWidget, DeleteWidget, Reload, TimePasses, Hide, ComeBack, vars
<1>4. AllInStep /\ AllHeard
  BY <1>3 DEF NobodyElse
<1> HIDE DEF AllInStep, AllHeard
<1>5. ASSUME UNCHANGED <<local, pending, flight, rect>>, loaded' \in {loaded, rect}
      PROVE  AllInStep' /\ AllHeard'
  <2>1. \A u \in Widgets, s \in Slots : OutFor(s, u)' <=> OutFor(s, u)
    BY <1>5 DEF OutFor
  <2>2. AllInStep'
    BY <1>4, <1>5, <2>1, UntouchedIsInStep DEF AllInStep
  <2> QED
    BY <1>4, <1>5, <2>2 DEF AllHeard
<1>6. ASSUME NEW w \in Widgets, Release(w) PROVE AllInStep' /\ AllHeard'
  <2>1. w \in OnScreen /\ ~Unsettled(w)
    BY <1>6 DEF Release, Typed, ScreenTyped, OneSave, Alone
  <2>2. CASE gesture = NoGesture
    BY <1>5, <1>6, <2>2 DEF Release
  <2>3. CASE gesture # NoGesture
    BY <1>4, <1>6, <2>1, <2>3, DropInStep DEF Release, AllInStep, AllHeard
  <2> QED
    BY <2>2, <2>3
<1>7. ASSUME NEW w \in Widgets, MenuTap(w) PROVE AllInStep' /\ AllHeard'
  <2>1. w \in OnScreen /\ ~Unsettled(w) /\ gesture # NoGesture
    BY <1>7 DEF MenuTap, MayPress
  <2> QED
    BY <1>4, <1>7, <2>1, DropInStep DEF MenuTap, AllInStep, AllHeard
<1>8. ASSUME NEW w \in Widgets, TimerFires(w) PROVE AllInStep' /\ AllHeard'
  <2>1. PICK s \in Slots :
            /\ flight[s] = Free
            /\ flight' = [flight EXCEPT ![s] = [status |-> "sent", save |-> pending[w]]]
    BY <1>8 DEF TimerFires
  <2>2. /\ pending[w] # NoSave /\ pending' = [pending EXCEPT ![w] = NoSave]
        /\ UNCHANGED <<rect, loaded, local>>
    BY <1>8 DEF TimerFires
  <2>3. pending[w].widget = w
    BY <2>2 DEF Typed, SavesTyped, Waiting
  <2>4. flight'[s] = [status |-> "sent", save |-> pending[w]]
    BY <2>1 DEF Typed, SavesTyped
  <2>5. \A t \in Slots : t # s => flight'[t] = flight[t]
    BY <2>1 DEF Typed, SavesTyped
  <2>6. AllHeard'
    BY <1>4, <2>4, <2>5 DEF AllHeard
  <2>7. flight'[s] # Free
    BY <2>4 DEF Free
  <2>8. ASSUME NEW u \in Widgets, u # w PROVE InStep(u)'
    <3>1. pending'[u] = pending[u]
      BY <2>2, <2>8 DEF Typed, SavesTyped
    <3>2. ~OutFor(s, u) /\ ~OutFor(s, u)'
      BY <2>1, <2>3, <2>4, <2>8 DEF OutFor
    <3>3. \A t \in Slots : OutFor(t, u)' <=> OutFor(t, u)
      BY <2>5, <3>2 DEF OutFor
    <3> QED
      BY <1>4, <2>2, <2>5, <3>1, <3>2, <3>3, UntouchedIsInStep DEF AllInStep
  <2>9. InStep(w)'
    <3>1. InStep(w) /\ Alone(w)
      BY <1>4 DEF AllInStep, OneSave
    <3>2. local[w] # NoRect
      BY <2>2, <3>1, UnsettledIs DEF InStep
    <3>3. OutFor(s, w)'
      BY <2>3, <2>4, <2>7 DEF OutFor
    <3>4. Unsettled(w)'
      BY <3>3 DEF Unsettled, OutFor
    <3>5. ASSUME NEW t \in Slots, t # s PROVE ~OutFor(t, w)'
      BY <2>2, <2>5, <3>1, <3>5 DEF Alone, OutFor
    <3>6. w \in On' => w \in On
      BY <2>2 DEF On
    <3>7. w \in On => local'[w] = flight'[s].save.to /\ rect'[w] = flight'[s].save.from
      BY <2>2, <2>4, <3>1 DEF InStep, Alone
    <3>8. pending'[w] = NoSave /\ local'[w] # NoRect /\ flight'[s].status = "sent"
      BY <2>2, <2>4, <3>2 DEF Typed, SavesTyped
    <3> QED
      BY <3>4, <3>5, <3>6, <3>7, <3>8 DEF InStep
  <2> QED
    BY <2>6, <2>8, <2>9 DEF AllInStep

<1>9. ASSUME NEW s \in Slots, Serve(s) PROVE AllInStep' /\ AllHeard'
  <2>1. /\ flight[s] # Free /\ flight[s].status = "sent"
        /\ UNCHANGED <<loaded, local, pending>>
    BY <1>9 DEF Serve, Free
  <2>2. PICK save \in Save, w \in Widgets :
            /\ save = flight[s].save /\ w = save.widget /\ KeepsSpan(save)
            /\ flight[s] \in Sent /\ save.to \in Placement /\ save.from \in Placement
    BY <2>1, SaveIs
  <2>3. OutFor(s, w)
    BY <2>1, <2>2 DEF OutFor
  <2>4. PICK word \in {"accepted", "refused"} :
            /\ flight' = [flight EXCEPT ![s].status = word]
            /\ word = "accepted" => Place(w, Merged(rect[w], Body(save), save.to))
            /\ word = "refused" => UNCHANGED <<board, rect>>
    BY <1>9, <2>2 DEF Serve, layout
  <2>5. /\ flight'[s] = [flight[s] EXCEPT !.status = word]
        /\ \A t \in Slots : t # s => flight'[t] = flight[t]
    BY <2>4 DEF Typed, SavesTyped
  <2>6. flight'[s].status = word /\ flight'[s].save = flight[s].save /\ flight'[s] # Free
    BY <2>2, <2>4, <2>5 DEF Sent, Free
  <2>7. AllHeard'
    BY <1>4, <2>4, <2>5, <2>6 DEF AllHeard
  <2>8. \A u \in Widgets, t \in Slots : OutFor(t, u)' <=> OutFor(t, u)
    BY <2>1, <2>5, <2>6 DEF OutFor
  <2>9. ASSUME NEW u \in Widgets, u # w PROVE InStep(u)'
    <3>1. rect'[u] = rect[u]
      BY <2>4, <2>9 DEF Place, Typed, LayoutTyped
    <3>2. ~OutFor(s, u)
      BY <2>2, <2>9 DEF OutFor
    <3> QED
      BY <1>4, <2>1, <2>5, <2>8, <3>1, <3>2, UntouchedIsInStep DEF AllInStep
  <2>10. InStep(w)'
    <3>1. InStep(w) /\ Alone(w)
      BY <1>4, <2>2 DEF AllInStep, OneSave
    <3>2. Unsettled(w) /\ Unsettled(w)' /\ pending[w] = NoSave
      <4>1. pending[w] = NoSave
        BY <2>3, <3>1 DEF Alone
      <4>2. OutFor(s, w)'
        BY <2>2, <2>3, <2>8
      <4> QED
        BY <2>3, <4>1, <4>2 DEF Unsettled, OutFor
    <3>3. local[w] # NoRect
      BY <3>1, <3>2 DEF InStep
    <3>4. w \in On => local[w] = save.to /\ rect[w] = save.from
      BY <2>1, <2>2, <2>3, <3>1 DEF InStep
    <3>5. w \in On' => w \in On
      BY <2>2, <2>4 DEF On, Place, CanPlace
    <3>6. w \in On => rect'[w] = IF word = "accepted" THEN save.to ELSE save.from
      <4>1. ASSUME w \in On PROVE Merged(rect[w], Body(save), save.to) = save.to
        BY <2>2, <3>4, <4>1, MergedIsWanted
      <4> QED
        BY <2>2, <2>4, <3>4, <4>1 DEF Place, Typed, LayoutTyped
    <3>7. \A t \in Slots : OutFor(t, w)' => t = s
      BY <2>2, <2>3, <2>8, <3>1 DEF Alone
    <3>8. ASSUME NEW t \in Slots, w \in On', OutFor(t, w)'
          PROVE  /\ local'[w] = flight'[t].save.to
                 /\ flight'[t].status = "accepted" => rect'[w] = flight'[t].save.to
                 /\ flight'[t].status # "accepted" => rect'[w] = flight'[t].save.from
      <4>1. t = s /\ w \in On
        BY <3>5, <3>7, <3>8
      <4>2. flight'[t].save = save /\ flight'[t].status = word
        BY <2>2, <2>6, <4>1
      <4> QED
        BY <2>1, <3>4, <3>6, <4>1, <4>2
    <3> QED
      BY <2>1, <3>2, <3>3, <3>8 DEF InStep
  <2> QED
    BY <2>7, <2>9, <2>10 DEF AllInStep
<1>10. ASSUME NEW s \in Slots, Answer(s) PROVE AllInStep' /\ AllHeard'
  <2>1. /\ flight[s] # Free
        /\ flight' = [flight EXCEPT ![s] = Free] /\ UNCHANGED <<rect, loaded, pending>>
        /\ local' = IF flight[s].status = "accepted" THEN local
                    ELSE [local EXCEPT ![flight[s].save.widget] = flight[s].save.from]
    BY <1>10 DEF Answer, Free, RolledBack
  <2>2. PICK save \in Save, w \in Widgets :
            save = flight[s].save /\ w = save.widget /\ save.from \in Placement
    BY <2>1, SaveIs
  <2>3. OutFor(s, w)
    BY <2>1, <2>2 DEF OutFor
  <2>4. flight'[s] = Free /\ \A t \in Slots : t # s => flight'[t] = flight[t]
    BY <2>1 DEF Typed, SavesTyped
  <2>5. AllHeard'
    BY <1>4, <2>4 DEF AllHeard, Free
  <2>6. ASSUME NEW u \in Widgets, u # w PROVE InStep(u)'
    <3>1. local'[u] = local[u]
      BY <2>1, <2>2, <2>6 DEF Typed, ScreenTyped
    <3>2. ~OutFor(s, u)
      BY <2>2, <2>6 DEF OutFor
    <3>3. \A t \in Slots : OutFor(t, u)' <=> OutFor(t, u)
      BY <2>4, <3>2 DEF OutFor
    <3> QED
      BY <1>4, <2>1, <2>4, <3>1, <3>2, <3>3, UntouchedIsInStep DEF AllInStep
  <2>7. InStep(w)'
    <3>1. InStep(w) /\ Alone(w)
      BY <1>4, <2>2 DEF AllInStep, OneSave
    <3>2. local[w] # NoRect
      BY <2>2, <2>3, <3>1, UnsettledIs DEF InStep
    <3>3. local'[w] = IF flight[s].status = "accepted" THEN local[w] ELSE save.from
      BY <2>1, <2>2 DEF Typed, ScreenTyped
    <3>4. local'[w] # NoRect
      BY <2>2, <3>2, <3>3, NoPlacementIsNone
    <3>5. w \in On => local'[w] = rect[w]
      BY <2>2, <2>3, <3>1, <3>3 DEF InStep
    <3>6. pending'[w] = NoSave
      BY <2>1, <2>3, <3>1 DEF Alone
    <3>7. \A t \in Slots : ~OutFor(t, w)'
      BY <2>3, <2>4, <3>1 DEF Alone, OutFor
    <3>8. w \in On' <=> w \in On
      BY <2>1 DEF On
    <3> QED
      BY <2>1, <3>4, <3>5, <3>6, <3>7, <3>8 DEF InStep
  <2> QED
    BY <2>5, <2>6, <2>7 DEF AllInStep
<1>11. ASSUME NEW s \in Slots, ServeUnheard(s) PROVE FALSE
  BY <1>4, <1>11 DEF ServeUnheard, AllHeard
<1>12. ASSUME NEW w \in Widgets, AddWidget(w) \/ DeleteWidget(w)
       PROVE  AllInStep' /\ AllHeard'
  <2>1. UNCHANGED <<local, pending, flight>> /\ loaded' = rect'
    BY <1>12 DEF AddWidget, DeleteWidget, Reloaded
  <2>2. \A u \in Widgets, s \in Slots : OutFor(s, u)' <=> OutFor(s, u)
    BY <2>1 DEF OutFor
  <2>3. \A u \in Widgets : u # w => rect'[u] = rect[u]
    BY <1>12 DEF AddWidget, DeleteWidget, Create, Remove, layout, Typed, LayoutTyped
  <2>4. ASSUME NEW u \in Widgets, u # w PROVE InStep(u)'
    BY <1>4, <2>1, <2>2, <2>3, <2>4, UntouchedIsInStep DEF AllInStep
  <2>5. \A s \in Slots : OutFor(s, w)' <=> OutFor(s, w)
    BY <2>2
  <2>6. InStep(w)
    BY <1>4 DEF AllInStep
  <2>7. Unsettled(w)' <=> Unsettled(w)
    BY <2>1 DEF Unsettled
  <2>8. ASSUME AddWidget(w) PROVE InStep(w)'
    <3>1. local'[w] = NoRect /\ ~Unsettled(w)
      BY <2>1, <2>6, <2>8 DEF AddWidget, InStep
    <3>2. pending'[w] = NoSave /\ \A s \in Slots : ~OutFor(s, w)'
      BY <2>1, <2>5, <3>1, UnsettledIs
    <3> QED
      BY <2>1, <2>7, <3>1, <3>2 DEF InStep
  <2>9. ASSUME DeleteWidget(w) PROVE InStep(w)'
    <3>1. w \notin On'
      BY <2>9 DEF DeleteWidget, Remove, layout, On, Typed, LayoutTyped
    <3> QED
      BY <2>1, <2>6, <2>7, <3>1 DEF InStep
  <2>10. AllInStep'
    BY <1>12, <2>4, <2>8, <2>9 DEF AllInStep
  <2> QED
    BY <1>4, <2>1, <2>10 DEF AllHeard
<1>13. ASSUME NEW w \in Widgets, Press(w) PROVE AllInStep' /\ AllHeard'
  BY <1>5, <1>13 DEF Press
<1>14. CASE Reload
  BY <1>5, <1>14 DEF Reload, Reloaded, layout
<1>15. CASE TimePasses \/ Hide \/ ComeBack
  BY <1>5, <1>15 DEF TimePasses, Hide, ComeBack, TickNow, Reloaded, view, layout
<1>16. CASE UNCHANGED vars
  BY <1>5, <1>16 DEF vars, view
<1> QED
  BY <1>2, <1>6, <1>7, <1>8, <1>9, <1>10, <1>11, <1>12, <1>13, <1>14, <1>15, <1>16
  DEF Next, ViewStep

-----------------------------------------------------------------------------
(* The theorems of the page *)

LEMMA InitSaves == PageInit => OneSave /\ NobodyElse
<1>1. SUFFICES ASSUME PageInit PROVE OneSave /\ NobodyElse
  OBVIOUS
<1>2. /\ \A w \in Widgets : pending[w] = NoSave /\ local[w] = NoRect
      /\ \A s \in Slots : flight[s] = Free
      /\ held = {} /\ rect = loaded
  BY <1>1 DEF PageInit, Init
<1>3. \A w \in Widgets : ~Unsettled(w) /\ \A s \in Slots : ~OutFor(s, w)
  BY <1>2 DEF Unsettled, OutFor
<1> QED
  BY <1>2, <1>3 DEF OneSave, Alone, NobodyElse, InStep, Free

LEMMA SavesAlways ==
    ASSUME Patient PROVE Spec => []SaveInv
<1>1. PageInit => SaveInv
  BY InitTyped, InitSaves DEF SaveInv
<1>2. SaveInv /\ [Next]_vars => SaveInv'
  BY NextTyped, NextOneSave, NextNobodyElse DEF SaveInv
<1> QED
  BY <1>1, <1>2, PTL DEF Spec

\* The page holds together (BoardView.svelte, widget-placement.ts): nothing is
\* placed off the near side of the grid or out of span, a resize moves the held
\* edge only, there is a free slot for the next widget, and what waits to be sent
\* is what the screen shows, of a user who leaves a widget alone until its save is
\* answered.  An earlier answer could otherwise roll back what a later save shows.
THEOREM PageHoldsTogether ==
    ASSUME Patient PROVE Spec => []PageSound
<1>1. SaveInv => PageSound
  <2>1. Typed /\ OneSave => SendsWhatItShows
    BY DEF OneSave, Alone, SendsWhatItShows
  <2> QED
    BY <2>1, TypedIsTypeOK, TypedIsHeldEdge, TypedIsNextSlot DEF SaveInv, PageSound
<1> QED
  BY <1>1, SavesAlways, PTL

\* The same of any user, without the last part.
THEOREM PageIsTyped == Spec => [](TypeOK /\ HeldEdgeOnly /\ NextSlotIsFree)
BY TypedAlways, TypedIsTypeOK, TypedIsHeldEdge, TypedIsNextSlot, PTL

\* Once its save is answered, a widget stands where the server has it, whatever
\* the answer and wherever it was dropped, if nobody else wrote to the board and
\* the user waited for the answers.
THEOREM SettledStandsAsServed ==
    ASSUME Patient PROVE Spec => []SettledIsServer
<1>1. SaveInv => SettledIsServer
  BY DEF SaveInv, NobodyElse, InStep, SettledIsServer, CurrentPlacement, On
<1> QED
  BY <1>1, SavesAlways, PTL
=============================================================================
