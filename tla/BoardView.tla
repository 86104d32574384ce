------------------------------ MODULE BoardView ------------------------------
(***************************************************************************)
(* The board in the browser (apps/web/src/lib/components/board-view/       *)
(* BoardView.svelte): a widget is dragged or resized, stays where it was   *)
(* dropped at once, and is saved by a PATCH after a debounce; an answer    *)
(* that says no, or none at all, puts it back.                             *)
(*                                                                         *)
(* The server is Board: what BoardGrid shows the widget routes to promise. *)
(* A gesture's pointer moves are folded into its end: only the cell the    *)
(* pointer is over at that moment counts.                                  *)
(***************************************************************************)
EXTENDS Board

CONSTANTS
    NoWidget,
    Start,        \* the board's layout when it is opened
    Slots,        \* PATCHes in flight at once (bound)
    Drops,        \* gestures that end in a drop (bound)
    Others,       \* writes of another tab, and times the page is left (bound)
    Fingers,      \* pointers down at once: 1 for a mouse
    Patient       \* the user leaves a widget alone until its save is answered

ASSUME ViewAssumption ==
    /\ NoWidget \notin Widgets
    /\ Start \in [Widgets -> Rect \union {NoRect}]
    /\ IsFiniteSet(Widgets) /\ IsFiniteSet(Slots)
    /\ GridColumns \in Nat /\ GridRows \subseteq Nat /\ MaxSpan \in Nat \ {0}
    /\ Drops \in Nat /\ Others \in Nat /\ Fingers \in Nat /\ Patient \in BOOLEAN

VARIABLES
    loaded,   \* board.widgets: the layout of the last load
    local,    \* localPositions, NoRect where there is no override
    gesture,  \* interactionMode, activeWidgetId, activeHandle, resizeOrigin
    held,     \* the widgets a pointer is down on and captured by
    pending,  \* pendingPatchTimers: per widget, what its debounce will send
    flight,   \* the PATCHes on their way, one to a slot
    drops, others

view == <<loaded, local, gesture, held, pending, flight>>

-----------------------------------------------------------------------------
Free == [status |-> "free"]
NoSave == [widget |-> NoWidget]
NoGesture == [mode |-> "none"]

Shape == {"none", "start", "end"}    \* HANDLE_AXES: which edge of an axis stays
Handles == [col : Shape, row : Shape] \ {[col |-> "none", row |-> "none"]}

\* What the screen may hold: a drag's left column is on the grid while its right
\* edge may reach over it, and a resize from there may begin past it.
Placement == [col : Nat, row : Nat, width : 1 .. MaxSpan, height : 1 .. MaxSpan]
Save == [widget : Widgets, to : Placement, from : Placement, span : BOOLEAN]

\* No placement, on the screen, waiting or saved, is above or left of the grid or
\* has a span out of bounds, and there are no more captured pointers than fingers.
TypeOK ==
    /\ board \in BOOLEAN
    /\ rect \in [Widgets -> Placement \union {NoRect}]
    /\ loaded \in [Widgets -> Placement \union {NoRect}]
    /\ local \in [Widgets -> Placement \union {NoRect}]
    /\ \/ gesture = NoGesture
       \/ gesture \in [mode : {"drag"}, widget : Widgets]
       \/ gesture \in [mode : {"resize"}, widget : Widgets,
                       handle : Handles, origin : Placement]
    /\ held \in SUBSET Widgets /\ Cardinality(held) <= Fingers
    /\ pending \in [Widgets -> Save \union {NoSave}]
    /\ \A s \in Slots : flight[s] = Free \/
          /\ flight[s].save \in Save
          /\ flight[s].status \in {"sent", "accepted", "refused", "unheard"}

Init ==
    /\ board = TRUE
    /\ rect = Start
    /\ loaded = Start
    /\ local = [w \in Widgets |-> NoRect]
    /\ gesture = NoGesture
    /\ held = {}
    /\ pending = [w \in Widgets |-> NoSave]
    /\ flight = [s \in Slots |-> Free]
    /\ drops = 0 /\ others = 0

-----------------------------------------------------------------------------
(* Where a widget is, and where a pointer takes it *)

OnScreen == {w \in Widgets : loaded[w] # NoRect}

\* currentPlacement; getPos and getSpan of a widget at rest.
CurrentPlacement(w) == IF local[w] # NoRect THEN local[w] ELSE loaded[w]

\* Siblings looked up where they were loaded.
OverlapsLoaded(w, a) == \E v \in OnScreen \ {w} : RectanglesOverlap(a, loaded[v])

OverlapsAnySibling(w, a) ==
    \E v \in OnScreen \ {w} : RectanglesOverlap(a, CurrentPlacement(v))

\* The cells a pointer can be over, the ones just outside the grid included.
Pointers == [col : -1 .. GridColumns, row : {-1} \union GridRows]

\* Math.max(low, Math.min(v, high)): where there is no room, low is what is left.
Clamp(low, high, v) ==
    IF v < low \/ high < low THEN low ELSE IF v > high THEN high ELSE v

DragTo(a, p) == [a EXCEPT !.col = Clamp(0, GridColumns - 1, p.col),
                          !.row = IF p.row < 0 THEN 0 ELSE p.row]

ClampSpan(v, most) == Clamp(1, IF most < MaxSpan THEN most ELSE MaxSpan, v)

\* One axis of a resize, from the origin and the pointer alone.
ResizeAxis(shape, at, span, pointer, room) ==
    LET grown == ClampSpan(at + span - pointer, at + span) IN
    CASE shape = "none"  -> [at |-> at, span |-> span]
      [] shape = "start" -> [at |-> at, span |-> ClampSpan(pointer - at + 1, room)]
      [] shape = "end"   -> [at |-> at + span - grown, span |-> grown]

ResizeTo(g, p) ==
    LET col == ResizeAxis(g.handle.col, g.origin.col, g.origin.width, p.col,
                          GridColumns - g.origin.col)
        row == ResizeAxis(g.handle.row, g.origin.row, g.origin.height, p.row, MaxSpan)
    IN [col |-> col.at, row |-> row.at, width |-> col.span, height |-> row.span]

-----------------------------------------------------------------------------
(* Gestures *)

\* A save of this widget still waits, or has not been answered.
Unsettled(w) ==
    \/ pending[w] # NoSave
    \/ \E s \in Slots : flight[s] # Free /\ flight[s].save.widget = w

MayPress(w) ==
    /\ w \in OnScreen \ held /\ Cardinality(held) < Fingers
    /\ drops < Drops /\ (Patient => ~Unsettled(w))

\* startDrag: whatever gesture was on is forgotten.
StartDrag(w) == gesture' = [mode |-> "drag", widget |-> w]

\* onResizeHandlePointerDown: so it is here; the widget's own press is stopped.
StartResize(w) ==
    \E h \in Handles :
        gesture' = [mode |-> "resize", widget |-> w, handle |-> h,
                    origin |-> CurrentPlacement(w)]

Press(w) ==
    /\ MayPress(w)
    /\ held' = held \union {w}
    /\ StartDrag(w) \/ StartResize(w)
    /\ UNCHANGED <<board, rect, loaded, local, pending, flight, drops, others>>

\* schedulePlacementPatch: the widget's own timer is replaced.
Scheduled(w, save) == [pending EXCEPT ![w] = save]

\* onDragPointerUp, on the widget the event came to: it keeps its span.
DragSave(w, p) ==
    [widget |-> w, to |-> DragTo(CurrentPlacement(w), p), from |-> CurrentPlacement(w),
     span |-> FALSE]

\* onResizePointerUp, likewise: the placement is the one of the widget resized.
ResizeSave(w, p) ==
    [widget |-> w, to |-> ResizeTo(gesture, p), from |-> CurrentPlacement(w), span |-> TRUE]

\* Over another widget it snaps back; elsewhere it stays and is to be saved.
Drop(w, p) ==
    LET save == IF gesture.mode = "drag" THEN DragSave(w, p) ELSE ResizeSave(w, p)
    IN /\ gesture' = NoGesture
       /\ drops' = drops + 1
       /\ IF OverlapsAnySibling(w, save.to)
            THEN UNCHANGED <<local, pending>>
            ELSE /\ local' = [local EXCEPT ![w] = save.to]
                 /\ pending' = Scheduled(w, save)
       /\ UNCHANGED <<board, rect, loaded, flight, others>>

\* onPointerUp of a captured pointer, which comes to the widget it was pressed on.
Release(w) ==
    /\ w \in held
    /\ held' = held \ {w}
    /\ IF gesture = NoGesture
         THEN UNCHANGED <<board, rect, loaded, local, gesture, pending, flight, drops, others>>
         ELSE \E p \in Pointers : Drop(w, p)

\* A tap on a widget's menu while a gesture is on: the button stops the press
\* (pointerdown) and not the release (pointerup), which comes to the widget.
MenuTap(w) ==
    /\ gesture # NoGesture /\ MayPress(w)
    /\ \E p \in Pointers : Drop(w, p)
    /\ UNCHANGED held

-----------------------------------------------------------------------------
(* Saving *)

TimerFires(w) ==
    /\ pending[w] # NoSave
    /\ \E s \in Slots :
         /\ flight[s] = Free
         /\ flight' = [flight EXCEPT ![s] = [status |-> "sent", save |-> pending[w]]]
    /\ pending' = [pending EXCEPT ![w] = NoSave]
    /\ UNCHANGED <<board, rect, loaded, local, gesture, held, drops, others>>

\* A drag's body has no span.
Body(save) == {"col", "row"} \union (IF save.span THEN {"width", "height"} ELSE {})

\* The PATCH reaches the server, which places the widget or refuses to.
Serve(s) ==
    LET save == flight[s].save
        to   == Merged(rect[save.widget], Body(save), save.to)
    IN /\ flight[s].status = "sent"
       /\ \/ /\ Place(save.widget, to)
             /\ flight' = [flight EXCEPT ![s].status = "accepted"]
          \/ /\ ~CanPlace(save.widget, to)
             /\ flight' = [flight EXCEPT ![s].status = "refused"]
             /\ UNCHANGED layout
       /\ UNCHANGED <<loaded, local, gesture, held, pending, drops, others>>

\* An answer that changes nothing on the screen.
LeftInPlace(save) == local

\* rollbackPosition.
RolledBack(save) == [local EXCEPT ![save.widget] = save.from]

\* The answer, or the failure to get through to the server.
Answer(s) ==
    /\ flight[s].status \in {"accepted", "refused", "sent"}
    /\ local' = IF flight[s].status = "accepted" THEN local
                ELSE RolledBack(flight[s].save)
    /\ flight' = [flight EXCEPT ![s] = Free]
    /\ UNCHANGED <<board, rect, loaded, gesture, held, pending, drops, others>>

\* A save whose page was left reaches the server all the same, or does not; no
\* screen waits for its answer.
ServeUnheard(s) ==
    LET save == flight[s].save
        to   == Merged(rect[save.widget], Body(save), save.to)
    IN /\ flight[s].status = "unheard"
       /\ Place(save.widget, to) \/ UNCHANGED layout
       /\ flight' = [flight EXCEPT ![s] = Free]
       /\ UNCHANGED <<loaded, local, gesture, held, pending, drops, others>>

\* onDestroy without its loop: the timers go off on the next board.
TimersKept == pending

\* onDestroy: what still waits is not sent.
TimersCleared == [w \in Widgets |-> NoSave]

\* The board is left, and opened again with nothing of its own.
Leave ==
    /\ others < Others /\ others' = others + 1
    /\ pending' = TimersCleared
    /\ flight' = [s \in Slots |-> IF flight[s].status \in {"sent", "unheard"}
                                  THEN [flight[s] EXCEPT !.status = "unheard"] ELSE Free]
    /\ gesture' = NoGesture /\ held' = {}
    /\ local' = [w \in Widgets |-> NoRect] /\ loaded' = rect
    /\ UNCHANGED <<layout, drops>>

\* Another tab moves a widget or deletes it.
OtherTab ==
    /\ others < Others /\ others' = others + 1
    /\ \E w \in Widgets : Remove(w) \/ \E a \in Rect : Place(w, a)
    /\ UNCHANGED <<view, drops>>

-----------------------------------------------------------------------------
ViewStep ==
    \/ \E w \in Widgets : Press(w) \/ Release(w) \/ MenuTap(w) \/ TimerFires(w)
    \/ \E s \in Slots : Serve(s) \/ Answer(s) \/ ServeUnheard(s)
    \/ Leave \/ OtherTab

-----------------------------------------------------------------------------
(* Properties *)

\* Once its save is answered, a widget that was moved here stands where the
\* server has it, unless another tab or an earlier page wrote to the board ("the
\* optimistic UI must not claim a position/size the server never actually
\* recorded").
SettledIsServer ==
    \A w \in On : others = 0 /\ local[w] # NoRect /\ ~Unsettled(w) =>
        CurrentPlacement(w) = rect[w]

\* A resize moves the edge that is held and no other, wherever the pointer goes.
HeldEdgeOnly ==
    gesture.mode = "resize" =>
        \A p \in Pointers :
            LET g == gesture.origin
                a == ResizeTo(gesture, p)
            IN /\ gesture.handle.col = "end" => a.col + a.width = g.col + g.width
               /\ gesture.handle.col # "end" => a.col = g.col
               /\ gesture.handle.row = "end" => a.row + a.height = g.row + g.height
               /\ gesture.handle.row # "end" => a.row = g.row

\* A widget is dropped only clear of every other one as the screen shows them,
\* those with a save still on its way included.
DropIsClear ==
    [][\A w \in Widgets : pending'[w] \notin {NoSave, pending[w]} =>
          \A v \in OnScreen \ {w} : Disjoint(local'[w], CurrentPlacement(v))]_pending

\* What waits to be sent is what the screen shows: a save of a board that was
\* left never goes out from the next one ("should not fire a PATCH into a view
\* nobody is looking at anymore").
SendsWhatItShows == \A w \in Widgets : pending[w] # NoSave => local[w] = pending[w].to

=============================================================================
