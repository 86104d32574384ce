------------------------------ MODULE BoardPage ------------------------------
(***************************************************************************)
(* The page around the board (apps/web/src/routes/boards/[id]/             *)
(* +page.svelte): adding and deleting a widget, reloading, and the         *)
(* scheduler that reloads on its own (apps/web/src/lib/                    *)
(* board-auto-refresh.ts).  A load's reading and its arrival are one step. *)
(***************************************************************************)
EXTENDS BoardView

CONSTANTS
    NewSpan,    \* NEW_WIDGET_WIDTH, NEW_WIDGET_HEIGHT
    Interval    \* refreshIntervalSeconds, in steps of the clock

ASSUME PageAssumption ==
    /\ NewSpan \in 1 .. MaxSpan /\ NewSpan <= GridColumns
    /\ Interval \in Nat \ {0}

VARIABLES
    visible,   \* the tab is in front
    timer,     \* steps to the next tick, Off when the interval is cleared
    age,       \* now - lastRefreshAt, up to MaxAge
    passedOver \* a due reload was dropped for a gesture since the last one

clock == <<visible, timer, age, passedOver>>
vars == <<board, rect, view, drops, others, clock>>

Off == 0
MaxAge == 2 * Interval   \* bound

PageInit ==
    /\ Init
    /\ visible = TRUE /\ timer = Interval /\ age = 0 /\ passedOver = FALSE

-----------------------------------------------------------------------------
(* What the page changes *)

\* invalidateAll: a widget that is gone takes its captured pointer with it.
Reloaded(layoutNow) ==
    /\ loaded' = layoutNow
    /\ held' = {w \in held : layoutNow[w] # NoRect}
    /\ UNCHANGED <<local, gesture, pending, flight>>

LowestEdge ==
    CHOOSE n \in {0} \union {loaded[w].row + loaded[w].height : w \in Widgets} :
        \A w \in Widgets : loaded[w].row + loaded[w].height <= n

\* row <= lowestEdge
RowsToEdge == 0 .. LowestEdge

FreeSlots ==
    {a \in [col : 0 .. GridColumns - NewSpan, row : RowsToEdge, width : {NewSpan}, height : {NewSpan}] :
        \A w \in OnScreen : ~RectanglesOverlap(a, loaded[w])}

\* The first one, left to right and top to bottom.
FindFreeSlot ==
    LET free == FreeSlots
    IN CHOOSE a \in free : \A b \in free : a.row < b.row \/ (a.row = b.row /\ a.col <= b.col)

\* The config modal's POST at the next slot, and the reload when it succeeded;
\* a refusal leaves the page as it is.  w is an id the page has not seen moved.
AddWidget(w) ==
    /\ held = {} /\ w \notin OnScreen /\ local[w] = NoRect
    /\ Create(w, FindFreeSlot)
    /\ Reloaded(rect')
    /\ UNCHANGED <<drops, others, clock>>

\* confirmWidgetDelete: a widget already gone is gone all the same.
DeleteWidget(w) ==
    /\ held = {} /\ w \in OnScreen
    /\ IF w \in On THEN Remove(w) ELSE UNCHANGED layout
    /\ Reloaded(rect')
    /\ UNCHANGED <<drops, others, clock>>

\* refreshWidget, saved settings, Retry: a reload at a moment of their own.
Reload ==
    /\ Reloaded(rect)
    /\ UNCHANGED <<layout, drops, others, clock>>

-----------------------------------------------------------------------------
(* startBoardAutoRefresh, in auto mode *)

\* A due reload is skipped during a gesture, and not made up for.
TickNow(agedTo) ==
    IF gesture = NoGesture
      THEN Reloaded(rect) /\ age' = 0 /\ passedOver' = FALSE
      ELSE UNCHANGED view /\ age' = agedTo /\ passedOver' = TRUE

Older == IF age = MaxAge THEN age ELSE age + 1

TimePasses ==
    /\ IF timer = 1
         THEN TickNow(Older) /\ timer' = Interval
         ELSE /\ UNCHANGED <<view, passedOver>>
              /\ age' = Older
              /\ timer' = IF timer = Off THEN Off ELSE timer - 1
    /\ UNCHANGED <<layout, drops, others, visible>>

Hide ==
    /\ visible /\ visible' = FALSE /\ timer' = Off
    /\ UNCHANGED <<layout, view, drops, others, age, passedOver>>

\* Back in front with no look at what was missed.
NothingMissed == FALSE

MissedOne == age >= Interval

ComeBack ==
    /\ ~visible /\ visible' = TRUE /\ timer' = Interval
    /\ IF MissedOne THEN TickNow(age) ELSE UNCHANGED <<view, age, passedOver>>
    /\ UNCHANGED <<layout, drops, others>>

-----------------------------------------------------------------------------
Next ==
    \/ ViewStep /\ UNCHANGED clock
    \/ \E w \in Widgets : AddWidget(w) \/ DeleteWidget(w)
    \/ Reload \/ TimePasses \/ Hide \/ ComeBack

Spec == PageInit /\ [][Next]_vars

-----------------------------------------------------------------------------
(* Properties *)

\* A board in front of its reader is never two intervals old, however often and
\* for however long it was hidden, unless a gesture was in the way of a reload
\* (catch up once on return, then tick from there).
FreshUnlessHeld == visible /\ ~passedOver => age < 2 * Interval

\* The slot offered to a new widget is in the columns and clear of every widget
\* that was loaded, and there always is one.
NextSlotIsFree ==
    LET next == FindFreeSlot
    IN /\ FreeSlots # {}
       /\ Fits(next)
       /\ \A w \in OnScreen : Disjoint(next, loaded[w])

\* The page holds together: what is shown is what is about to be sent, a resize
\* moves the held edge only, and there is a free slot for the next widget.
PageSound == TypeOK /\ SendsWhatItShows /\ HeldEdgeOnly /\ NextSlotIsFree
=============================================================================
