------------------------------ MODULE BoardGrid ------------------------------
(***************************************************************************)
(* The widgets of one board and the requests that write them:              *)
(* POST /v1/boards/:id/widgets, PATCH and DELETE /v1/widgets/:id           *)
(* (apps/api/src/routes/widgets.ts), DELETE /v1/boards/:id                 *)
(* (apps/api/src/routes/boards.ts).                                        *)
(*                                                                         *)
(* A request reads its row at the ownership gate and works out the         *)
(* rectangle it is going to write; then it opens a transaction, locks the  *)
(* board row (select ... for update), checks, writes and commits.  Between *)
(* the gate and the lock any number of other requests may come and go.     *)
(***************************************************************************)
EXTENDS GridGeometry, FiniteSets

CONSTANTS
    Requests,      \* requests in flight at once (bound)
    NoRequest,     \* nobody holds the board row
    Widgets,       \* widget ids, each used at most once (bound)
    MaxWidgets,    \* MAX_WIDGETS_PER_BOARD
    Sends          \* the sets of grid fields a PATCH may send; {}: none of them

ASSUME GridAssumption ==
    /\ NoRequest \notin Requests
    /\ IsFiniteSet(Widgets)
    /\ GridColumns \in Nat /\ GridRows \subseteq Nat
    /\ MaxSpan \in Nat /\ MaxWidgets \in Nat
    /\ Sends \subseteq SUBSET Side

VARIABLES
    board,   \* the board row exists
    rect,    \* the rectangle of each widget row, NoRect when there is no row
    born,    \* ids handed out so far
    holder,  \* the request holding the board row's lock
    req      \* per request, how far it is and what it read at the gate

vars == <<board, rect, born, holder, req>>

-----------------------------------------------------------------------------
On == {w \in Widgets : rect[w] # NoRect}

Idle == [phase |-> "idle"]
Request == [phase : {"gated", "locked", "checked"},
            op : {"create", "patch", "delete"}, widget : Widgets,
            rect : Rect, sends : SUBSET Side]
InTransaction(r) == req[r].phase \in {"locked", "checked"}

\* The rows and the requests have these shapes, and the lock on the board row
\* belongs to a request in the middle of its transaction, of a board that is
\* there: no path through a handler leaves the lock behind.
TypeOK ==
    /\ board \in BOOLEAN
    /\ rect \in [Widgets -> Rect \union {NoRect}]
    /\ born \in SUBSET Widgets
    /\ holder \in Requests \union {NoRequest}
    /\ req \in [Requests -> {Idle} \union Request]
    /\ holder # NoRequest => board /\ InTransaction(holder)

Init ==
    /\ board = TRUE
    /\ rect = [w \in Widgets |-> NoRect]
    /\ born = {}
    /\ holder = NoRequest
    /\ req = [r \in Requests |-> Idle]

-----------------------------------------------------------------------------
(* What the handlers compute *)

\* A drag is checked, a resize forgotten.
Moves(r) == req[r].sends \intersect {"col", "row"} # {}

\* movesOrResizes
MovesOrResizes(r) == req[r].sends # {}

\* findOwnedWidget inside the transaction.
StillOwned(w) == w \in On

ClearOfSiblings(r) ==
    \A w \in On \ {req[r].widget} : ~RectanglesOverlap(req[r].rect, rect[w])

Accepts(r) ==
    CASE req[r].op = "create" -> Cardinality(On) < MaxWidgets /\ ClearOfSiblings(r)
      [] req[r].op = "patch"  -> /\ StillOwned(req[r].widget)
                                 /\ MovesOrResizes(r) => ClearOfSiblings(r)
      [] req[r].op = "delete" -> StillOwned(req[r].widget)

\* A write of the fields sent only, onto the row as it is by now.
WrittenOnCurrentRow(r) ==
    Merged(rect[req[r].widget], req[r].sends, req[r].rect)

\* The update sets all four fields, those of the gate's row included.
Written(r) == req[r].rect

-----------------------------------------------------------------------------
(* The gate: what a request knows of the row from here on *)

Gated(op, w, a, sends) ==
    [phase |-> "gated", op |-> op, widget |-> w, rect |-> a, sends |-> sends]

\* POST: the body fits the grid (CreateWidgetRequest).  w is the id the row
\* will have.
BeginCreate(r, w) ==
    /\ board /\ req[r] = Idle /\ w \notin born
    /\ \E to \in Rect :
         /\ Fits(to)
         /\ req' = [req EXCEPT ![r] = Gated("create", w, to, Side)]
    /\ born' = born \union {w}
    /\ UNCHANGED <<board, rect, holder>>

\* PATCH: the whole rectangle is worked out here, and checked against the
\* columns when a field of it was sent.
BeginPatch(r, w) ==
    /\ req[r] = Idle /\ w \in On
    /\ \E sends \in Sends, to \in Rect :
         LET next == Merged(rect[w], sends, to) IN
         /\ sends # {} => Fits(next)
         /\ req' = [req EXCEPT ![r] = Gated("patch", w, next, sends)]
    /\ UNCHANGED <<board, rect, born, holder>>

BeginDelete(r, w) ==
    /\ req[r] = Idle /\ w \in On
    /\ req' = [req EXCEPT ![r] = Gated("delete", w, rect[w], {})]
    /\ UNCHANGED <<board, rect, born, holder>>

-----------------------------------------------------------------------------
(* The transaction *)

\* The select without its "for update".
ReadsBoard(r) == TRUE

\* select ... for update: waits for the lock's holder; finds no row, and locks
\* nothing, when the board is gone.
CanLock(r) == holder = NoRequest

Lock(r) ==
    /\ req[r].phase = "gated" /\ CanLock(r)
    /\ holder' = IF board THEN r ELSE holder
    /\ req' = [req EXCEPT ![r].phase = "locked"]
    /\ UNCHANGED <<board, rect, born>>

\* A refusal that ends the request and not its transaction.
LockLeftBehind(r) == holder

\* Commit and rollback both let the board row go.
Released(r) == IF holder = r THEN NoRequest ELSE holder

Check(r) ==
    /\ req[r].phase = "locked" /\ Accepts(r)
    /\ req' = [req EXCEPT ![r].phase = "checked"]
    /\ UNCHANGED <<board, rect, born, holder>>

\* 404, 409 or 422: the throw rolls the transaction back.
Refuse(r) ==
    /\ req[r].phase = "locked" /\ ~Accepts(r)
    /\ req' = [req EXCEPT ![r] = Idle]
    /\ holder' = Released(r)
    /\ UNCHANGED <<board, rect, born>>

\* The write and the commit.  An insert for a board that is gone is refused by
\* the foreign key.
Write(r) ==
    /\ req[r].phase = "checked"
    /\ rect' = IF ~board THEN rect
               ELSE [rect EXCEPT ![req[r].widget] =
                        IF req[r].op = "delete" THEN NoRect ELSE Written(r)]
    /\ req' = [req EXCEPT ![r] = Idle]
    /\ holder' = Released(r)
    /\ UNCHANGED <<board, born>>

\* The process or its connection dies: the database rolls back.
Abort(r) ==
    /\ req[r] # Idle
    /\ req' = [req EXCEPT ![r] = Idle]
    /\ holder' = Released(r)
    /\ UNCHANGED <<board, rect, born>>

\* DELETE of the board, or of the account above it: waits for the row's lock;
\* the widgets go by cascade.
DeleteBoard ==
    /\ board /\ holder = NoRequest
    /\ board' = FALSE
    /\ rect' = [w \in Widgets |-> NoRect]
    /\ UNCHANGED <<born, holder, req>>

-----------------------------------------------------------------------------
Begin(r) == \E w \in Widgets : BeginCreate(r, w) \/ BeginPatch(r, w) \/ BeginDelete(r, w)

Next ==
    \/ \E r \in Requests : Begin(r) \/ Lock(r) \/ Check(r) \/ Refuse(r) \/ Write(r)
                           \/ Abort(r)
    \/ DeleteBoard

Spec == Init /\ [][Next]_vars

\* Postgres queues the waiters of a row lock; a handler goes on by itself.
Fairness ==
    \A r \in Requests : /\ SF_vars(Lock(r))
                        /\ WF_vars(Check(r) \/ Refuse(r) \/ Write(r))

FairSpec == Spec /\ Fairness

-----------------------------------------------------------------------------
(* Properties *)

\* No widget reaches past the last column, whatever fields of it were sent and
\* whatever happened to its row between the gate and the write (FR-3.1; the
\* database has no constraint that would catch it).
WithinGrid == \A w \in On : Fits(rect[w])

\* Concurrent creates never take a board past its cap (FR-3.5).
AtMostCap == Cardinality(On) <= MaxWidgets

\* When a create, a move or a resize commits, its widget is clear of every other
\* widget of the board as the board is at that moment (FR-3.3).
PlacementsClear ==
    [][\A r \in Requests :
          Write(r) /\ MovesOrResizes(r) /\ board =>
              \A w \in On \ {req[r].widget} :
                  Disjoint(rect'[req[r].widget], rect[w])]_vars

\* The row a PATCH or DELETE is about to write is there: `row!` and the
\* placement built from it are never undefined.
CheckedRowIsThere ==
    \A r \in Requests :
        req[r].phase = "checked" /\ req[r].op # "create" => req[r].widget \in On

\* No two widgets of the board share a cell (FR-3.3).
NoOverlap == \A u, w \in On : u # w => Disjoint(rect[u], rect[w])

\* The routes keep the promise of Board: the rectangle a transaction writes is
\* clear of the others and within the cap at its commit, as if it had looked and
\* written at one moment.
Promise == INSTANCE Board WITH PutsBack <- {} \in Sends
KeepsPromise == Promise!Layout

\* Every request is answered: nobody waits for the board row for ever.
Answered == \A r \in Requests : req[r] # Idle ~> req[r] = Idle
=============================================================================
