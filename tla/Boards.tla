------------------------------- MODULE Boards -------------------------------
(***************************************************************************)
(* The board routes of one user (apps/api/src/routes/boards.ts) over the   *)
(* rows of boards, widgets and widget_snapshots: each query of a handler   *)
(* is a step, transactions read what is committed at each of their         *)
(* statements, and the row of the user is the one row that gets locked.    *)
(* Widgets and snapshots come from the other routes and from the worker.   *)
(* The clients that send requests are left to the module that extends this.*)
(***************************************************************************)
EXTENDS Naturals, FiniteSets

CONSTANTS
    Callers,     \* clients, each with at most one request at a time (bound)
    BoardIds,    \* ids a board can get
    Widgets,     \* ids of widgets
    Names,       \* board names that pass BoardName
    Intervals,   \* BOARD_REFRESH_INTERVALS_SECONDS
    MaxBoards,   \* MAX_BOARDS_PER_USER
    MaxPolls,    \* snapshots of one widget (bound)
    None

VARIABLES
    owner,    \* the user row is there
    row,      \* the settings of each board, None where there is no row
    given,    \* the ids of boards so far
    on,       \* the board of each widget, None where there is no row
    newest,   \* the number of the widget's newest snapshot, 0 before the first
    lock,     \* the request that holds the user row FOR UPDATE
    req       \* the request of each client

-----------------------------------------------------------------------------
(* Rows and bodies *)

Null == 0   \* refresh_interval_seconds is null
Columns == [name : Names, mode : {"auto", "manual"}, every : Intervals \union {Null}]

\* boards_refresh_interval_check, and what checkRefreshPair asks of a body.
PairHolds(s) == (s.mode = "auto") <=> (s.every # Null)

Settings == {s \in Columns : PairHolds(s)}

ASSUME BoardsAssumption ==
    /\ IsFiniteSet(BoardIds) /\ IsFiniteSet(Widgets)
    /\ None \notin BoardIds \union Names \union Callers \union Settings
    /\ Intervals \subseteq Nat \ {0}
    /\ MaxBoards \in Nat \ {0} /\ MaxPolls \in Nat

\* UpdateBoardRequest: the name, the refresh pair, or both.
Patches ==
    {[name |-> s.name, mode |-> s.mode, every |-> s.every] : s \in Settings}
        \union {[name |-> n, mode |-> None, every |-> Null] : n \in Names}
        \union {[name |-> None, mode |-> s.mode, every |-> s.every] : s \in Settings}

BoardRows == {b \in BoardIds : row[b] # None}
On(b) == {w \in Widgets : on[w] = b}

Ops == {"list", "create", "read", "update", "delete"}
Steps == {"sent", "in", "locked", "counted", "gated", "written", "listed"}
Answers == {"ok", "limit", "missing", "unauthenticated", "throttled", "failed"}

\* The shape of a request: how far it is, what it was sent, and what it has
\* read: a count, or each listed widget's newest snapshot then and in the answer.
Request ==
    [op : Ops, board : BoardIds \union {None}, body : Settings \union Patches \union {None},
     pc : Steps \union Answers, count : Nat,
     listed : [Widgets -> 0 .. MaxPolls \union {None}], latest : [Widgets -> 0 .. MaxPolls]]

Idle == [pc |-> "idle"]

Call(op, b, body) ==
    [op |-> op, board |-> b, body |-> body, pc |-> "sent", count |-> 0,
     listed |-> [w \in Widgets |-> None], latest |-> [w \in Widgets |-> 0]]

At(c, op, pc) == req[c].pc = pc /\ req[c].op = op
Goes(c, pc) == req' = [req EXCEPT ![c].pc = pc]

\* gen_random_uuid: no id is given twice.
Fresh == BoardIds \ given

\* With any boards the user may have by now.
ServerInit ==
    /\ owner = TRUE
    /\ row \in [BoardIds -> Settings \union {None}]
    /\ Cardinality(BoardRows) <= MaxBoards /\ given = BoardRows
    /\ on = [w \in Widgets |-> None] /\ newest = [w \in Widgets |-> 0]
    /\ lock = None
    /\ req = [c \in Callers |-> Idle]

-----------------------------------------------------------------------------
(* The hook and the gate *)

\* The onRequest hook: sessions go with the user.  Then the limiter, on the
\* user's own budget.
Authenticate(c) ==
    /\ req[c].pc = "sent"
    /\ \E pc \in IF owner THEN {"in", "throttled"} ELSE {"unauthenticated"} : Goes(c, pc)
    /\ UNCHANGED <<owner, row, given, on, newest, lock>>

\* requireBoardOwnership.
Gate(c) ==
    /\ \E op \in {"read", "update", "delete"} : At(c, op, "in")
    /\ Goes(c, IF row[req[c].board] # None THEN "gated" ELSE "missing")
    /\ UNCHANGED <<owner, row, given, on, newest, lock>>

-----------------------------------------------------------------------------
(* GET /v1/boards *)

\* One query; atLimit is the number of its rows.
List(c) ==
    /\ At(c, "list", "in")
    /\ req' = [req EXCEPT ![c].pc = "ok", ![c].count = Cardinality(BoardRows)]
    /\ UNCHANGED <<owner, row, given, on, newest, lock>>

-----------------------------------------------------------------------------
(* POST /v1/boards *)

\* Anyone may go on to count.
CanCountUnlocked == TRUE

\* The user row is free, or is not there to be locked.
CanCount == lock = None \/ ~owner

LockOwner(c) ==
    /\ At(c, "create", "in") /\ CanCount
    /\ lock' = IF owner THEN c ELSE lock
    /\ Goes(c, "locked")
    /\ UNCHANGED <<owner, row, given, on, newest>>

\* A transaction left open.
StillHeld(c) == lock

Freed(c) == IF lock = c THEN None ELSE lock

\* At the cap the transaction is rolled back.
CountBoards(c) ==
    /\ At(c, "create", "locked")
    /\ IF Cardinality(BoardRows) < MaxBoards
       THEN Goes(c, "counted") /\ UNCHANGED lock
       ELSE Goes(c, "limit") /\ lock' = Freed(c)
    /\ UNCHANGED <<owner, row, given, on, newest>>

\* The foreign key to the user row decides.
Insert(c) ==
    /\ At(c, "create", "counted")
    /\ IF owner
       THEN \E b \in Fresh :
                /\ row' = [row EXCEPT ![b] = req[c].body]
                /\ given' = given \union {b}
                /\ req' = [req EXCEPT ![c].pc = "ok", ![c].board = b]
       ELSE Goes(c, "failed") /\ UNCHANGED <<row, given>>
    /\ lock' = Freed(c)
    /\ UNCHANGED <<owner, on, newest>>

-----------------------------------------------------------------------------
(* GET /v1/boards/:id *)

\* The widgets of the board: one query.
ListWidgets(c) ==
    /\ At(c, "read", "gated")
    /\ req' = [req EXCEPT ![c].pc = "listed",
                  ![c].listed = [w \in Widgets |->
                                    IF on[w] = req[c].board THEN newest[w] ELSE None]]
    /\ UNCHANGED <<owner, row, given, on, newest, lock>>

\* The oldest of the widget's snapshots: no ORDER BY captured_at DESC.
OldestSnapshot(w) == IF newest[w] = 0 THEN 0 ELSE 1

\* DISTINCT ON (widget_id), newest first; 0 for the null of no snapshot.
LatestSnapshot(w) == newest[w]

\* ... and a second one for their snapshots.  A widget gone since has none.
ReadLatest(c) ==
    /\ At(c, "read", "listed")
    /\ req' = [req EXCEPT ![c].pc = "ok",
                  ![c].latest = [w \in Widgets |->
                      IF req[c].listed[w] # None /\ on[w] = req[c].board
                      THEN LatestSnapshot(w) ELSE 0]]
    /\ UNCHANGED <<owner, row, given, on, newest, lock>>

-----------------------------------------------------------------------------
(* PATCH /v1/boards/:id *)

\* The interval left alone when the mode becomes manual.
ChangedModeOnly(s, p) ==
    [name |-> IF p.name = None THEN s.name ELSE p.name,
     mode |-> IF p.mode = None THEN s.mode ELSE p.mode,
     every |-> IF p.every = Null THEN s.every ELSE p.every]

Changed(s, p) ==
    [name |-> IF p.name = None THEN s.name ELSE p.name,
     mode |-> IF p.mode = None THEN s.mode ELSE p.mode,
     every |-> IF p.mode = None THEN s.every ELSE p.every]

\* The update returns the row, nothing when it is gone, or breaks the check.
Update(c) ==
    /\ At(c, "update", "gated")
    /\ LET b == req[c].board
           s == Changed(row[b], req[c].body)
       IN  IF row[b] = None
           THEN Goes(c, "written") /\ UNCHANGED row
           ELSE IF PairHolds(s)
           THEN /\ row' = [row EXCEPT ![b] = s]
                /\ req' = [req EXCEPT ![c].pc = "written", ![c].count = 1]
           ELSE Goes(c, "failed") /\ UNCHANGED row
    /\ UNCHANGED <<owner, given, on, newest, lock>>

\* widgetCountForBoard, and then the answer, which needs the updated row.
AnswerUpdate(c) ==
    /\ At(c, "update", "written")
    /\ Goes(c, IF req[c].count = 1 THEN "ok" ELSE "failed")
    /\ UNCHANGED <<owner, row, given, on, newest, lock>>

-----------------------------------------------------------------------------
(* DELETE /v1/boards/:id, and the rows that go with another *)

\* The count the answer will carry.
CountWidgets(c) ==
    /\ At(c, "delete", "gated")
    /\ req' = [req EXCEPT ![c].pc = "counted", ![c].count = Cardinality(On(req[c].board))]
    /\ UNCHANGED <<owner, row, given, on, newest, lock>>

\* ON DELETE CASCADE from boards to widgets ...
LeftOn(gone) == [w \in Widgets |-> IF on[w] \in gone THEN None ELSE on[w]]

\* ... and on to their snapshots.
LeftNewest(gone) == [w \in Widgets |-> IF on[w] \in gone THEN 0 ELSE newest[w]]

Drop(gone) ==
    /\ row' = [b \in BoardIds |-> IF b \in gone THEN None ELSE row[b]]
    /\ on' = LeftOn(gone) /\ newest' = LeftNewest(gone)

DeleteRow(c) ==
    /\ At(c, "delete", "counted")
    /\ Drop({req[c].board})
    /\ Goes(c, "ok")
    /\ UNCHANGED <<owner, given, lock>>

\* DELETE /v1/me, from wherever: the statement waits for the lock on its row.
DeleteOwner ==
    /\ owner /\ lock = None
    /\ owner' = FALSE
    /\ Drop(BoardIds)
    /\ UNCHANGED <<given, lock, req>>

-----------------------------------------------------------------------------
(* Widgets and their snapshots *)

AddWidget(w, b) ==
    /\ on[w] = None /\ row[b] # None
    /\ \A c \in Callers : req[c].pc # "idle" => req[c].listed[w] = None   \* a fresh id
    /\ on' = [on EXCEPT ![w] = b]
    /\ UNCHANGED <<owner, row, given, newest, lock, req>>

RemoveWidget(w) ==
    /\ on[w] # None
    /\ on' = [on EXCEPT ![w] = None] /\ newest' = [newest EXCEPT ![w] = 0]
    /\ UNCHANGED <<owner, row, given, lock, req>>

Poll(w) ==
    /\ on[w] # None /\ newest[w] < MaxPolls
    /\ newest' = [newest EXCEPT ![w] = @ + 1]
    /\ UNCHANGED <<owner, row, given, on, lock, req>>

Handle(c) ==
    \/ Authenticate(c) \/ Gate(c) \/ List(c)
    \/ LockOwner(c) \/ CountBoards(c) \/ Insert(c)
    \/ ListWidgets(c) \/ ReadLatest(c)
    \/ Update(c) \/ AnswerUpdate(c)
    \/ CountWidgets(c) \/ DeleteRow(c)

Elsewhere ==
    \/ DeleteOwner
    \/ \E w \in Widgets : RemoveWidget(w) \/ Poll(w) \/ \E b \in BoardIds : AddWidget(w, b)

ServerTypeOK ==
    /\ owner \in BOOLEAN /\ lock \in Callers \union {None}
    /\ row \in [BoardIds -> Settings \union {None}] /\ BoardRows \subseteq given
    /\ given \subseteq BoardIds
    /\ on \in [Widgets -> BoardIds \union {None}]
    /\ newest \in [Widgets -> 0 .. MaxPolls]
    /\ req \in [Callers -> {Idle} \union Request]

-----------------------------------------------------------------------------
(* What the routes promise *)

\* The board cap holds although every create counts before it inserts
\* (boards.ts:149-188).
AtMostMaxBoards == Cardinality(BoardRows) <= MaxBoards

\* Nothing outlives what it belongs to, whatever was in flight when that went:
\* a board its owner, a widget its board, a snapshot its widget.
NoOrphans ==
    /\ ~owner => BoardRows = {}
    /\ \A w \in Widgets :
          /\ on[w] # None => row[on[w]] # None
          /\ newest[w] # 0 => on[w] # None

\* The board read takes its widgets and their snapshots in two queries: a widget
\* still on the board is answered with a snapshot no older than the one it had
\* when it was listed, and never with none where there was one.
LatestAsListed ==
    \A c \in Callers : At(c, "read", "ok") =>
        \A w \in Widgets : req[c].listed[w] # None /\ on[w] = req[c].board =>
            req[c].latest[w] >= req[c].listed[w]

\* The api answers 500 to a board request only when its board or its user went
\* while it ran: no body that passed the contract can break the table's check.
FailedMeansGone ==
    \A c \in Callers :
        /\ At(c, "update", "failed") => row[req[c].board] = None
        /\ At(c, "create", "failed") => ~owner

=============================================================================
