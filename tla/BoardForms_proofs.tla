-------------------------- MODULE BoardForms_proofs --------------------------
(***************************************************************************)
(* The board routes under any number of clients, boards and widgets: the   *)
(* cap, the cascades, the board read in two queries, and the meaning of a  *)
(* 500. The routes' own invariant comes first (Boards), then what the      *)
(* pages add (BoardForms).                                                 *)
(***************************************************************************)
EXTENDS BoardForms, FiniteSetTheorems, TLAPS

\* What a request carries: only a create names no board that was given, and a
\* create that succeeded names the one it got.
RequestIsKnown(c) ==
    /\ req[c].op \in {"read", "update", "delete"} => req[c].board \in given
    /\ req[c].op = "update" => req[c].body \in Patches
    /\ req[c].op = "create" => req[c].body \in Settings
    /\ At(c, "create", "ok") => req[c].board \in given

\* Between its count and its insert a create holds the user row, and the count
\* it took is still below the cap.
CountStands(c) ==
    (At(c, "create", "locked") \/ At(c, "create", "counted")) /\ owner =>
        /\ lock = c
        /\ req[c].pc = "counted" => Cardinality(BoardRows) < MaxBoards

\* An update that found no row, or failed, is of a board that is gone for good.
GoneIsGone(c) ==
    /\ At(c, "update", "written") /\ req[c].count # 1 => row[req[c].board] = None
    /\ At(c, "update", "failed") => row[req[c].board] = None
    /\ At(c, "create", "failed") => ~owner

\* Between the two queries of a read a listed widget's snapshots only grow.
ReadKeepsUp(c) ==
    \A w \in Widgets : req[c].listed[w] # None /\ on[w] = req[c].board =>
        /\ At(c, "read", "listed") => newest[w] >= req[c].listed[w]
        /\ At(c, "read", "ok") => req[c].latest[w] >= req[c].listed[w]

CallerInv(c) ==
    req[c].pc # "idle" =>
        RequestIsKnown(c) /\ CountStands(c) /\ GoneIsGone(c) /\ ReadKeepsUp(c)

ServerInv ==
    ServerTypeOK /\ AtMostMaxBoards /\ NoOrphans /\ \A c \in Callers : CallerInv(c)

\* What the other clients' steps leave to the request of d: ids are never given
\* again, nobody inserts while d holds the user row, and a widget that d listed
\* does not come back with fewer snapshots.
Spares(d) ==
    /\ given \subseteq given' /\ (owner' => owner)
    /\ \A b \in given : row[b] = None => row'[b] = None
    /\ owner' /\ lock = d => lock' = d /\ Cardinality(BoardRows') <= Cardinality(BoardRows)
    /\ \A w \in Widgets : req[d].listed[w] # None =>
           (on'[w] = on[w] /\ newest'[w] >= newest[w]) \/ on'[w] = None

-----------------------------------------------------------------------------
(* Operators *)

\* A request that is not idle has the shape of one.
LEMMA NotIdle ==
    ASSUME ServerTypeOK, NEW c \in Callers, req[c].pc # "idle"
    PROVE  req[c] \in Request
BY DEF ServerTypeOK, Idle

LEMMA RequestIsNotIdle ==
    ASSUME NEW r \in Request
    PROVE  r.pc # "idle"
BY DEF Request, Steps, Answers

\* What a client sends has the shape of a request and has read nothing.
LEMMA CallType ==
    ASSUME NEW op \in Ops, NEW b \in BoardIds \union {None},
           NEW body \in Settings \union Patches \union {None}
    PROVE  /\ Call(op, b, body) \in Request
           /\ Call(op, b, body).op = op /\ Call(op, b, body).board = b
           /\ Call(op, b, body).body = body /\ Call(op, b, body).pc = "sent"
           /\ Call(op, b, body).count = 0
<1>1. [w \in Widgets |-> None] \in [Widgets -> 0 .. MaxPolls \union {None}]
  OBVIOUS
<1>2. [w \in Widgets |-> 0] \in [Widgets -> 0 .. MaxPolls]
  BY BoardsAssumption
<1>3. QED
  BY <1>1, <1>2 DEF Call, Request, Steps

\* A step of a request that only moves it on.
LEMMA GoesType ==
    ASSUME ServerTypeOK, NEW c \in Callers, req[c].pc # "idle",
           NEW pc \in Steps \union Answers, Goes(c, pc)
    PROVE  /\ req' \in [Callers -> {Idle} \union Request]
           /\ req'[c] \in Request /\ req'[c] = [req[c] EXCEPT !.pc = pc]
           /\ \A d \in Callers \ {c} : req'[d] = req[d]
<1>1. req[c] \in Request /\ req \in [Callers -> {Idle} \union Request]
  BY NotIdle DEF ServerTypeOK
<1>2. [req[c] EXCEPT !.pc = pc] \in Request
  BY <1>1 DEF Request
<1>3. QED
  BY <1>1, <1>2 DEF Goes

\* Settings are a patch of everything.
LEMMA SettingsArePatches == Settings \subseteq Patches
BY DEF Settings, Columns, Patches

\* An update with a body that passed the contract keeps the pair: the mode and
\* the interval change together or not at all.
LEMMA ChangedHolds ==
    ASSUME NEW s \in Settings, NEW p \in Patches
    PROVE  Changed(s, p) \in Settings /\ PairHolds(Changed(s, p))
<1>1. s.name \in Names /\ s.mode \in {"auto", "manual"} /\ s.every \in Intervals \union {Null}
      /\ PairHolds(s)
  BY DEF Settings, Columns
<1>2. p.name \in Names \union {None}
      /\ (p.mode = None \/ (/\ p.mode \in {"auto", "manual"} /\ p.every \in Intervals \union {Null}
                            /\ PairHolds(p)))
  BY DEF Patches, Settings, Columns, PairHolds
<1>3. Changed(s, p) \in Columns
  BY <1>1, <1>2 DEF Changed, Columns
<1>4. PairHolds(Changed(s, p))
  BY <1>1, <1>2 DEF Changed, PairHolds
<1>5. QED
  BY <1>3, <1>4 DEF Settings

\* There are finitely many boards ...
LEMMA FiniteBoards == IsFiniteSet(BoardRows) /\ Cardinality(BoardRows) \in Nat
<1>1. BoardRows \subseteq BoardIds
  BY DEF BoardRows
<1>2. QED
  BY <1>1, FS_Subset, FS_CardinalityType, BoardsAssumption

\* ... and no more of them when only rows go.
LEMMA FewerBoards ==
    ASSUME ServerTypeOK, \A b \in BoardIds : row[b] = None => row'[b] = None
    PROVE  /\ IsFiniteSet(BoardRows) /\ Cardinality(BoardRows) \in Nat
           /\ BoardRows' \subseteq BoardRows
           /\ Cardinality(BoardRows') \in Nat /\ Cardinality(BoardRows') <= Cardinality(BoardRows)
<1>1. IsFiniteSet(BoardRows) /\ BoardRows' \subseteq BoardRows
  BY FS_Subset, BoardsAssumption DEF BoardRows
<1>2. QED
  BY <1>1, FS_Subset, FS_CardinalityType

\* A request that nobody disturbs keeps what it knows.
LEMMA Undisturbed ==
    ASSUME ServerTypeOK, NEW d \in Callers, CallerInv(d), req'[d] = req[d], Spares(d),
           Cardinality(BoardRows) \in Nat, Cardinality(BoardRows') \in Nat,
           newest' \in [Widgets -> 0 .. MaxPolls]
    PROVE  CallerInv(d)'
<1> SUFFICES ASSUME req[d].pc # "idle", req[d] \in Request
             PROVE  (RequestIsKnown(d) /\ CountStands(d) /\ GoneIsGone(d) /\ ReadKeepsUp(d))'
  BY NotIdle DEF CallerInv
<1>1. RequestIsKnown(d)'
  BY DEF CallerInv, RequestIsKnown, At, Spares
<1>2. CountStands(d)'
  BY BoardsAssumption DEF CallerInv, CountStands, At, Spares
<1>3. GoneIsGone(d)'
  BY DEF CallerInv, RequestIsKnown, GoneIsGone, At, Spares
<1>4. ReadKeepsUp(d)'
  <2> SUFFICES ASSUME NEW w \in Widgets, req[d].listed[w] # None, on'[w] = req[d].board,
                      req[d].op = "read"
               PROVE  /\ At(d, "read", "listed") => newest'[w] >= req[d].listed[w]
                      /\ At(d, "read", "ok") => req[d].latest[w] >= req[d].listed[w]
    BY DEF ReadKeepsUp, At
  <2>1. on'[w] # None
    BY BoardsAssumption DEF CallerInv, RequestIsKnown, ServerTypeOK
  <2>2. on'[w] = on[w] /\ newest'[w] >= newest[w]
    BY <2>1 DEF Spares
  <2>3. newest[w] \in Nat /\ newest'[w] \in Nat /\ req[d].listed[w] \in Nat
    BY BoardsAssumption DEF ServerTypeOK, Request
  <2>4. QED
    BY <2>2, <2>3 DEF CallerInv, ReadKeepsUp
<1>5. QED
  BY <1>1, <1>2, <1>3, <1>4

-----------------------------------------------------------------------------
(* The routes *)

\* A step of c that leaves the rows alone spares everybody, whatever it does to
\* a lock that is its own.
LEMMA RowsUntouched ==
    ASSUME ServerInv, NEW c \in Callers, NEW d \in Callers \ {c},
           UNCHANGED <<owner, row, given, on, newest>>,
           lock' = lock \/ (lock \in {c, None} /\ lock' \in {c, None})
    PROVE  Spares(d)
<1>1. /\ newest \in [Widgets -> 0 .. MaxPolls] /\ UNCHANGED BoardRows
      /\ Cardinality(BoardRows) \in Nat
  BY FewerBoards DEF ServerInv, ServerTypeOK, BoardRows
<1>2. \A w \in Widgets : newest'[w] >= newest[w]
  BY <1>1, BoardsAssumption
<1>3. QED
  BY <1>1, <1>2, BoardsAssumption DEF Spares

\* What a step of c must show for the invariant to hold after it.
LEMMA StepKeeps ==
    ASSUME ServerInv, NEW c \in Callers, ServerTypeOK', AtMostMaxBoards', NoOrphans',
           CallerInv(c)', \A d \in Callers \ {c} : req'[d] = req[d] /\ Spares(d)
    PROVE  ServerInv'
<1>1. Cardinality(BoardRows) \in Nat /\ Cardinality(BoardRows') \in Nat
  <2>1. BoardRows \subseteq BoardIds /\ BoardRows' \subseteq BoardIds
    BY DEF BoardRows
  <2>2. QED
    BY <2>1, FS_Subset, FS_CardinalityType, BoardsAssumption
<1>2. newest' \in [Widgets -> 0 .. MaxPolls]
  BY DEF ServerTypeOK
<1>3. \A d \in Callers \ {c} : CallerInv(d)'
  BY <1>1, <1>2, Undisturbed DEF ServerInv
<1>4. QED
  BY <1>3 DEF ServerInv

\* ... and when it leaves the rows alone: only its own request.
LEMMA QuietStepKeeps ==
    ASSUME ServerInv, NEW c \in Callers, UNCHANGED <<owner, row, given, on, newest>>,
           lock' = lock \/ (lock \in {c, None} /\ lock' \in {c, None}),
           req' \in [Callers -> {Idle} \union Request],
           \A d \in Callers \ {c} : req'[d] = req[d],
           CallerInv(c)'
    PROVE  ServerInv'
<1>1. ServerTypeOK' /\ AtMostMaxBoards' /\ NoOrphans'
  BY DEF ServerInv, ServerTypeOK, BoardRows, AtMostMaxBoards, NoOrphans
<1>2. \A d \in Callers \ {c} : Spares(d)
  BY RowsUntouched
<1>3. QED
  BY <1>1, <1>2, StepKeeps

\* A request that moves on to where it promises no more than before.
LEMMA GoesKeeps ==
    ASSUME ServerInv, NEW c \in Callers, req[c].pc # "idle",
           UNCHANGED <<owner, row, given, on, newest>>,
           lock' = lock \/ (lock \in {c, None} /\ lock' \in {c, None}),
           NEW pc \in Steps \union Answers, Goes(c, pc),
           pc \notin {"locked", "counted", "written", "listed", "failed"},
           pc = "ok" => req[c].op \notin {"create", "read"}
    PROVE  ServerInv'
<1>1. /\ req' \in [Callers -> {Idle} \union Request]
      /\ req[c] \in Request /\ req'[c] = [req[c] EXCEPT !.pc = pc]
      /\ \A d \in Callers \ {c} : req'[d] = req[d]
  BY GoesType, NotIdle DEF ServerInv
<1>2. /\ req'[c].pc = pc /\ req'[c].op = req[c].op /\ req'[c].board = req[c].board
      /\ req'[c].body = req[c].body
  BY <1>1 DEF Request
<1>3. CallerInv(c)'
  BY <1>2 DEF ServerInv, CallerInv, RequestIsKnown, CountStands, GoneIsGone, ReadKeepsUp, At
<1>4. QED
  BY <1>1, <1>3, QuietStepKeeps

LEMMA AuthenticateKeeps ==
    ASSUME ServerInv, NEW c \in Callers, Authenticate(c)
    PROVE  ServerInv'
BY GoesKeeps DEF Authenticate, Steps, Answers

LEMMA GateKeeps ==
    ASSUME ServerInv, NEW c \in Callers, Gate(c)
    PROVE  ServerInv'
BY GoesKeeps DEF Gate, Steps, Answers, At

LEMMA ListKeeps ==
    ASSUME ServerInv, NEW c \in Callers, List(c)
    PROVE  ServerInv'
<1>1. /\ req[c] \in Request /\ req[c].op = "list" /\ req \in [Callers -> {Idle} \union Request]
      /\ Cardinality(BoardRows) \in Nat
  BY NotIdle, FewerBoards DEF List, At, ServerInv, ServerTypeOK
<1> DEFINE r == [req[c] EXCEPT !.pc = "ok", !.count = Cardinality(BoardRows)]
<1>2. r \in Request /\ r.pc = "ok" /\ r.op = "list"
  BY <1>1 DEF Request, Answers
<1>3. req' = [req EXCEPT ![c] = r]
  BY DEF List
<1>4. req' \in [Callers -> {Idle} \union Request] /\ req'[c] = r
      /\ \A d \in Callers \ {c} : req'[d] = req[d]
  BY <1>1, <1>2, <1>3
<1>5. CallerInv(c)'
  BY <1>2, <1>4 DEF CallerInv, RequestIsKnown, CountStands, GoneIsGone, ReadKeepsUp, At
<1>6. QED
  BY <1>4, <1>5, QuietStepKeeps DEF List

\* The lock is taken when nobody has it, or there is no row to take.
LEMMA LockOwnerKeeps ==
    ASSUME ServerInv, NEW c \in Callers, LockOwner(c)
    PROVE  ServerInv'
<1>1. /\ req[c].pc = "in" /\ req[c].op = "create" /\ UNCHANGED <<owner, row, given, on, newest>>
      /\ lock' = IF owner THEN c ELSE lock
      /\ lock = None \/ ~owner
  BY DEF LockOwner, At, CanCount
<1>2. /\ req' \in [Callers -> {Idle} \union Request]
      /\ req[c] \in Request /\ req'[c] = [req[c] EXCEPT !.pc = "locked"]
      /\ \A d \in Callers \ {c} : req'[d] = req[d]
  BY <1>1, GoesType, NotIdle DEF ServerInv, LockOwner, Steps
<1>3. req'[c].pc = "locked" /\ req'[c].op = req[c].op /\ req'[c].body = req[c].body
  BY <1>2 DEF Request
<1>4. CallerInv(c)'
  BY <1>1, <1>3 DEF ServerInv, CallerInv, RequestIsKnown, CountStands, GoneIsGone, ReadKeepsUp, At
<1>5. QED
  BY <1>1, <1>2, <1>4, QuietStepKeeps

\* Below the cap the request goes on with the lock, at the cap it lets go.
LEMMA CountBoardsKeeps ==
    ASSUME ServerInv, NEW c \in Callers, CountBoards(c)
    PROVE  ServerInv'
<1>1. req[c].pc = "locked" /\ req[c].op = "create" /\ UNCHANGED <<owner, row, given, on, newest>>
  BY DEF CountBoards, At
<1>2. CASE Cardinality(BoardRows) < MaxBoards
  <2>1. Goes(c, "counted") /\ lock' = lock
    BY <1>2 DEF CountBoards
  <2>2. /\ req' \in [Callers -> {Idle} \union Request]
        /\ req[c] \in Request /\ req'[c] = [req[c] EXCEPT !.pc = "counted"]
        /\ \A d \in Callers \ {c} : req'[d] = req[d]
    BY <1>1, <2>1, GoesType, NotIdle DEF ServerInv, Steps
  <2>3. req'[c].pc = "counted" /\ req'[c].op = req[c].op /\ req'[c].body = req[c].body
    BY <2>2 DEF Request
  <2>4. UNCHANGED BoardRows
    BY <1>1 DEF BoardRows
  <2>5. CallerInv(c)'
    BY <1>1, <1>2, <2>1, <2>3, <2>4
       DEF ServerInv, CallerInv, RequestIsKnown, CountStands, GoneIsGone, ReadKeepsUp, At
  <2>6. QED
    BY <1>1, <2>1, <2>2, <2>5, QuietStepKeeps
<1>3. CASE ~(Cardinality(BoardRows) < MaxBoards)
  <2>1. Goes(c, "limit") /\ (lock' = lock \/ (lock = c /\ lock' = None))
    BY <1>3 DEF CountBoards, Freed
  <2>2. QED
    BY <1>1, <2>1, GoesKeeps DEF Answers, Steps
<1>4. QED
  BY <1>2, <1>3

\* The only step that adds a board: its client holds the lock since its count.
LEMMA InsertKeeps ==
    ASSUME ServerInv, NEW c \in Callers, Insert(c)
    PROVE  ServerInv'
<1>1. /\ req[c].pc = "counted" /\ req[c].op = "create" /\ UNCHANGED <<owner, on, newest>>
      /\ lock' = lock \/ (lock = c /\ lock' = None)
      /\ req[c] \in Request /\ req \in [Callers -> {Idle} \union Request]
      /\ req[c].body \in Settings
  BY NotIdle DEF Insert, At, Freed, ServerInv, ServerTypeOK, CallerInv, RequestIsKnown
<1>2. ASSUME owner, NEW b \in Fresh, row' = [row EXCEPT ![b] = req[c].body],
             given' = given \union {b}, req' = [req EXCEPT ![c].pc = "ok", ![c].board = b]
      PROVE  ServerInv'
  <2>1. /\ lock = c /\ Cardinality(BoardRows) < MaxBoards /\ Cardinality(BoardRows) \in Nat
        /\ IsFiniteSet(BoardRows)
    BY <1>1, <1>2, FiniteBoards DEF ServerInv, CallerInv, CountStands, At
  <2>2. b \in BoardIds /\ b \notin given /\ b \notin BoardRows /\ b # None
    BY <1>2, BoardsAssumption DEF Fresh, ServerInv, ServerTypeOK
  <2>3. row' \in [BoardIds -> Settings \union {None}] /\ BoardRows' = BoardRows \union {b}
    BY <1>1, <1>2, <2>2, BoardsAssumption DEF ServerInv, ServerTypeOK, BoardRows
  <2>4. Cardinality(BoardRows') = Cardinality(BoardRows) + 1
    BY <2>1, <2>2, <2>3, FS_AddElement
  <2>5. AtMostMaxBoards'
    BY <2>1, <2>4, BoardsAssumption DEF AtMostMaxBoards
  <2> DEFINE r == [req[c] EXCEPT !.pc = "ok", !.board = b]
  <2>6. r \in Request /\ r.pc = "ok" /\ r.op = "create" /\ r.board = b /\ r.body = req[c].body
    BY <1>1, <2>2 DEF Request, Answers
  <2>7. req' \in [Callers -> {Idle} \union Request] /\ req'[c] = r
        /\ \A d \in Callers \ {c} : req'[d] = req[d]
    BY <1>1, <1>2, <2>6
  <2>8. ServerTypeOK'
    BY <1>1, <1>2, <2>2, <2>3, <2>7 DEF ServerInv, ServerTypeOK
  <2>9. NoOrphans'
    BY <1>1, <1>2, <2>2, <2>3, BoardsAssumption DEF ServerInv, ServerTypeOK, NoOrphans
  <2>10. CallerInv(c)'
    BY <1>1, <1>2, <2>6, <2>7
       DEF CallerInv, RequestIsKnown, CountStands, GoneIsGone, ReadKeepsUp, At
  <2>11. ASSUME NEW d \in Callers \ {c}
         PROVE  Spares(d)
    <3>1. \A a \in given : row'[a] = row[a]
      BY <1>2, <2>2 DEF ServerInv, ServerTypeOK
    <3>2. \A w \in Widgets : newest'[w] >= newest[w]
      BY <1>1, BoardsAssumption DEF ServerInv, ServerTypeOK
    <3>3. QED
      BY <1>1, <1>2, <2>1, <3>1, <3>2 DEF Spares
  <2>12. QED
    BY <2>5, <2>7, <2>8, <2>9, <2>10, <2>11, StepKeeps
<1>3. CASE ~owner /\ Goes(c, "failed") /\ UNCHANGED <<row, given>>
  <2>1. /\ req' \in [Callers -> {Idle} \union Request]
        /\ req'[c] = [req[c] EXCEPT !.pc = "failed"]
        /\ \A d \in Callers \ {c} : req'[d] = req[d]
    BY <1>1, <1>3, GoesType DEF ServerInv, Answers
  <2>2. req'[c].pc = "failed" /\ req'[c].op = "create" /\ req'[c].body = req[c].body
    BY <1>1, <2>1 DEF Request
  <2>3. CallerInv(c)'
    BY <1>1, <1>3, <2>2
       DEF CallerInv, RequestIsKnown, CountStands, GoneIsGone, ReadKeepsUp, At
  <2>4. QED
    BY <1>1, <1>3, <2>1, <2>3, QuietStepKeeps
<1>4. QED
  BY <1>2, <1>3 DEF Insert

\* The first query of a read notes what is newest now ...
LEMMA ListWidgetsKeeps ==
    ASSUME ServerInv, NEW c \in Callers, ListWidgets(c)
    PROVE  ServerInv'
<1> DEFINE l == [w \in Widgets |-> IF on[w] = req[c].board THEN newest[w] ELSE None]
           r == [req[c] EXCEPT !.pc = "listed", !.listed = l]
<1>1. /\ req[c] \in Request /\ req[c].op = "read" /\ req[c].pc = "gated"
      /\ req \in [Callers -> {Idle} \union Request] /\ newest \in [Widgets -> 0 .. MaxPolls]
      /\ req[c].board \in given
  BY NotIdle DEF ListWidgets, At, ServerInv, ServerTypeOK, CallerInv, RequestIsKnown
<1>2. l \in [Widgets -> 0 .. MaxPolls \union {None}]
  BY <1>1
<1>3. r \in Request /\ r.pc = "listed" /\ r.op = "read" /\ r.board = req[c].board /\ r.listed = l
  BY <1>1, <1>2 DEF Request, Steps
<1>4. req' = [req EXCEPT ![c] = r]
  BY DEF ListWidgets
<1>5. req' \in [Callers -> {Idle} \union Request] /\ req'[c] = r
      /\ \A d \in Callers \ {c} : req'[d] = req[d]
  BY <1>1, <1>3, <1>4
<1>6. UNCHANGED <<owner, row, given, on, newest, lock>>
  BY DEF ListWidgets
<1>7. ReadKeepsUp(c)'
  <2>1. \A w \in Widgets : on[w] = req[c].board => l[w] = newest[w] /\ newest[w] \in Nat
    BY <1>1, BoardsAssumption
  <2>2. QED
    BY <1>3, <1>5, <1>6, <2>1 DEF ReadKeepsUp, At
<1>8. CallerInv(c)'
  BY <1>1, <1>3, <1>5, <1>6, <1>7 DEF CallerInv, RequestIsKnown, CountStands, GoneIsGone, At
<1>9. QED
  BY <1>5, <1>6, <1>8, QuietStepKeeps

\* ... and the second answers with what is newest then.
LEMMA ReadLatestKeeps ==
    ASSUME ServerInv, NEW c \in Callers, ReadLatest(c)
    PROVE  ServerInv'
<1> DEFINE l == [w \in Widgets |-> IF req[c].listed[w] # None /\ on[w] = req[c].board
                                   THEN LatestSnapshot(w) ELSE 0]
           r == [req[c] EXCEPT !.pc = "ok", !.latest = l]
<1>1. /\ req[c] \in Request /\ req[c].op = "read" /\ req[c].pc = "listed"
      /\ req \in [Callers -> {Idle} \union Request] /\ newest \in [Widgets -> 0 .. MaxPolls]
      /\ req[c].board \in given /\ ReadKeepsUp(c)
  BY NotIdle DEF ReadLatest, At, ServerInv, ServerTypeOK, CallerInv, RequestIsKnown
<1>2. 0 \in 0 .. MaxPolls
  BY BoardsAssumption
<1>3. l \in [Widgets -> 0 .. MaxPolls]
  BY <1>1, <1>2 DEF LatestSnapshot
<1>4. r \in Request /\ r.pc = "ok" /\ r.op = "read" /\ r.board = req[c].board
      /\ r.listed = req[c].listed /\ r.latest = l
  BY <1>1, <1>3 DEF Request, Answers
<1>5. req' = [req EXCEPT ![c] = r]
  BY DEF ReadLatest
<1>6. req' \in [Callers -> {Idle} \union Request] /\ req'[c] = r
      /\ \A d \in Callers \ {c} : req'[d] = req[d]
  BY <1>1, <1>4, <1>5
<1>7. UNCHANGED <<owner, row, given, on, newest, lock>>
  BY DEF ReadLatest
<1>8. ReadKeepsUp(c)'
  <2>1. \A w \in Widgets : req[c].listed[w] # None /\ on[w] = req[c].board =>
            l[w] = newest[w] /\ newest[w] >= req[c].listed[w]
    BY <1>1 DEF ReadKeepsUp, At, LatestSnapshot
  <2>2. QED
    BY <1>4, <1>6, <1>7, <2>1 DEF ReadKeepsUp, At
<1>9. CallerInv(c)'
  BY <1>1, <1>4, <1>6, <1>7, <1>8 DEF CallerInv, RequestIsKnown, CountStands, GoneIsGone, At
<1>10. QED
  BY <1>6, <1>7, <1>9, QuietStepKeeps

\* An update changes a row that is there, or finds that it is gone; the check of
\* the table is never what stops it.
LEMMA UpdateKeeps ==
    ASSUME ServerInv, NEW c \in Callers, Update(c)
    PROVE  ServerInv'
<1> DEFINE b == req[c].board
           s == Changed(row[b], req[c].body)
<1>1. /\ req[c].pc = "gated" /\ req[c].op = "update" /\ UNCHANGED <<owner, given, on, newest, lock>>
      /\ req[c] \in Request /\ req \in [Callers -> {Idle} \union Request]
      /\ b \in given /\ b \in BoardIds /\ req[c].body \in Patches
  BY NotIdle DEF Update, At, ServerInv, ServerTypeOK, CallerInv, RequestIsKnown
<1>2. CASE row[b] = None
  <2>1. Goes(c, "written") /\ UNCHANGED row
    BY <1>2 DEF Update
  <2>2. /\ req' \in [Callers -> {Idle} \union Request]
        /\ req'[c] = [req[c] EXCEPT !.pc = "written"]
        /\ \A d \in Callers \ {c} : req'[d] = req[d]
    BY <1>1, <2>1, GoesType DEF ServerInv, Steps
  <2>3. req'[c].pc = "written" /\ req'[c].op = "update" /\ req'[c].board = b
        /\ req'[c].body = req[c].body
    BY <1>1, <2>2 DEF Request
  <2>4. CallerInv(c)'
    BY <1>1, <1>2, <2>1, <2>3
       DEF CallerInv, RequestIsKnown, CountStands, GoneIsGone, ReadKeepsUp, At
  <2>5. QED
    BY <1>1, <2>1, <2>2, <2>4, QuietStepKeeps
<1>3. CASE row[b] # None
  <2>1. s \in Settings /\ PairHolds(s)
    BY <1>1, <1>3, ChangedHolds DEF ServerInv, ServerTypeOK
  <2>2. /\ row' = [row EXCEPT ![b] = s]
        /\ req' = [req EXCEPT ![c].pc = "written", ![c].count = 1]
    BY <1>3, <2>1 DEF Update
  <2> DEFINE r == [req[c] EXCEPT !.pc = "written", !.count = 1]
  <2>3. r \in Request /\ r.pc = "written" /\ r.op = "update" /\ r.count = 1 /\ r.board = b
        /\ r.body = req[c].body
    BY <1>1 DEF Request, Steps
  <2>4. req' \in [Callers -> {Idle} \union Request] /\ req'[c] = r
        /\ \A d \in Callers \ {c} : req'[d] = req[d]
    BY <1>1, <2>2, <2>3
  <2>5. row' \in [BoardIds -> Settings \union {None}]
        /\ \A a \in BoardIds : row'[a] = None <=> row[a] = None
    BY <1>1, <1>3, <2>1, <2>2, BoardsAssumption DEF ServerInv, ServerTypeOK
  <2>6. BoardRows' = BoardRows
    BY <2>5 DEF BoardRows
  <2>7. ServerTypeOK' /\ AtMostMaxBoards' /\ NoOrphans'
    BY <1>1, <2>4, <2>5, <2>6 DEF ServerInv, ServerTypeOK, AtMostMaxBoards, NoOrphans
  <2>8. CallerInv(c)'
    BY <1>1, <2>3, <2>4
       DEF CallerInv, RequestIsKnown, CountStands, GoneIsGone, ReadKeepsUp, At
  <2>9. \A d \in Callers \ {c} : Spares(d)
    <3>1. \A w \in Widgets : newest'[w] >= newest[w]
      BY <1>1, BoardsAssumption DEF ServerInv, ServerTypeOK
    <3>2. given \subseteq BoardIds /\ Cardinality(BoardRows') <= Cardinality(BoardRows)
      BY <2>6, FiniteBoards DEF ServerInv, ServerTypeOK
    <3>3. QED
      BY <1>1, <2>5, <3>1, <3>2 DEF Spares
  <2>10. QED
    BY <2>4, <2>7, <2>8, <2>9, StepKeeps
<1>4. QED
  BY <1>2, <1>3

\* Only an update that found no row is answered with a failure.
LEMMA AnswerUpdateKeeps ==
    ASSUME ServerInv, NEW c \in Callers, AnswerUpdate(c)
    PROVE  ServerInv'
<1>1. /\ req[c].pc = "written" /\ req[c].op = "update"
      /\ UNCHANGED <<owner, row, given, on, newest, lock>> /\ CallerInv(c)
  BY DEF AnswerUpdate, At, ServerInv
<1>2. CASE req[c].count = 1
  BY <1>1, <1>2, GoesKeeps DEF AnswerUpdate, Answers, Steps
<1>3. CASE req[c].count # 1
  <2>1. /\ req' \in [Callers -> {Idle} \union Request]
        /\ req[c] \in Request /\ req'[c] = [req[c] EXCEPT !.pc = "failed"]
        /\ \A d \in Callers \ {c} : req'[d] = req[d]
    BY <1>1, <1>3, GoesType, NotIdle DEF ServerInv, Answers, AnswerUpdate
  <2>2. req'[c].pc = "failed" /\ req'[c].op = "update" /\ req'[c].board = req[c].board
        /\ req'[c].body = req[c].body
    BY <1>1, <2>1 DEF Request
  <2>3. CallerInv(c)'
    BY <1>1, <1>3, <2>2
       DEF CallerInv, RequestIsKnown, CountStands, GoneIsGone, ReadKeepsUp, At
  <2>4. QED
    BY <1>1, <2>1, <2>3, QuietStepKeeps
<1>4. QED
  BY <1>2, <1>3

LEMMA CountWidgetsKeeps ==
    ASSUME ServerInv, NEW c \in Callers, CountWidgets(c)
    PROVE  ServerInv'
<1> DEFINE n == Cardinality(On(req[c].board))
           r == [req[c] EXCEPT !.pc = "counted", !.count = n]
<1>1. /\ req[c].pc = "gated" /\ req[c].op = "delete" /\ req[c] \in Request
      /\ req \in [Callers -> {Idle} \union Request] /\ req[c].board \in given
      /\ UNCHANGED <<owner, row, given, on, newest, lock>>
  BY NotIdle DEF CountWidgets, At, ServerInv, ServerTypeOK, CallerInv, RequestIsKnown
<1>2. n \in Nat
  <2>1. On(req[c].board) \subseteq Widgets
    BY DEF On
  <2>2. QED
    BY <2>1, FS_Subset, FS_CardinalityType, BoardsAssumption
<1>3. r \in Request /\ r.pc = "counted" /\ r.op = "delete" /\ r.board = req[c].board
  BY <1>1, <1>2 DEF Request, Steps
<1>4. req' = [req EXCEPT ![c] = r]
  BY DEF CountWidgets
<1>5. req' \in [Callers -> {Idle} \union Request] /\ req'[c] = r
      /\ \A d \in Callers \ {c} : req'[d] = req[d]
  BY <1>1, <1>3, <1>4
<1>6. CallerInv(c)'
  BY <1>1, <1>3, <1>5 DEF CallerInv, RequestIsKnown, CountStands, GoneIsGone, ReadKeepsUp, At
<1>7. QED
  BY <1>1, <1>5, <1>6, QuietStepKeeps

-----------------------------------------------------------------------------
(* Rows that go, and widgets that come from elsewhere *)

\* The cascade leaves no orphan, spares every request, and brings nothing back.
LEMMA DropKeeps ==
    ASSUME ServerInv, NEW gone \in SUBSET BoardIds, Drop(gone), given' = given, lock' = lock,
           owner' = owner \/ (owner' = FALSE /\ gone = BoardIds),
           req' \in [Callers -> {Idle} \union Request]
    PROVE  /\ ServerTypeOK' /\ AtMostMaxBoards' /\ NoOrphans'
           /\ \A d \in Callers : Spares(d)
<1>1. /\ row \in [BoardIds -> Settings \union {None}] /\ BoardRows \subseteq given
      /\ given \subseteq BoardIds /\ on \in [Widgets -> BoardIds \union {None}]
      /\ newest \in [Widgets -> 0 .. MaxPolls] /\ owner \in BOOLEAN
      /\ lock \in Callers \union {None}
  BY DEF ServerInv, ServerTypeOK
<1>2. /\ row' \in [BoardIds -> Settings \union {None}]
      /\ \A b \in BoardIds : row'[b] = IF b \in gone THEN None ELSE row[b]
  BY <1>1 DEF Drop
<1>3. /\ on' \in [Widgets -> BoardIds \union {None}]
      /\ \A w \in Widgets : on'[w] = IF on[w] \in gone THEN None ELSE on[w]
  BY <1>1 DEF Drop, LeftOn
<1>4. 0 \in 0 .. MaxPolls
  BY BoardsAssumption
<1>5. /\ newest' \in [Widgets -> 0 .. MaxPolls]
      /\ \A w \in Widgets : newest'[w] = IF on[w] \in gone THEN 0 ELSE newest[w]
  BY <1>1, <1>4 DEF Drop, LeftNewest
<1>6. BoardRows' \subseteq BoardRows /\ Cardinality(BoardRows') <= Cardinality(BoardRows)
      /\ Cardinality(BoardRows) \in Nat /\ Cardinality(BoardRows') \in Nat
  BY <1>2, FewerBoards DEF ServerInv
<1>7. ServerTypeOK'
  BY <1>1, <1>2, <1>3, <1>5, <1>6 DEF ServerTypeOK
<1>8. AtMostMaxBoards'
  BY <1>6, BoardsAssumption DEF ServerInv, AtMostMaxBoards
<1>9. NoOrphans'
  <2>1. ~owner' => BoardRows' = {}
    BY <1>2, <1>6 DEF ServerInv, NoOrphans, BoardRows
  <2>2. ASSUME NEW w \in Widgets
        PROVE  (on'[w] # None => row'[on'[w]] # None) /\ (newest'[w] # 0 => on'[w] # None)
    BY <1>1, <1>2, <1>3, <1>5, BoardsAssumption DEF ServerInv, NoOrphans
  <2>3. QED
    BY <2>1, <2>2 DEF NoOrphans
<1>10. ASSUME NEW d \in Callers
       PROVE  Spares(d)
  <2>1. \A w \in Widgets : on'[w] = None \/ (on'[w] = on[w] /\ newest'[w] >= newest[w])
    BY <1>1, <1>3, <1>5, BoardsAssumption
  <2>2. QED
    BY <1>1, <1>2, <1>6, <2>1 DEF Spares
<1>11. QED
  BY <1>7, <1>8, <1>9, <1>10

LEMMA DeleteRowKeeps ==
    ASSUME ServerInv, NEW c \in Callers, DeleteRow(c)
    PROVE  ServerInv'
<1>1. /\ req[c].pc = "counted" /\ req[c].op = "delete" /\ req[c] \in Request
      /\ req[c].board \in given /\ req[c].board \in BoardIds
      /\ Drop({req[c].board}) /\ Goes(c, "ok") /\ UNCHANGED <<owner, given, lock>>
  BY NotIdle DEF DeleteRow, At, ServerInv, ServerTypeOK, CallerInv, RequestIsKnown
<1>2. /\ req' \in [Callers -> {Idle} \union Request] /\ req'[c] = [req[c] EXCEPT !.pc = "ok"]
      /\ \A d \in Callers \ {c} : req'[d] = req[d]
  BY <1>1, GoesType DEF ServerInv, Answers
<1>3. req'[c].pc = "ok" /\ req'[c].op = "delete" /\ req'[c].board = req[c].board
  BY <1>1, <1>2 DEF Request
<1>4. CallerInv(c)'
  BY <1>1, <1>3 DEF CallerInv, RequestIsKnown, CountStands, GoneIsGone, ReadKeepsUp, At
<1>5. ServerTypeOK' /\ AtMostMaxBoards' /\ NoOrphans' /\ \A d \in Callers : Spares(d)
  BY <1>1, <1>2, DropKeeps
<1>6. QED
  BY <1>2, <1>4, <1>5, StepKeeps

\* What a step that touches no request must show.
LEMMA ElsewhereKeepsIf ==
    ASSUME ServerInv, ServerTypeOK', AtMostMaxBoards', NoOrphans', req' = req,
           \A d \in Callers : Spares(d)
    PROVE  ServerInv'
<1>1. Cardinality(BoardRows) \in Nat /\ Cardinality(BoardRows') \in Nat
  <2>1. BoardRows \subseteq BoardIds /\ BoardRows' \subseteq BoardIds
    BY DEF BoardRows
  <2>2. QED
    BY <2>1, FS_Subset, FS_CardinalityType, BoardsAssumption
<1>2. newest' \in [Widgets -> 0 .. MaxPolls]
  BY DEF ServerTypeOK
<1>3. \A d \in Callers : CallerInv(d)'
  BY <1>1, <1>2, Undisturbed DEF ServerInv
<1>4. QED
  BY <1>3 DEF ServerInv

LEMMA DeleteOwnerKeeps ==
    ASSUME ServerInv, DeleteOwner
    PROVE  ServerInv'
<1>1. /\ Drop(BoardIds) /\ owner' = FALSE /\ UNCHANGED <<given, lock, req>>
      /\ req' \in [Callers -> {Idle} \union Request]
  BY DEF DeleteOwner, ServerInv, ServerTypeOK
<1>2. QED
  BY <1>1, DropKeeps, ElsewhereKeepsIf

\* A widget comes with an id that no read has listed.
LEMMA AddWidgetKeeps ==
    ASSUME ServerInv, NEW w \in Widgets, NEW b \in BoardIds, AddWidget(w, b)
    PROVE  ServerInv'
<1>1. /\ on' = [on EXCEPT ![w] = b] /\ UNCHANGED <<owner, row, given, newest, lock, req>>
      /\ on[w] = None /\ row[b] # None
      /\ on \in [Widgets -> BoardIds \union {None}] /\ newest \in [Widgets -> 0 .. MaxPolls]
  BY DEF AddWidget, ServerInv, ServerTypeOK
<1>2. UNCHANGED BoardRows
  BY <1>1 DEF BoardRows
<1>3. ServerTypeOK' /\ AtMostMaxBoards'
  BY <1>1, <1>2 DEF ServerInv, ServerTypeOK, AtMostMaxBoards
<1>4. NoOrphans'
  BY <1>1, <1>2, BoardsAssumption DEF ServerInv, NoOrphans
<1>5. ASSUME NEW d \in Callers, req[d].pc # "idle"
      PROVE  Spares(d)
  <2>1. req[d].listed[w] = None
    BY <1>5 DEF AddWidget
  <2>2. \A v \in Widgets : newest[v] >= newest[v]
    BY <1>1, BoardsAssumption
  <2>3. Cardinality(BoardRows') <= Cardinality(BoardRows)
    BY <1>2, FiniteBoards
  <2>4. QED
    BY <1>1, <2>1, <2>2, <2>3 DEF Spares
<1>6. ASSUME NEW d \in Callers
      PROVE  CallerInv(d)'
  <2>1. CASE req[d].pc = "idle"
    BY <1>1, <2>1 DEF CallerInv
  <2>2. CASE req[d].pc # "idle"
    <3>1. Cardinality(BoardRows) \in Nat /\ Cardinality(BoardRows') \in Nat
      BY <1>2, FiniteBoards
    <3>2. QED
      BY <1>1, <1>5, <2>2, <3>1, Undisturbed DEF ServerInv
  <2>3. QED
    BY <2>1, <2>2
<1>7. QED
  BY <1>3, <1>4, <1>6 DEF ServerInv

LEMMA RemoveWidgetKeeps ==
    ASSUME ServerInv, NEW w \in Widgets, RemoveWidget(w)
    PROVE  ServerInv'
<1>1. /\ on' = [on EXCEPT ![w] = None] /\ newest' = [newest EXCEPT ![w] = 0]
      /\ UNCHANGED <<owner, row, given, lock, req>>
      /\ on \in [Widgets -> BoardIds \union {None}] /\ newest \in [Widgets -> 0 .. MaxPolls]
  BY DEF RemoveWidget, ServerInv, ServerTypeOK
<1>2. 0 \in 0 .. MaxPolls
  BY BoardsAssumption
<1>3. UNCHANGED BoardRows
  BY <1>1 DEF BoardRows
<1>4. ServerTypeOK' /\ AtMostMaxBoards'
  BY <1>1, <1>2, <1>3 DEF ServerInv, ServerTypeOK, AtMostMaxBoards
<1>5. NoOrphans'
  BY <1>1, <1>3 DEF ServerInv, NoOrphans
<1>6. ASSUME NEW d \in Callers
      PROVE  Spares(d)
  <2>1. \A v \in Widgets : on'[v] = None \/ (on'[v] = on[v] /\ newest'[v] >= newest[v])
    BY <1>1, BoardsAssumption
  <2>2. Cardinality(BoardRows') <= Cardinality(BoardRows)
    BY <1>3, FiniteBoards
  <2>3. QED
    BY <1>1, <2>1, <2>2 DEF Spares
<1>7. QED
  BY <1>1, <1>4, <1>5, <1>6, ElsewhereKeepsIf

LEMMA PollKeeps ==
    ASSUME ServerInv, NEW w \in Widgets, Poll(w)
    PROVE  ServerInv'
<1>1. /\ newest' = [newest EXCEPT ![w] = newest[w] + 1] /\ on[w] # None
      /\ newest[w] < MaxPolls /\ UNCHANGED <<owner, row, given, on, lock, req>>
      /\ newest \in [Widgets -> 0 .. MaxPolls]
  BY DEF Poll, ServerInv, ServerTypeOK
<1>2. newest' \in [Widgets -> 0 .. MaxPolls]
  BY <1>1, BoardsAssumption
<1>3. UNCHANGED BoardRows
  BY <1>1 DEF BoardRows
<1>4. ServerTypeOK' /\ AtMostMaxBoards'
  BY <1>1, <1>2, <1>3 DEF ServerInv, ServerTypeOK, AtMostMaxBoards
<1>5. NoOrphans'
  BY <1>1, <1>3 DEF ServerInv, NoOrphans
<1>6. ASSUME NEW d \in Callers
      PROVE  Spares(d)
  <2>1. \A v \in Widgets : newest'[v] >= newest[v]
    BY <1>1, BoardsAssumption
  <2>2. Cardinality(BoardRows') <= Cardinality(BoardRows)
    BY <1>3, FiniteBoards
  <2>3. QED
    BY <1>1, <2>1, <2>2 DEF Spares
<1>7. QED
  BY <1>1, <1>4, <1>5, <1>6, ElsewhereKeepsIf

\* The routes, and what else touches the rows.
LEMMA ServerKeeps ==
    ASSUME ServerInv, (\E c \in Callers : Handle(c)) \/ Elsewhere
    PROVE  ServerInv'
<1>1. ASSUME NEW c \in Callers, Handle(c)
      PROVE  ServerInv'
  BY <1>1, AuthenticateKeeps, GateKeeps, ListKeeps, LockOwnerKeeps, CountBoardsKeeps,
     InsertKeeps, ListWidgetsKeeps, ReadLatestKeeps, UpdateKeeps, AnswerUpdateKeeps,
     CountWidgetsKeeps, DeleteRowKeeps DEF Handle
<1>2. CASE Elsewhere
  BY <1>2, DeleteOwnerKeeps, AddWidgetKeeps, RemoveWidgetKeeps, PollKeeps DEF Elsewhere
<1>3. QED
  BY <1>1, <1>2

-----------------------------------------------------------------------------
(* The pages *)

\* A page is of a board that was given, its two modals are over such a page, and
\* the tab awaits something exactly while its request is on the way.
TabInv(c) ==
    /\ Free(c) <=> req[c].pc = "idle"
    /\ OnBoard(c) => tab[c].page \in given
    /\ tab[c].modal \in {"settings", "delete"} => OnBoard(c)

FormsInv ==
    /\ ServerInv
    /\ tab \in [Tabs -> Tab] /\ forms \in 0 .. MaxForms
    /\ \A c \in Tabs : TabInv(c)

\* What clients send: a body of the contract, and a board they have heard of.
Sendable(op, b, body) ==
    /\ op \in Ops /\ b \in BoardIds \union {None} /\ body \in Settings \union Patches \union {None}
    /\ op \in {"read", "update", "delete"} => b \in given
    /\ op = "update" => body \in Patches
    /\ op = "create" => body \in Settings

\* The routes do not mind that a client sends, or drops, a request of its own.
LEMMA SendKeeps ==
    ASSUME ServerInv, NEW c \in Callers, NEW op, NEW b, NEW body, Sendable(op, b, body),
           req' = [req EXCEPT ![c] = Call(op, b, body)],
           UNCHANGED <<owner, row, given, on, newest, lock>>
    PROVE  ServerInv' /\ req'[c].pc = "sent"
<1> DEFINE r == Call(op, b, body)
<1>1. r \in Request /\ r.op = op /\ r.board = b /\ r.body = body /\ r.pc = "sent"
  BY CallType DEF Sendable
<1>2. req' \in [Callers -> {Idle} \union Request] /\ req'[c] = r
      /\ \A d \in Callers \ {c} : req'[d] = req[d]
  BY <1>1 DEF ServerInv, ServerTypeOK
<1>3. CallerInv(c)'
  BY <1>1, <1>2 DEF Sendable, CallerInv, RequestIsKnown, CountStands, GoneIsGone, ReadKeepsUp, At
<1>4. QED
  BY <1>1, <1>2, <1>3, QuietStepKeeps

LEMMA DoneKeeps ==
    ASSUME ServerInv, NEW c \in Callers, Done(c), UNCHANGED <<owner, row, given, on, newest, lock>>
    PROVE  ServerInv' /\ req'[c].pc = "idle"
<1>1. req' \in [Callers -> {Idle} \union Request] /\ req'[c] = Idle
      /\ \A d \in Callers \ {c} : req'[d] = req[d]
  BY DEF ServerInv, ServerTypeOK, Done
<1>2. Idle.pc = "idle"
  BY DEF Idle
<1>3. CallerInv(c)'
  BY <1>1, <1>2 DEF CallerInv
<1>4. QED
  BY <1>1, <1>2, <1>3, QuietStepKeeps

\* The load of the list or of a known board is one of these requests.
LEMMA LoadIsSendable ==
    ASSUME NEW page, page = "boards" \/ page \in given, given \subseteq BoardIds
    PROVE  \E op, b : LoadOf(page) = Call(op, b, None) /\ Sendable(op, b, None)
<1>1. CASE page = "boards"
  BY <1>1 DEF LoadOf, Sendable, Ops
<1>2. CASE page # "boards"
  BY <1>2 DEF LoadOf, Sendable, Ops
<1>3. QED
  BY <1>1, <1>2

\* A step of one tab.
LEMMA TabStepKeeps ==
    ASSUME FormsInv, NEW c \in Tabs, ServerInv', forms' \in 0 .. MaxForms, given \subseteq given',
           NEW t \in Tab, tab' = [tab EXCEPT ![c] = t],
           \A d \in Tabs \ {c} : req'[d] = req[d], TabInv(c)'
    PROVE  FormsInv'
<1>1. tab' \in [Tabs -> Tab] /\ \A d \in Tabs \ {c} : tab'[d] = tab[d]
  BY DEF FormsInv
<1>2. \A d \in Tabs \ {c} : TabInv(d)'
  BY <1>1 DEF FormsInv, TabInv, Free, OnBoard
<1>3. QED
  BY <1>1, <1>2 DEF FormsInv

\* A step that no tab sees: at most more boards, and no request begun or ended.
LEMMA UnseenKeeps ==
    ASSUME FormsInv, ServerInv', UNCHANGED tab, forms' \in 0 .. MaxForms, given \subseteq given',
           \A d \in Tabs : req'[d].pc = "idle" <=> req[d].pc = "idle"
    PROVE  FormsInv'
BY DEF FormsInv, TabInv, Free, OnBoard

\* A handler neither begins nor ends a request, and ids stay given.
LEMMA HandleGoesOn ==
    ASSUME ServerInv, NEW c \in Callers, Handle(c), NEW d \in Callers
    PROVE  given \subseteq given' /\ (req'[d].pc = "idle" <=> req[d].pc = "idle")
<1>1. req[c].pc # "idle"
  BY DEF Handle, Authenticate, Gate, List, LockOwner, CountBoards, Insert, ListWidgets,
         ReadLatest, Update, AnswerUpdate, CountWidgets, DeleteRow, At
<1>2. req[c] \in Request /\ req \in [Callers -> {Idle} \union Request]
  BY <1>1, NotIdle DEF ServerInv, ServerTypeOK
<1>3. given \subseteq given'
  BY DEF Handle, Authenticate, Gate, List, LockOwner, CountBoards, Insert, ListWidgets,
         ReadLatest, Update, AnswerUpdate, CountWidgets, DeleteRow
<1>4. CASE d # c
  BY <1>2, <1>4 DEF Handle, Authenticate, Gate, List, LockOwner, CountBoards, Insert, ListWidgets,
         ReadLatest, Update, AnswerUpdate, CountWidgets, DeleteRow, Goes
<1>5. CASE d = c
  <2>1. ASSUME NEW pc \in Steps \union Answers, Goes(c, pc)
        PROVE  req'[c].pc # "idle"
    BY <1>1, <2>1, GoesType, RequestIsNotIdle DEF ServerInv
  <2>2. CASE Authenticate(c) \/ Gate(c) \/ LockOwner(c) \/ CountBoards(c) \/ AnswerUpdate(c)
             \/ DeleteRow(c)
    BY <2>1, <2>2, <1>5, <1>1 DEF Authenticate, Gate, LockOwner, CountBoards, AnswerUpdate, DeleteRow,
         Steps, Answers
  <2>3. CASE List(c) \/ ListWidgets(c) \/ ReadLatest(c) \/ CountWidgets(c)
    BY <2>3, <1>5, <1>1, <1>2 DEF List, ListWidgets, ReadLatest, CountWidgets, Request
  <2>4. CASE Insert(c) \/ Update(c)
    BY <2>1, <2>4, <1>5, <1>1, <1>2 DEF Insert, Update, Request, Steps, Answers
  <2>5. QED
    BY <2>2, <2>3, <2>4 DEF Handle
<1>6. QED
  BY <1>3, <1>4, <1>5

\* What a step of a tab starts from.
LEMMA TabFacts ==
    ASSUME FormsInv, NEW c \in Tabs
    PROVE  /\ c \in Callers /\ ServerInv /\ tab[c] \in Tab /\ TabInv(c)
           /\ req \in [Callers -> {Idle} \union Request] /\ given \subseteq BoardIds
           /\ forms \in 0 .. MaxForms /\ tab \in [Tabs -> Tab]
BY FormsAssumption DEF FormsInv, ServerInv, ServerTypeOK

\* A tab that asks for a page it may know of.
LEMMA AsksKeeps ==
    ASSUME FormsInv, NEW c \in Tabs, NEW page, page = "boards" \/ page \in given,
           NEW awaits \in {"load", "reload"}, Asks(c, LoadOf(page), awaits),
           UNCHANGED <<owner, row, given, on, newest, lock, forms>>
    PROVE  FormsInv'
<1> DEFINE t == [tab[c] EXCEPT !.awaits = awaits]
<1>1. /\ c \in Callers /\ ServerInv /\ tab[c] \in Tab /\ TabInv(c)
      /\ req \in [Callers -> {Idle} \union Request] /\ given \subseteq BoardIds
      /\ forms \in 0 .. MaxForms /\ tab \in [Tabs -> Tab]
  BY TabFacts
<1>2. PICK op, b : LoadOf(page) = Call(op, b, None) /\ Sendable(op, b, None)
  BY <1>1, LoadIsSendable
<1>3. req' = [req EXCEPT ![c] = Call(op, b, None)] /\ tab' = [tab EXCEPT ![c].awaits = awaits]
  BY <1>2 DEF Asks
<1>4. ServerInv' /\ req'[c].pc = "sent"
  BY <1>1, <1>2, <1>3, SendKeeps
<1>5. t \in Tab /\ t.page = tab[c].page /\ t.modal = tab[c].modal /\ t.awaits = awaits
  BY <1>1 DEF Tab
<1>6. tab' = [tab EXCEPT ![c] = t] /\ tab'[c] = t
  BY <1>1, <1>3
<1>7. TabInv(c)'
  BY <1>1, <1>4, <1>5, <1>6 DEF TabInv, Free, OnBoard
<1>8. \A d \in Tabs \ {c} : req'[d] = req[d]
  BY <1>1, <1>3, FormsAssumption
<1>9. QED
  BY <1>1, <1>4, <1>5, <1>6, <1>7, <1>8, TabStepKeeps

LEMMA LoadKeeps ==
    ASSUME FormsInv, NEW c \in Tabs, Load(c)
    PROVE  FormsInv'
BY TabFacts, AsksKeeps DEF Load, TabInv

LEMMA OpenBoardKeeps ==
    ASSUME FormsInv, NEW c \in Tabs, NEW b \in BoardIds, OpenBoard(c, b)
    PROVE  FormsInv'
<1>1. b # "boards" /\ b \in given
  BY FormsAssumption DEF OpenBoard
<1>2. LoadOf(b) = Call("read", b, None)
  BY <1>1 DEF LoadOf
<1>3. QED
  BY <1>1, <1>2, AsksKeeps DEF OpenBoard

\* A step of a tab that asks for nothing and stays where it is.
LEMMA ModalStepKeeps ==
    ASSUME FormsInv, NEW c \in Tabs, NEW t \in Tab, tab' = [tab EXCEPT ![c] = t],
           t.page = tab[c].page, t.awaits = tab[c].awaits,
           t.modal \in {"settings", "delete"} => OnBoard(c),
           UNCHANGED <<owner, row, given, on, newest, lock, req, forms>>
    PROVE  FormsInv'
<1>1. TabInv(c) /\ forms \in 0 .. MaxForms /\ tab \in [Tabs -> Tab]
  BY TabFacts
<1>2. ServerInv'
  BY DEF FormsInv, ServerInv, ServerTypeOK, BoardRows, AtMostMaxBoards, NoOrphans, CallerInv,
         RequestIsKnown, CountStands, GoneIsGone, ReadKeepsUp, At
<1>3. TabInv(c)'
  BY <1>1 DEF TabInv, Free, OnBoard
<1>4. QED
  BY <1>1, <1>2, <1>3, TabStepKeeps

LEMMA OpenModalKeeps ==
    ASSUME FormsInv, NEW c \in Tabs, NEW m \in Modals, OpenModal(c, m)
    PROVE  FormsInv'
<1> DEFINE t == [tab[c] EXCEPT !.modal = m, !.note = "none",
                               !.again = @ \/ tab[c].awaits \in {"form", "reload"}]
<1>1. tab[c] \in Tab /\ tab \in [Tabs -> Tab]
  BY TabFacts
<1>2. (tab[c].again \/ tab[c].awaits \in {"form", "reload"}) \in BOOLEAN
  OBVIOUS
<1>3. t \in Tab /\ t.page = tab[c].page /\ t.awaits = tab[c].awaits /\ t.modal = m
  BY <1>1, <1>2 DEF Tab
<1>4. tab' = [tab EXCEPT ![c] = t]
  BY <1>1 DEF OpenModal
<1>5. m \in {"settings", "delete"} => OnBoard(c)
  BY DEF OpenModal, CanOpen
<1>6. QED
  BY <1>3, <1>4, <1>5, ModalStepKeeps DEF OpenModal

LEMMA CloseModalKeeps ==
    ASSUME FormsInv, NEW c \in Tabs, CloseModal(c)
    PROVE  FormsInv'
<1> DEFINE t == [tab[c] EXCEPT !.modal = "closed", !.note = "none"]
<1>1. tab[c] \in Tab /\ tab \in [Tabs -> Tab]
  BY TabFacts
<1>2. t \in Tab /\ t.page = tab[c].page /\ t.awaits = tab[c].awaits /\ t.modal = "closed"
  BY <1>1 DEF Tab, Modals
<1>3. tab' = [tab EXCEPT ![c] = t]
  BY <1>1 DEF CloseModal
<1>4. QED
  BY <1>2, <1>3, ModalStepKeeps DEF CloseModal

\* The form in front of the tab is about the board in front of the tab.
LEMMA SubmitKeeps ==
    ASSUME FormsInv, NEW c \in Tabs, Submit(c)
    PROVE  FormsInv'
<1> DEFINE op == FormOf(tab[c].modal)
           b == IF op = "create" THEN None ELSE tab[c].page
           t == [tab[c] EXCEPT !.awaits = "form", !.again = FALSE]
<1>1. /\ c \in Callers /\ ServerInv /\ tab[c] \in Tab /\ TabInv(c)
      /\ req \in [Callers -> {Idle} \union Request] /\ given \subseteq BoardIds
      /\ forms \in 0 .. MaxForms /\ tab \in [Tabs -> Tab]
  BY TabFacts
<1>2. PICK body \in IF op = "delete" THEN {None} ELSE Settings :
          req' = [req EXCEPT ![c] = Call(op, b, body)]
  BY DEF Submit
<1>3. op \in {"create", "update", "delete"} /\ (op # "create" => b \in given)
  BY <1>1 DEF Submit, FormOf, Tab, Modals, TabInv
<1>4. op # "delete" => body \in Settings /\ body \in Patches
  BY <1>2, <1>3, SettingsArePatches
<1>5. Sendable(op, b, body)
  BY <1>1, <1>2, <1>3, <1>4 DEF Sendable, Ops
<1>6. ServerInv' /\ req'[c].pc = "sent"
  BY <1>1, <1>2, <1>5, SendKeeps DEF Submit
<1>7. t \in Tab /\ t.page = tab[c].page /\ t.modal = tab[c].modal /\ t.awaits = "form"
  BY <1>1 DEF Tab
<1>8. tab' = [tab EXCEPT ![c] = t] /\ tab'[c] = t
  BY <1>1 DEF Submit
<1>9. TabInv(c)' /\ given' = given
  BY <1>1, <1>6, <1>7, <1>8 DEF TabInv, Free, OnBoard, Submit
<1>10. \A d \in Tabs \ {c} : req'[d] = req[d]
  BY <1>1, <1>2, FormsAssumption
<1>11. forms' \in 0 .. MaxForms
  BY <1>1, FormsAssumption DEF Submit
<1>12. QED
  BY <1>6, <1>7, <1>8, <1>9, <1>10, <1>11, TabStepKeeps

\* An answer that asks for nothing more frees the tab.
LEMMA FreesKeeps ==
    ASSUME FormsInv, NEW c \in Tabs, Done(c), NEW t \in Tab, tab' = [tab EXCEPT ![c] = t],
           t.awaits = "nothing", t.page \in BoardIds => t.page \in given,
           t.modal \in {"settings", "delete"} => t.page \in BoardIds,
           UNCHANGED <<owner, row, given, on, newest, lock, forms>>
    PROVE  FormsInv'
<1>1. /\ c \in Callers /\ ServerInv /\ req \in [Callers -> {Idle} \union Request]
      /\ forms \in 0 .. MaxForms /\ tab \in [Tabs -> Tab]
  BY TabFacts
<1>2. ServerInv' /\ req'[c].pc = "idle"
  BY <1>1, DoneKeeps
<1>3. TabInv(c)'
  BY <1>1, <1>2 DEF TabInv, Free, OnBoard
<1>4. \A d \in Tabs \ {c} : req'[d] = req[d]
  BY <1>1, FormsAssumption DEF Done
<1>5. QED
  BY <1>1, <1>2, <1>3, <1>4, TabStepKeeps

LEMMA ShowsKeeps ==
    ASSUME FormsInv, NEW c \in Tabs, Done(c),
           NEW page \in {"boards", "signin", "missing", "error"} \union given,
           NEW list \in {"none", "empty", "room", "full", "failed"}, Shows(c, page, list),
           UNCHANGED <<owner, row, given, on, newest, lock, forms>>
    PROVE  FormsInv'
<1> DEFINE t == [page |-> page, list |-> list, modal |-> "closed", note |-> "none",
                 again |-> FALSE, awaits |-> "nothing"]
<1>1. given \subseteq BoardIds
  BY TabFacts
<1>2. t \in Tab
  BY <1>1 DEF Tab, Modals
<1>3. tab' = [tab EXCEPT ![c] = t]
  BY DEF Shows
<1>4. t.page \in BoardIds => t.page \in given
  BY FormsAssumption
<1>5. QED
  BY <1>2, <1>3, <1>4, FreesKeeps

LEMMA StaysKeeps ==
    ASSUME FormsInv, NEW c \in Tabs, Done(c),
           NEW list \in {"none", "empty", "room", "full", "failed"}, Stays(c, list),
           UNCHANGED <<owner, row, given, on, newest, lock, forms>>
    PROVE  FormsInv'
<1>1. tab[c] \in Tab /\ tab \in [Tabs -> Tab] /\ TabInv(c)
  BY TabFacts
<1> DEFINE m == IF tab[c].awaits = "reload" /\ tab[c].modal = "settings" THEN "closed"
                ELSE tab[c].modal
           n == IF tab[c].awaits = "reload" /\ tab[c].modal = "settings" THEN "none"
                ELSE tab[c].note
           t == [tab[c] EXCEPT !.list = list, !.awaits = "nothing", !.again = FALSE,
                               !.modal = m, !.note = n]
<1>2. m \in Modals /\ n \in {"none", "own", "other"}
  BY <1>1 DEF Tab, Modals
<1>3. t \in Tab /\ t.page = tab[c].page /\ t.awaits = "nothing" /\ t.modal = m
  BY <1>1, <1>2, ZenonT(60) DEF Tab
<1>4. tab' = [tab EXCEPT ![c] = t]
  BY <1>1 DEF Stays
<1>5. (m \in {"settings", "delete"} => OnBoard(c)) /\ (OnBoard(c) => tab[c].page \in given)
  BY <1>1 DEF TabInv
<1>6. QED
  BY <1>3, <1>4, <1>5, FreesKeeps DEF OnBoard

LEMMA RefusedKeeps ==
    ASSUME FormsInv, NEW c \in Tabs, Done(c), Refused(c),
           UNCHANGED <<owner, row, given, on, newest, lock, forms>>
    PROVE  FormsInv'
<1>1. tab[c] \in Tab /\ tab \in [Tabs -> Tab] /\ TabInv(c)
  BY TabFacts
<1> DEFINE n == IF FormOf(tab[c].modal) # req[c].op THEN tab[c].note
                ELSE IF tab[c].again THEN "other" ELSE "own"
           t == [tab[c] EXCEPT !.awaits = "nothing", !.again = FALSE, !.note = n]
<1>2. n \in {"none", "own", "other"}
  BY <1>1 DEF Tab
<1>3. t \in Tab /\ t.page = tab[c].page /\ t.awaits = "nothing" /\ t.modal = tab[c].modal
  BY <1>1, <1>2 DEF Tab
<1>4. tab' = [tab EXCEPT ![c] = t]
  BY <1>1 DEF Refused
<1>5. QED
  BY <1>1, <1>3, <1>4, FreesKeeps DEF TabInv, OnBoard

LEMMA ListArrivesKeeps ==
    ASSUME FormsInv, NEW c \in Tabs, ListArrives(c)
    PROVE  FormsInv'
<1> DEFINE list == IF req[c].pc = "ok" THEN ListState(req[c].count) ELSE "failed"
<1>1. list \in {"none", "empty", "room", "full", "failed"}
  BY DEF ListState
<1>2. Done(c) /\ UNCHANGED <<owner, row, given, on, newest, lock, forms>>
      /\ (Shows(c, "signin", "none") \/ Stays(c, list) \/ Shows(c, "boards", list))
  BY DEF ListArrives
<1>3. QED
  BY <1>1, <1>2, ShowsKeeps, StaysKeeps

LEMMA BoardArrivesKeeps ==
    ASSUME FormsInv, NEW c \in Tabs, BoardArrives(c)
    PROVE  FormsInv'
<1>1. req[c].board \in given
  <2>1. c \in Callers /\ ServerInv
    BY TabFacts
  <2>2. req[c].pc # "idle" /\ req[c].op = "read"
    BY DEF BoardArrives, Answered, Answers
  <2>3. QED
    BY <2>1, <2>2 DEF ServerInv, CallerInv, RequestIsKnown
<1>2. QED
  BY <1>1, ShowsKeeps, StaysKeeps DEF BoardArrives

\* The board to load after a form is the one it was about, or just created.
LEMMA FormArrivesKeeps ==
    ASSUME FormsInv, NEW c \in Tabs, FormArrives(c)
    PROVE  FormsInv'
<1> DEFINE op == req[c].op
           succeeded == req[c].pc = "ok" \/ (op = "delete" /\ req[c].pc = "missing")
<1>1. CallerInv(c) /\ req[c].pc # "idle" /\ op \in {"create", "update", "delete"}
      /\ UNCHANGED <<owner, row, given, on, newest, lock, forms>>
  BY TabFacts DEF FormArrives, Answered, Answers, ServerInv
<1>2. CASE req[c].pc = "unauthenticated"
  BY <1>1, <1>2, ShowsKeeps DEF FormArrives
<1>3. CASE req[c].pc # "unauthenticated" /\ ~succeeded
  BY <1>1, <1>3, RefusedKeeps DEF FormArrives
<1>4. CASE req[c].pc # "unauthenticated" /\ succeeded
  <2>1. Asks(c, LoadOf(IF op = "delete" THEN "boards" ELSE req[c].board), "reload")
    BY <1>1, <1>4 DEF FormArrives
  <2>2. op # "delete" => req[c].board \in given
    BY <1>1, <1>4 DEF CallerInv, RequestIsKnown, At
  <2>3. QED
    BY <1>1, <2>1, <2>2, AsksKeeps
<1>5. QED
  BY <1>2, <1>3, <1>4

-----------------------------------------------------------------------------
(* Every step *)

LEMMA FormsInitInv == FormsInit => FormsInv
<1> SUFFICES ASSUME FormsInit
             PROVE  FormsInv
  OBVIOUS
<1>1. 0 \in 0 .. MaxPolls /\ 0 \in 0 .. MaxForms /\ Idle.pc = "idle"
  BY BoardsAssumption, FormsAssumption DEF Idle
<1>2. ServerTypeOK
  BY <1>1 DEF FormsInit, ServerInit, ServerTypeOK, BoardRows
<1>3. AtMostMaxBoards /\ NoOrphans
  BY DEF FormsInit, ServerInit, AtMostMaxBoards, NoOrphans
<1>4. \A c \in Callers : req[c].pc = "idle"
  BY <1>1 DEF FormsInit, ServerInit
<1>5. tab \in [Tabs -> Tab]
  BY DEF FormsInit, Tab, Modals
<1>6. \A c \in Tabs : TabInv(c)
  BY <1>4, FormsAssumption DEF FormsInit, TabInv, Free, OnBoard
<1>7. QED
  BY <1>1, <1>2, <1>3, <1>4, <1>5, <1>6 DEF FormsInv, ServerInv, CallerInv, FormsInit

LEMMA SendOfAnotherKeeps ==
    ASSUME FormsInv, NEW c \in Callers \ Tabs, Send(c)
    PROVE  FormsInv'
<1>1. /\ ServerInv /\ req \in [Callers -> {Idle} \union Request] /\ given \subseteq BoardIds
      /\ forms \in 0 .. MaxForms
  BY DEF FormsInv, ServerInv, ServerTypeOK
<1>2. PICK op, b, body : Sendable(op, b, body) /\ req' = [req EXCEPT ![c] = Call(op, b, body)]
  BY <1>1 DEF Send, Sendable, Ops
<1>3. ServerInv' /\ UNCHANGED <<tab, given>>
  BY <1>1, <1>2, SendKeeps DEF Send
<1>4. forms' \in 0 .. MaxForms
  BY <1>1, FormsAssumption DEF Send
<1>5. \A d \in Tabs : req'[d] = req[d]
  BY <1>1, <1>2, FormsAssumption
<1>6. QED
  BY <1>3, <1>4, <1>5, UnseenKeeps

LEMMA EndsKeeps ==
    ASSUME FormsInv, NEW c \in Callers \ Tabs, Ends(c)
    PROVE  FormsInv'
<1>1. ServerInv /\ req \in [Callers -> {Idle} \union Request] /\ forms \in 0 .. MaxForms
  BY DEF FormsInv, ServerInv, ServerTypeOK
<1>2. ServerInv' /\ UNCHANGED <<tab, given, forms>>
  BY <1>1, DoneKeeps DEF Ends
<1>3. \A d \in Tabs : req'[d] = req[d]
  BY <1>1, FormsAssumption DEF Ends, Done
<1>4. QED
  BY <1>1, <1>2, <1>3, UnseenKeeps

LEMMA FormsNextInv == FormsInv /\ [Next]_vars => FormsInv'
<1> SUFFICES ASSUME FormsInv, [Next]_vars
             PROVE  FormsInv'
  OBVIOUS
<1>1. ASSUME NEW c \in Tabs, User(c)
      PROVE  FormsInv'
  BY <1>1, LoadKeeps, SubmitKeeps, CloseModalKeeps, OpenBoardKeeps, OpenModalKeeps DEF User
<1>2. ASSUME NEW c \in Tabs, Arrives(c)
      PROVE  FormsInv'
  BY <1>2, ListArrivesKeeps, BoardArrivesKeeps, FormArrivesKeeps DEF Arrives
<1>3. ASSUME NEW c \in Callers \ Tabs, Send(c) \/ Ends(c)
      PROVE  FormsInv'
  BY <1>3, SendOfAnotherKeeps, EndsKeeps
<1>4. ASSUME NEW c \in Callers, Handle(c), UNCHANGED <<tab, forms>>
      PROVE  FormsInv'
  <2>1. ServerInv /\ ServerInv' /\ forms' \in 0 .. MaxForms
    BY <1>4, ServerKeeps DEF FormsInv
  <2>2. given \subseteq given' /\ \A d \in Tabs : req'[d].pc = "idle" <=> req[d].pc = "idle"
    BY <1>4, <2>1, HandleGoesOn, FormsAssumption
  <2>3. QED
    BY <1>4, <2>1, <2>2, UnseenKeeps
<1>5. CASE Elsewhere /\ UNCHANGED <<tab, forms>>
  <2>1. ServerInv' /\ forms' \in 0 .. MaxForms
    BY <1>5, ServerKeeps DEF FormsInv
  <2>2. UNCHANGED <<given, req>>
    BY <1>5 DEF Elsewhere, DeleteOwner, RemoveWidget, Poll, AddWidget
  <2>3. QED
    BY <1>5, <2>1, <2>2, UnseenKeeps
<1>6. CASE UNCHANGED vars
  <2>1. ServerInv'
    BY <1>6 DEF vars, FormsInv, ServerInv, ServerTypeOK, BoardRows, AtMostMaxBoards, NoOrphans,
        CallerInv, RequestIsKnown, CountStands, GoneIsGone, ReadKeepsUp, At
  <2>2. QED
    BY <1>6, <2>1, UnseenKeeps DEF vars, FormsInv
<1>7. QED
  BY <1>1, <1>2, <1>3, <1>4, <1>5, <1>6 DEF Next

\* The cap holds for every number of clients although each create counts before
\* it inserts, and no row outlives the row it belongs to, whatever was in flight
\* when that went (boards.ts:149-188, 372-405).
THEOREM BoardsAreSound == Spec => []BoardsSound
<1>1. FormsInv => BoardsSound
  BY DEF FormsInv, ServerInv, TabInv, BoardsSound, TypeOK
<1>2. QED
  BY <1>1, FormsInitInv, FormsNextInv, PTL DEF Spec

\* A board read in two queries never shows a widget older than when it was listed.
THEOREM ReadsKeepUp == Spec => []LatestAsListed
<1>1. FormsInv => LatestAsListed
  <2> SUFFICES ASSUME FormsInv, NEW c \in Callers, At(c, "read", "ok"), NEW w \in Widgets,
                      req[c].listed[w] # None, on[w] = req[c].board
               PROVE  req[c].latest[w] >= req[c].listed[w]
    BY DEF LatestAsListed
  <2>1. CallerInv(c) /\ req[c].pc # "idle"
    BY DEF FormsInv, ServerInv, At
  <2>2. QED
    BY <2>1 DEF CallerInv, ReadKeepsUp
<1>2. QED
  BY <1>1, FormsInitInv, FormsNextInv, PTL DEF Spec

\* A 500 means that the board, or its user, went while the request ran: a board
\* that is gone stays gone, and no body of the contract breaks the table's check.
THEOREM FailuresMeanGone == Spec => []FailedMeansGone
<1>1. FormsInv => FailedMeansGone
  <2> SUFFICES ASSUME FormsInv, NEW c \in Callers
               PROVE  /\ At(c, "update", "failed") => row[req[c].board] = None
                      /\ At(c, "create", "failed") => ~owner
    BY DEF FailedMeansGone
  <2>1. CallerInv(c)
    BY DEF FormsInv, ServerInv
  <2>2. QED
    BY <2>1 DEF CallerInv, GoneIsGone, At
<1>2. QED
  BY <1>1, FormsInitInv, FormsNextInv, PTL DEF Spec
=============================================================================
