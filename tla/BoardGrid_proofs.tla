--------------------------- MODULE BoardGrid_proofs ---------------------------
(***************************************************************************)
(* What BoardGrid's properties rest on, for any number of requests,        *)
(* widgets, columns and rows.  The lock on the board row makes the holder  *)
(* the only request of the board between its check and its write; what the *)
(* check found is therefore still true when the write happens.  What the   *)
(* gate found is not, and nothing below relies on it but the columns: a    *)
(* rectangle that fitted then fits now.                                    *)
(***************************************************************************)
EXTENDS BoardGrid, FiniteSetTheorems, TLAPS

-----------------------------------------------------------------------------
(* Rectangles *)

LEMMA RectType ==
    ASSUME NEW a \in Rect
    PROVE  /\ a.col \in Int /\ a.row \in Int
           /\ a.width \in Int /\ a.height \in Int
           /\ a.width >= 1 /\ a.height >= 1
<1>1. /\ a.col \in 0 .. GridColumns - 1 /\ a.row \in GridRows
      /\ a.width \in 1 .. MaxSpan /\ a.height \in 1 .. MaxSpan
  BY DEF Rect
<1>2. a.row \in Nat
  BY <1>1, GridAssumption, Zenon
<1>3. GridColumns \in Nat /\ MaxSpan \in Nat
  BY GridAssumption
<1> QED
  BY <1>1, <1>2, <1>3

LEMMA NoRectIsNone == NoRect \notin Rect
    BY GridAssumption DEF Rect, NoRect

\* Merging two rectangles field by field gives a rectangle.
LEMMA MergedType ==
    ASSUME NEW a \in Rect, NEW b \in Rect, NEW sends
    PROVE  Merged(a, sends, b) \in Rect
    BY DEF Rect, Merged

\* The handlers' four comparisons say exactly that two rectangles share a grid
\* cell (widgets.ts, rectanglesOverlap).
THEOREM OverlapIsSharedCell ==
    \A a, b \in Rect : RectanglesOverlap(a, b) <=> ~Disjoint(a, b)
<1>1. SUFFICES ASSUME NEW a \in Rect, NEW b \in Rect
               PROVE  RectanglesOverlap(a, b) <=> ~Disjoint(a, b)
  OBVIOUS
<1> USE RectType
<1>2. ASSUME ~Disjoint(a, b) PROVE RectanglesOverlap(a, b)
  <2>1. PICK c \in Cells(a) : c \in Cells(b)
    BY <1>2 DEF Disjoint
  <2>2. PICK x \in a.col .. a.col + a.width - 1, y \in a.row .. a.row + a.height - 1 :
            c = <<x, y>>
    BY <2>1 DEF Cells
  <2>3. x \in b.col .. b.col + b.width - 1 /\ y \in b.row .. b.row + b.height - 1
    BY <2>1, <2>2 DEF Cells
  <2> QED
    BY <2>2, <2>3 DEF RectanglesOverlap
<1>3. ASSUME RectanglesOverlap(a, b) PROVE ~Disjoint(a, b)
  <2> DEFINE x == IF a.col > b.col THEN a.col ELSE b.col
             y == IF a.row > b.row THEN a.row ELSE b.row
  <2>1. x \in a.col .. a.col + a.width - 1 /\ x \in b.col .. b.col + b.width - 1
    BY <1>3 DEF RectanglesOverlap
  <2>2. y \in a.row .. a.row + a.height - 1 /\ y \in b.row .. b.row + b.height - 1
    BY <1>3 DEF RectanglesOverlap
  <2> HIDE DEF x, y
  <2>3. <<x, y>> \in Cells(a) /\ <<x, y>> \in Cells(b)
    BY <2>1, <2>2 DEF Cells
  <2> QED
    BY <2>3 DEF Disjoint
<1> QED
  BY <1>2, <1>3

-----------------------------------------------------------------------------
(* Types *)

LEMMA InitTypeOK == Init => TypeOK
    BY DEF Init, TypeOK, Idle

LEMMA RequestPhase ==
    ASSUME TypeOK, NEW r \in Requests, req[r].phase # "idle"
    PROVE  req[r] \in Request
    BY DEF TypeOK, Idle

LEMMA IdleIsOut ==
    ASSUME NEW r \in Requests, req[r] = Idle
    PROVE  ~InTransaction(r)
    BY DEF Idle, InTransaction

LEMMA NextTypeOK ==
    ASSUME TypeOK, [Next]_vars PROVE TypeOK'
<1> USE DEF TypeOK
<1>1. ASSUME NEW r \in Requests, NEW w \in Widgets, BeginCreate(r, w) PROVE TypeOK'
  <2>1. PICK to \in Rect : req' = [req EXCEPT ![r] = Gated("create", w, to, Side)]
    BY <1>1 DEF BeginCreate
  <2>2. Gated("create", w, to, Side) \in Request
    BY DEF Gated, Request
  <2>3. holder # r
    BY <1>1, IdleIsOut, GridAssumption DEF BeginCreate
  <2> QED
    BY <1>1, <2>1, <2>2, <2>3 DEF BeginCreate, InTransaction
<1>2. ASSUME NEW r \in Requests, NEW w \in Widgets, BeginPatch(r, w) PROVE TypeOK'
  <2>1. PICK sends \in Sends, to \in Rect :
            req' = [req EXCEPT ![r] =
                       Gated("patch", w, Merged(rect[w], sends, to), sends)]
    BY <1>2 DEF BeginPatch
  <2>2. rect[w] \in Rect
    BY <1>2 DEF BeginPatch, On
  <2>3. Gated("patch", w, Merged(rect[w], sends, to), sends) \in Request
    BY <2>2, MergedType, GridAssumption DEF Gated, Request
  <2>4. holder # r
    BY <1>2, IdleIsOut, GridAssumption DEF BeginPatch
  <2> QED
    BY <1>2, <2>1, <2>3, <2>4 DEF BeginPatch, InTransaction
<1>3. ASSUME NEW r \in Requests, NEW w \in Widgets, BeginDelete(r, w) PROVE TypeOK'
  <2>1. rect[w] \in Rect
    BY <1>3 DEF BeginDelete, On
  <2>2. Gated("delete", w, rect[w], {}) \in Request
    BY <2>1 DEF Gated, Request
  <2>3. holder # r
    BY <1>3, IdleIsOut, GridAssumption DEF BeginDelete
  <2> QED
    BY <1>3, <2>2, <2>3 DEF BeginDelete, InTransaction
<1>4. ASSUME NEW r \in Requests, Lock(r) PROVE TypeOK'
  <2>1. req[r] \in Request
    BY <1>4, RequestPhase DEF Lock
  <2>2. [req[r] EXCEPT !.phase = "locked"] \in Request
    BY <2>1 DEF Request
  <2>3. req' = [req EXCEPT ![r] = [req[r] EXCEPT !.phase = "locked"]]
    BY <1>4 DEF Lock
  <2>4. req'[r].phase = "locked"
    BY <2>1, <2>3 DEF Request
  <2> QED
    BY <1>4, <2>2, <2>3, <2>4 DEF Lock, CanLock, InTransaction
<1>5. ASSUME NEW r \in Requests, Check(r) PROVE TypeOK'
  <2>1. req[r] \in Request
    BY <1>5, RequestPhase DEF Check
  <2>2. [req[r] EXCEPT !.phase = "checked"] \in Request
    BY <2>1 DEF Request
  <2>3. req' = [req EXCEPT ![r] = [req[r] EXCEPT !.phase = "checked"]]
    BY <1>5 DEF Check
  <2>4. req'[r].phase = "checked"
    BY <2>1, <2>3 DEF Request
  <2> QED
    BY <1>5, <2>2, <2>3, <2>4 DEF Check, InTransaction
<1>6. ASSUME NEW r \in Requests, Refuse(r) PROVE TypeOK'
  BY <1>6 DEF Refuse, Released, InTransaction
<1>7. ASSUME NEW r \in Requests, Write(r) PROVE TypeOK'
  <2>1. req[r] \in Request
    BY <1>7, RequestPhase DEF Write
  <2>2. req[r].rect \in Rect
    BY <2>1 DEF Request
  <2>3. rect' \in [Widgets -> Rect \union {NoRect}]
    BY <1>7, <2>2 DEF Write, Written
  <2> QED
    BY <1>7, <2>3 DEF Write, Released, InTransaction
<1>8. ASSUME NEW r \in Requests, Abort(r) PROVE TypeOK'
  BY <1>8 DEF Abort, Released, InTransaction
<1>9. CASE DeleteBoard
  BY <1>9 DEF DeleteBoard, InTransaction
<1>10. CASE UNCHANGED vars
  BY <1>10 DEF vars, InTransaction
<1> QED
  BY <1>1, <1>2, <1>3, <1>4, <1>5, <1>6, <1>7, <1>8, <1>9, <1>10 DEF Next, Begin

\* The rows and the requests keep their shapes, and the lock on the board row is
\* never left behind by a request that has ended, however it ended.
THEOREM TypeCorrect == Spec => []TypeOK
    BY InitTypeOK, NextTypeOK, PTL DEF Spec

-----------------------------------------------------------------------------
(* What a step does to the requests *)

LEMMA Entered ==
    ASSUME TypeOK, NEW r \in Requests, NEW op, NEW w, NEW a, NEW sends,
           req' = [req EXCEPT ![r] = Gated(op, w, a, sends)]
    PROVE  /\ req'[r].phase = "gated" /\ req'[r].op = op /\ req'[r].widget = w
           /\ req'[r].rect = a /\ req'[r].sends = sends
           /\ \A s \in Requests \ {r} : req'[s] = req[s]
    BY DEF TypeOK, Gated

LEMMA Advanced ==
    ASSUME TypeOK, NEW r \in Requests, NEW phase, req[r].phase # "idle",
           req' = [req EXCEPT ![r].phase = phase]
    PROVE  /\ req'[r].phase = phase /\ req'[r].op = req[r].op
           /\ req'[r].widget = req[r].widget /\ req'[r].rect = req[r].rect
           /\ req'[r].sends = req[r].sends
           /\ \A s \in Requests \ {r} : req'[s] = req[s]
<1>1. req[r] \in Request
  BY RequestPhase
<1>2. req' = [req EXCEPT ![r] = [req[r] EXCEPT !.phase = phase]]
  OBVIOUS
<1> QED
  BY <1>1, <1>2 DEF TypeOK, Request

LEMMA Ended ==
    ASSUME TypeOK, NEW r \in Requests, req' = [req EXCEPT ![r] = Idle]
    PROVE  /\ req'[r].phase = "idle"
           /\ \A s \in Requests \ {r} : req'[s] = req[s]
    BY DEF TypeOK, Idle

-----------------------------------------------------------------------------
(* The board row's lock *)

\* While the board exists, only the lock's holder is in its transaction.
LockOwned == \A r \in Requests : board /\ InTransaction(r) => holder = r

\* A board that is gone has no widgets.
Cascaded == board \/ On = {}

LEMMA InitLock == Init => LockOwned /\ Cascaded
    BY DEF Init, LockOwned, Cascaded, InTransaction, Idle, On

LEMMA NextLock ==
    ASSUME TypeOK, LockOwned, Cascaded, [Next]_vars
    PROVE  LockOwned' /\ Cascaded'
<1> USE DEF LockOwned, Cascaded, InTransaction, On
<1>1. ASSUME NEW r \in Requests, NEW w \in Widgets, BeginCreate(r, w)
      PROVE  LockOwned' /\ Cascaded'
  <2>1. PICK to \in Rect : req' = [req EXCEPT ![r] = Gated("create", w, to, Side)]
    BY <1>1 DEF BeginCreate
  <2> QED
    BY <1>1, <2>1, Entered DEF BeginCreate
<1>2. ASSUME NEW r \in Requests, NEW w \in Widgets, BeginPatch(r, w)
      PROVE  LockOwned' /\ Cascaded'
  <2>1. PICK sends \in Sends, to \in Rect :
            req' = [req EXCEPT ![r] =
                       Gated("patch", w, Merged(rect[w], sends, to), sends)]
    BY <1>2 DEF BeginPatch
  <2> QED
    BY <1>2, <2>1, Entered DEF BeginPatch
<1>3. ASSUME NEW r \in Requests, NEW w \in Widgets, BeginDelete(r, w)
      PROVE  LockOwned' /\ Cascaded'
  BY <1>3, Entered, ZenonT(60) DEF BeginDelete
<1>4. ASSUME NEW r \in Requests, Lock(r) PROVE LockOwned' /\ Cascaded'
  BY <1>4, Advanced, GridAssumption DEF Lock, CanLock, TypeOK
<1>5. ASSUME NEW r \in Requests, Check(r) PROVE LockOwned' /\ Cascaded'
  BY <1>5, Advanced DEF Check
<1>6. ASSUME NEW r \in Requests, Refuse(r) PROVE LockOwned' /\ Cascaded'
  BY <1>6, Ended DEF Refuse, Released
<1>7. ASSUME NEW r \in Requests, Write(r) PROVE LockOwned' /\ Cascaded'
  BY <1>7, Ended DEF Write, Released
<1>8. ASSUME NEW r \in Requests, Abort(r) PROVE LockOwned' /\ Cascaded'
  BY <1>8, Ended DEF Abort, Released
<1>9. CASE DeleteBoard
  BY <1>9 DEF DeleteBoard
<1>10. CASE UNCHANGED vars
  BY <1>10 DEF vars
<1> QED
  BY <1>1, <1>2, <1>3, <1>4, <1>5, <1>6, <1>7, <1>8, <1>9, <1>10 DEF Next, Begin

LEMMA LockInvariant == Spec => [](TypeOK /\ LockOwned /\ Cascaded)
    BY InitTypeOK, NextTypeOK, InitLock, NextLock, PTL DEF Spec

-----------------------------------------------------------------------------
(* The columns *)

\* The rectangle a request carries from the gate fits too: it was checked, or
\* it is a row's.
CarriedFits == \A r \in Requests : req[r].phase # "idle" => Fits(req[r].rect)

LEMMA InitFits == Init => WithinGrid /\ CarriedFits
    BY DEF Init, WithinGrid, CarriedFits, On, Idle

LEMMA NextFits ==
    ASSUME TypeOK, WithinGrid, CarriedFits, [Next]_vars
    PROVE  WithinGrid' /\ CarriedFits'
<1> USE DEF WithinGrid, CarriedFits, On
<1>1. ASSUME NEW r \in Requests, NEW w \in Widgets, BeginCreate(r, w)
      PROVE  WithinGrid' /\ CarriedFits'
  <2>1. PICK to \in Rect :
            Fits(to) /\ req' = [req EXCEPT ![r] = Gated("create", w, to, Side)]
    BY <1>1 DEF BeginCreate
  <2>3. req'[r].rect = to /\ \A s \in Requests \ {r} : req'[s] = req[s]
    BY <2>1 DEF Gated, TypeOK
  <2>2. \A s \in Requests : req'[s].phase # "idle" => Fits(req'[s].rect)
    BY <2>1, <2>3 DEF Fits
  <2> QED
    BY <1>1, <2>2 DEF BeginCreate, Fits
<1>2. ASSUME NEW r \in Requests, NEW w \in Widgets, BeginPatch(r, w)
      PROVE  WithinGrid' /\ CarriedFits'
  <2>1. PICK sends \in Sends, to \in Rect :
            /\ sends # {} => Fits(Merged(rect[w], sends, to))
            /\ req' = [req EXCEPT ![r] =
                          Gated("patch", w, Merged(rect[w], sends, to), sends)]
    BY <1>2 DEF BeginPatch
  <2>2. Fits(Merged(rect[w], sends, to))
    <3>1. CASE sends = {}
      BY <1>2, <3>1 DEF Merged, Fits, BeginPatch
    <3> QED
      BY <2>1, <3>1
  <2>4. /\ req'[r].rect = Merged(rect[w], sends, to)
        /\ \A s \in Requests \ {r} : req'[s] = req[s]
    BY <2>1 DEF Gated, TypeOK
  <2>3. \A s \in Requests : req'[s].phase # "idle" => Fits(req'[s].rect)
    BY <2>2, <2>4 DEF Fits
  <2> QED
    BY <1>2, <2>3 DEF BeginPatch, Fits
<1>3. ASSUME NEW r \in Requests, NEW w \in Widgets, BeginDelete(r, w)
      PROVE  WithinGrid' /\ CarriedFits'
  <2>2. req'[r].rect = rect[w] /\ \A s \in Requests \ {r} : req'[s] = req[s]
    BY <1>3 DEF BeginDelete, Gated, TypeOK
  <2>1. \A s \in Requests : req'[s].phase # "idle" => Fits(req'[s].rect)
    BY <1>3, <2>2 DEF BeginDelete, Fits
  <2> QED
    BY <1>3, <2>1 DEF BeginDelete, Fits
<1>4. ASSUME NEW r \in Requests, Lock(r) PROVE WithinGrid' /\ CarriedFits'
  <2>1. \A s \in Requests : req'[s].phase # "idle" => Fits(req'[s].rect)
    BY <1>4, Advanced DEF Lock
  <2> QED
    BY <1>4, <2>1 DEF Lock, Fits
<1>5. ASSUME NEW r \in Requests, Check(r) PROVE WithinGrid' /\ CarriedFits'
  <2>1. \A s \in Requests : req'[s].phase # "idle" => Fits(req'[s].rect)
    BY <1>5, Advanced DEF Check
  <2> QED
    BY <1>5, <2>1 DEF Check, Fits
<1>6. ASSUME NEW r \in Requests, Refuse(r) PROVE WithinGrid' /\ CarriedFits'
  <2>1. \A s \in Requests : req'[s].phase # "idle" => Fits(req'[s].rect)
    BY <1>6, Ended DEF Refuse
  <2> QED
    BY <1>6, <2>1 DEF Refuse, Fits
<1>7. ASSUME NEW r \in Requests, Write(r) PROVE WithinGrid' /\ CarriedFits'
  <2>1. \A s \in Requests : req'[s].phase # "idle" => Fits(req'[s].rect)
    BY <1>7, Ended DEF Write
  <2>2. \A w \in Widgets : rect'[w] # NoRect => Fits(rect'[w])
    BY <1>7 DEF Write, Written, TypeOK
  <2> QED
    BY <2>1, <2>2 DEF Fits
<1>8. ASSUME NEW r \in Requests, Abort(r) PROVE WithinGrid' /\ CarriedFits'
  <2>1. \A s \in Requests : req'[s].phase # "idle" => Fits(req'[s].rect)
    BY <1>8, Ended DEF Abort
  <2> QED
    BY <1>8, <2>1 DEF Abort, Fits
<1>9. CASE DeleteBoard
  BY <1>9 DEF DeleteBoard, Fits
<1>10. CASE UNCHANGED vars
  BY <1>10 DEF vars, Fits
<1> QED
  BY <1>1, <1>2, <1>3, <1>4, <1>5, <1>6, <1>7, <1>8, <1>9, <1>10 DEF Next, Begin

\* No interleaving of creates, drags, resizes and deletes puts a widget past the
\* last column.
THEOREM GridBounds == Spec => []WithinGrid
    BY LockInvariant, InitFits, NextFits, PTL DEF Spec

-----------------------------------------------------------------------------
(* What the check found still holds at the write *)

\* What a request sends follows from what it is.
SendsKnown ==
    \A r \in Requests : req[r].phase # "idle" =>
        /\ req[r].op = "create" => req[r].sends = Side
        /\ req[r].op = "patch"  => req[r].sends \in Sends
        /\ req[r].op = "delete" => req[r].sends = {}

LEMMA InitSends == Init => SendsKnown
    BY DEF Init, SendsKnown, Idle

LEMMA NextSends ==
    ASSUME TypeOK, SendsKnown, [Next]_vars PROVE SendsKnown'
<1> USE DEF SendsKnown
<1>1. ASSUME NEW r \in Requests, NEW w \in Widgets, BeginCreate(r, w) PROVE SendsKnown'
  BY <1>1 DEF BeginCreate, Gated, TypeOK
<1>2. ASSUME NEW r \in Requests, NEW w \in Widgets, BeginPatch(r, w) PROVE SendsKnown'
  BY <1>2 DEF BeginPatch, Gated, TypeOK
<1>3. ASSUME NEW r \in Requests, NEW w \in Widgets, BeginDelete(r, w) PROVE SendsKnown'
  BY <1>3 DEF BeginDelete, Gated, TypeOK
<1>4. ASSUME NEW r \in Requests, Lock(r) PROVE SendsKnown'
  BY <1>4, Advanced DEF Lock
<1>5. ASSUME NEW r \in Requests, Check(r) PROVE SendsKnown'
  BY <1>5, Advanced DEF Check
<1>6. ASSUME NEW r \in Requests, Refuse(r) \/ Write(r) \/ Abort(r) PROVE SendsKnown'
  BY <1>6, Ended DEF Refuse, Write, Abort
<1>7. CASE DeleteBoard \/ UNCHANGED vars
  BY <1>7 DEF DeleteBoard, vars
<1> QED
  BY <1>1, <1>2, <1>3, <1>4, <1>5, <1>6, <1>7 DEF Next, Begin

\* What a request past its check may count on.
CheckedOK(r) ==
    req[r].phase = "checked" =>
        /\ req[r].op # "create" => req[r].widget \in On
        /\ MovesOrResizes(r) => ClearOfSiblings(r)
        /\ req[r].op = "create" /\ board => Cardinality(On) < MaxWidgets

Checked == \A r \in Requests : CheckedOK(r)

LEMMA InitChecked == Init => Checked
    BY DEF Init, Checked, CheckedOK, Idle

\* A step that leaves the rows alone and does not take its request past the
\* check disturbs nobody.
LEMMA Undisturbed ==
    ASSUME Checked, NEW r \in Requests, rect' = rect, board' = board,
           req'[r].phase # "checked", \A s \in Requests \ {r} : req'[s] = req[s]
    PROVE  Checked'
    BY DEF Checked, CheckedOK, MovesOrResizes, ClearOfSiblings, On

LEMMA NextChecked ==
    ASSUME TypeOK, LockOwned, Cascaded, SendsKnown, Checked, [Next]_vars
    PROVE  Checked'
<1>1. ASSUME NEW r \in Requests, NEW w \in Widgets, BeginCreate(r, w) PROVE Checked'
  <2>1. req'[r].phase # "checked" /\ \A s \in Requests \ {r} : req'[s] = req[s]
    BY <1>1 DEF BeginCreate, Gated, TypeOK
  <2> QED
    BY <1>1, <2>1, Undisturbed DEF BeginCreate
<1>2. ASSUME NEW r \in Requests, NEW w \in Widgets, BeginPatch(r, w) PROVE Checked'
  <2>1. req'[r].phase # "checked" /\ \A s \in Requests \ {r} : req'[s] = req[s]
    BY <1>2 DEF BeginPatch, Gated, TypeOK
  <2> QED
    BY <1>2, <2>1, Undisturbed DEF BeginPatch
<1>3. ASSUME NEW r \in Requests, NEW w \in Widgets, BeginDelete(r, w) PROVE Checked'
  <2>1. req'[r].phase # "checked" /\ \A s \in Requests \ {r} : req'[s] = req[s]
    BY <1>3 DEF BeginDelete, Gated, TypeOK
  <2> QED
    BY <1>3, <2>1, Undisturbed DEF BeginDelete
<1>4. ASSUME NEW r \in Requests, Lock(r) PROVE Checked'
  <2>1. req'[r].phase # "checked" /\ \A s \in Requests \ {r} : req'[s] = req[s]
    BY <1>4, Advanced DEF Lock
  <2> QED
    BY <1>4, <2>1, Undisturbed DEF Lock
<1>5. ASSUME NEW r \in Requests, Check(r) PROVE Checked'
  <2>1. req[r] \in Request
    BY <1>5, RequestPhase DEF Check
  <2>2. /\ req[r].op # "create" => req[r].widget \in On
        /\ MovesOrResizes(r) => ClearOfSiblings(r)
        /\ req[r].op = "create" => Cardinality(On) < MaxWidgets
    BY <1>5, <2>1 DEF Check, Accepts, StillOwned, Request, SendsKnown, MovesOrResizes
  <2>3. /\ req'[r].op = req[r].op /\ req'[r].widget = req[r].widget
        /\ req'[r].rect = req[r].rect /\ req'[r].sends = req[r].sends
        /\ \A s \in Requests \ {r} : req'[s] = req[s]
    BY <1>5, Advanced DEF Check
  <2>4. CheckedOK(r)'
    BY <1>5, <2>2, <2>3 DEF Check, CheckedOK, MovesOrResizes, ClearOfSiblings, On
  <2>5. ASSUME NEW s \in Requests \ {r} PROVE CheckedOK(s)'
    BY <1>5, <2>3 DEF Check, Checked, CheckedOK, MovesOrResizes, ClearOfSiblings, On
  <2> QED
    BY <2>4, <2>5 DEF Checked
<1>6. ASSUME NEW r \in Requests, Refuse(r) \/ Abort(r) PROVE Checked'
  <2>1. req'[r].phase # "checked" /\ \A s \in Requests \ {r} : req'[s] = req[s]
    BY <1>6, Ended DEF Refuse, Abort
  <2> QED
    BY <1>6, <2>1, Undisturbed DEF Refuse, Abort
<1>7. ASSUME NEW r \in Requests, Write(r) PROVE Checked'
  <2>1. req'[r].phase # "checked" /\ \A s \in Requests \ {r} : req'[s] = req[s]
    BY <1>7, Ended DEF Write
  <2>2. CASE board
    <3>1. \A s \in Requests \ {r} : req[s].phase # "checked"
      BY <1>7, <2>2 DEF LockOwned, InTransaction, Write
    <3> QED
      BY <2>1, <3>1 DEF Checked, CheckedOK
  <2>3. CASE ~board
    BY <1>7, <2>1, <2>3, Undisturbed DEF Write
  <2> QED
    BY <2>2, <2>3
<1>8. CASE DeleteBoard
  <2>1. \A s \in Requests : req[s].phase # "checked"
    BY <1>8, GridAssumption DEF DeleteBoard, LockOwned, InTransaction
  <2> QED
    BY <1>8, <2>1 DEF DeleteBoard, Checked, CheckedOK
<1>9. CASE UNCHANGED vars
  BY <1>9 DEF vars, Checked, CheckedOK, MovesOrResizes, ClearOfSiblings, On
<1> QED
  BY <1>1, <1>2, <1>3, <1>4, <1>5, <1>6, <1>7, <1>8, <1>9 DEF Next, Begin

LEMMA CheckedInvariant ==
    Spec => [](TypeOK /\ LockOwned /\ Cascaded /\ SendsKnown /\ Checked)
    BY LockInvariant, InitSends, NextSends, InitChecked, NextChecked, PTL DEF Spec

\* The row a PATCH or DELETE writes is there when it writes it.
THEOREM CheckedRow == Spec => []CheckedRowIsThere
<1>1. Checked => CheckedRowIsThere
  BY DEF Checked, CheckedOK, CheckedRowIsThere
<1> QED
  BY <1>1, CheckedInvariant, PTL

-----------------------------------------------------------------------------
(* The cap *)

LEMMA InitCap == Init => AtMostCap
<1> SUFFICES ASSUME Init PROVE AtMostCap
  OBVIOUS
<1>1. On = {}
  BY DEF Init, On
<1> QED
  BY <1>1, FS_EmptySet, GridAssumption DEF AtMostCap

LEMMA NextCap ==
    ASSUME TypeOK, Checked, AtMostCap, [Next]_vars PROVE AtMostCap'
<1>1. IsFiniteSet(On) /\ Cardinality(On) \in Nat
  BY FS_Subset, FS_CardinalityType, GridAssumption DEF On
<1>2. MaxWidgets \in Nat
  BY GridAssumption
<1>3. ASSUME On' \subseteq On PROVE AtMostCap'
  <2>1. Cardinality(On') <= Cardinality(On) /\ Cardinality(On') \in Nat
    BY <1>1, <1>3, FS_Subset, FS_CardinalityType
  <2> QED
    BY <1>1, <1>2, <2>1 DEF AtMostCap
<1>4. ASSUME rect' = rect PROVE AtMostCap'
  BY <1>3, <1>4 DEF On
<1>5. ASSUME NEW r \in Requests, Write(r), board PROVE AtMostCap'
  <2>1. req[r] \in Request
    BY <1>5, RequestPhase DEF Write
  <2>2. CASE req[r].op = "create"
    <3>1. Cardinality(On) < MaxWidgets
      BY <1>5, <2>2 DEF Write, Checked, CheckedOK
    <3>2. /\ IsFiniteSet(On \union {req[r].widget})
          /\ Cardinality(On \union {req[r].widget}) <= Cardinality(On) + 1
      BY <1>1, FS_AddElement, SMTT(30)
    <3>3. On' \subseteq On \union {req[r].widget}
      BY <1>5 DEF Write, On, TypeOK
    <3>4. Cardinality(On') <= Cardinality(On \union {req[r].widget})
      BY <3>2, <3>3, FS_Subset
    <3>5. Cardinality(On') \in Nat /\ Cardinality(On \union {req[r].widget}) \in Nat
      BY <3>2, <3>3, FS_Subset, FS_CardinalityType
    <3> QED
      BY <1>1, <1>2, <3>1, <3>2, <3>4, <3>5 DEF AtMostCap
  <2>3. CASE req[r].op # "create"
    <3>1. req[r].widget \in On
      BY <1>5, <2>3 DEF Write, Checked, CheckedOK
    <3> QED
      BY <1>3, <1>5, <3>1 DEF Write, On, TypeOK
  <2> QED
    BY <2>2, <2>3
<1>6. CASE DeleteBoard
  BY <1>3, <1>6 DEF DeleteBoard, On
<1> QED
  BY <1>4, <1>5, <1>6 DEF Next, vars, Begin, BeginCreate, BeginPatch, BeginDelete,
                          Lock, Check, Refuse, Write, Abort

\* However many creates race, a board never holds more widgets than the cap.
THEOREM CapHolds == Spec => []AtMostCap
    BY CheckedInvariant, InitCap, NextCap, PTL DEF Spec

-----------------------------------------------------------------------------
(* Overlap *)

LEMMA DisjointIsSymmetric ==
    ASSUME NEW a, NEW b, Disjoint(a, b) PROVE Disjoint(b, a)
    BY DEF Disjoint

\* The check's verdict in terms of cells.
LEMMA ClearIsDisjoint ==
    ASSUME TypeOK, NEW r \in Requests, req[r] \in Request, ClearOfSiblings(r)
    PROVE  \A w \in On \ {req[r].widget} : Disjoint(req[r].rect, rect[w])
<1> SUFFICES ASSUME NEW w \in On \ {req[r].widget}
             PROVE  Disjoint(req[r].rect, rect[w])
  OBVIOUS
<1>1. rect[w] \in Rect /\ req[r].rect \in Rect
  BY DEF On, TypeOK, Request
<1>2. ~RectanglesOverlap(req[r].rect, rect[w])
  BY DEF ClearOfSiblings
<1> QED
  BY <1>1, <1>2, OverlapIsSharedCell

\* A create, move or resize commits clear of every other widget of its board.
THEOREM PlacementsAreClear == Spec => PlacementsClear
<1>1. ASSUME TypeOK, Checked, NEW r \in Requests, Write(r), MovesOrResizes(r), board,
             NEW w \in On \ {req[r].widget}
      PROVE  Disjoint(rect'[req[r].widget], rect[w])
  <2>1. req[r] \in Request
    BY <1>1, RequestPhase DEF Write
  <2>2. ClearOfSiblings(r)
    BY <1>1 DEF Write, Checked, CheckedOK
  <2>3. Disjoint(req[r].rect, rect[w])
    BY <1>1, <2>1, <2>2, ClearIsDisjoint
  <2>4. CASE req[r].op = "delete"
    <3>1. rect'[req[r].widget] = NoRect
      BY <1>1, <2>1, <2>4 DEF Write, TypeOK, Request
    <3>2. Cells(NoRect) = {}
      BY DEF Cells, NoRect
    <3> QED
      BY <3>1, <3>2 DEF Disjoint
  <2>5. CASE req[r].op # "delete"
    BY <1>1, <2>1, <2>3, <2>5 DEF Write, Written, TypeOK, Request
  <2> QED
    BY <2>4, <2>5
<1>2. TypeOK /\ Checked =>
        [\A r \in Requests :
            Write(r) /\ MovesOrResizes(r) /\ board =>
                \A w \in On \ {req[r].widget} :
                    Disjoint(rect'[req[r].widget], rect[w])]_vars
  BY <1>1
<1> QED
  BY <1>2, CheckedInvariant, PTL DEF PlacementsClear

LEMMA InitOverlap == Init => NoOverlap
    BY DEF Init, NoOverlap, On

LEMMA NextOverlap ==
    ASSUME {} \notin Sends, TypeOK, SendsKnown, Checked, NoOverlap, [Next]_vars
    PROVE  NoOverlap'
<1>1. ASSUME rect' = rect PROVE NoOverlap'
  BY <1>1 DEF NoOverlap, On, Disjoint, Cells
<1>2. ASSUME NEW r \in Requests, Write(r), board PROVE NoOverlap'
  <2>1. req[r] \in Request
    BY <1>2, RequestPhase DEF Write
  <2> DEFINE x == req[r].widget
  <2>2. \A w \in Widgets \ {x} : rect'[w] = rect[w]
    BY <1>2 DEF Write, TypeOK
  <2>3. ASSUME NEW u \in On' \ {x}, NEW w \in On' \ {x}, u # w
        PROVE  Disjoint(rect'[u], rect'[w])
    BY <2>2, <2>3 DEF NoOverlap, On, Disjoint, Cells
  <2>4. ASSUME NEW w \in On' \ {x}, x \in On' PROVE Disjoint(rect'[x], rect'[w])
    <3>1. req[r].op # "delete"
      BY <1>2, <2>1, <2>4 DEF Write, On, TypeOK, Request
    <3>2. MovesOrResizes(r)
      BY <1>2, <2>1, <3>1 DEF Write, SendsKnown, MovesOrResizes, Request, Side
    <3>3. ClearOfSiblings(r)
      BY <1>2, <3>2 DEF Write, Checked, CheckedOK
    <3>4. w \in On \ {x} /\ rect'[w] = rect[w]
      BY <2>2, <2>4 DEF On
    <3>5. Disjoint(req[r].rect, rect[w])
      BY <2>1, <3>3, <3>4, ClearIsDisjoint
    <3>6. rect'[x] = req[r].rect
      BY <1>2, <2>1, <3>1 DEF Write, Written, TypeOK, Request
    <3> QED
      BY <3>4, <3>5, <3>6
  <2> HIDE DEF x
  <2>5. ASSUME NEW u \in On', NEW w \in On', u # w
        PROVE  Disjoint(rect'[u], rect'[w])
    <3>1. CASE u = x
      BY <2>4, <2>5, <3>1
    <3>2. CASE w = x
      BY <2>4, <2>5, <3>2, DisjointIsSymmetric
    <3>3. CASE u # x /\ w # x
      BY <2>3, <2>5, <3>3
    <3> QED
      BY <3>1, <3>2, <3>3
  <2> QED
    BY <2>5 DEF NoOverlap
<1>3. CASE DeleteBoard
  BY <1>3 DEF DeleteBoard, NoOverlap, On
<1> QED
  BY <1>1, <1>2, <1>3 DEF Next, vars, Begin, BeginCreate, BeginPatch, BeginDelete,
                          Lock, Check, Refuse, Write, Abort

\* Where every PATCH sends a grid field, no two widgets of a board ever share a
\* cell: the handlers' scheme is sound but for the PATCH that sends none.
THEOREM NoOverlapWhenAllMove ==
    ASSUME {} \notin Sends PROVE Spec => []NoOverlap
<1>1. ASSUME TypeOK, SendsKnown, Checked, NoOverlap, [Next]_vars PROVE NoOverlap'
  BY <1>1, NextOverlap
<1> QED
  BY <1>1, CheckedInvariant, InitOverlap, PTL DEF Spec

-----------------------------------------------------------------------------
(* The promise of Board *)

\* An id handed to a create is no row's and no other create's.
FreshIds ==
    /\ On \subseteq born
    /\ \A r \in Requests : req[r].phase # "idle" /\ req[r].op = "create" =>
          /\ req[r].widget \in born \ On
          /\ \A s \in Requests \ {r} : req[s].phase # "idle" /\ req[s].op = "create" =>
                req[s].widget # req[r].widget

LEMMA InitFresh == Init => FreshIds
    BY DEF Init, FreshIds, On, Idle

\* A step after which every request is as it was, or over, or further on, and
\* that adds no row, takes nobody's id.
LEMMA StillFresh ==
    ASSUME FreshIds, born' = born, rect' = rect,
           \A s \in Requests : req'[s].phase # "idle" =>
               req[s].phase # "idle" /\ req'[s].op = req[s].op
               /\ req'[s].widget = req[s].widget
    PROVE  FreshIds'
    BY DEF FreshIds, On

LEMMA NextFresh ==
    ASSUME TypeOK, FreshIds, Checked, [Next]_vars PROVE FreshIds'
<1>1. ASSUME NEW r \in Requests, NEW w \in Widgets, BeginCreate(r, w) PROVE FreshIds'
  <2>1. /\ req'[r].op = "create" /\ req'[r].widget = w
        /\ \A s \in Requests \ {r} : req'[s] = req[s]
    <3>1. PICK to \in Rect : req' = [req EXCEPT ![r] = Gated("create", w, to, Side)]
      BY <1>1 DEF BeginCreate
    <3> QED
      BY <3>1 DEF Gated, TypeOK
  <2>2. w \notin born /\ born' = born \union {w} /\ rect' = rect
    BY <1>1 DEF BeginCreate
  <2> QED
    BY <2>1, <2>2 DEF FreshIds, On
<1>2. ASSUME NEW r \in Requests, NEW w \in Widgets, BeginPatch(r, w) \/ BeginDelete(r, w)
      PROVE  FreshIds'
  <2>1. req'[r].op # "create" /\ \A s \in Requests \ {r} : req'[s] = req[s]
    <3>1. CASE BeginPatch(r, w)
      <4>1. PICK sends \in Sends, to \in Rect :
                req' = [req EXCEPT ![r] =
                           Gated("patch", w, Merged(rect[w], sends, to), sends)]
        BY <3>1 DEF BeginPatch
      <4> QED
        BY <4>1, Entered, ZenonT(60)
    <3>2. CASE BeginDelete(r, w)
      BY <3>2, Entered, ZenonT(60) DEF BeginDelete
    <3> QED
      BY <1>2, <3>1, <3>2
  <2>2. born' = born /\ rect' = rect
    BY <1>2 DEF BeginPatch, BeginDelete
  <2> QED
    BY <2>1, <2>2 DEF FreshIds, On
<1>3. ASSUME NEW r \in Requests, Lock(r) PROVE FreshIds'
  <2>1. req[r].phase # "idle"
    BY <1>3 DEF Lock
  <2> QED
    BY <1>3, <2>1, Advanced, StillFresh DEF Lock
<1>4. ASSUME NEW r \in Requests, Check(r) PROVE FreshIds'
  <2>1. req[r].phase # "idle"
    BY <1>4 DEF Check
  <2> QED
    BY <1>4, <2>1, Advanced, StillFresh DEF Check
<1>5. ASSUME NEW r \in Requests, Refuse(r) \/ Abort(r) PROVE FreshIds'
  BY <1>5, Ended, StillFresh DEF Refuse, Abort
<1>6. ASSUME NEW r \in Requests, Write(r) PROVE FreshIds'
  <2>1. /\ req'[r].phase = "idle" /\ \A s \in Requests \ {r} : req'[s] = req[s]
        /\ born' = born
    BY <1>6, Ended DEF Write
  <2>2. CASE rect' = rect
    BY <2>1, <2>2, StillFresh
  <2>3. CASE rect' # rect
    <3> DEFINE x == req[r].widget
    <3>1. req[r] \in Request /\ x \in Widgets
      BY <1>6, RequestPhase DEF Write, Request
    <3>2. \A w \in Widgets \ {x} : rect'[w] = rect[w]
      BY <1>6 DEF Write, TypeOK
    <3>3. x \in born
      <4>1. CASE req[r].op = "create"
        BY <1>6, <4>1 DEF Write, FreshIds
      <4>2. CASE req[r].op # "create"
        BY <1>6, <4>2 DEF Write, Checked, CheckedOK, FreshIds
      <4> QED
        BY <4>1, <4>2
    <3>4. On' \subseteq On \union {x}
      BY <3>2 DEF On
    <3>5. ASSUME NEW s \in Requests \ {r}, req[s].phase # "idle", req[s].op = "create"
          PROVE  req[s].widget # x
      <4>1. CASE req[r].op = "create"
        BY <1>6, <3>5, <4>1 DEF Write, FreshIds
      <4>2. CASE req[r].op # "create"
        BY <1>6, <3>5, <4>2 DEF Write, Checked, CheckedOK, FreshIds
      <4> QED
        BY <4>1, <4>2
    <3> QED
      BY <2>1, <3>3, <3>4, <3>5 DEF FreshIds
  <2> QED
    BY <2>2, <2>3
<1>7. CASE DeleteBoard
  BY <1>7 DEF DeleteBoard, FreshIds, On
<1>8. CASE UNCHANGED vars
  BY <1>8 DEF vars, FreshIds, On
<1> QED
  BY <1>1, <1>2, <1>3, <1>4, <1>5, <1>6, <1>7, <1>8 DEF Next, Begin

\* Board's words and this module's are the same.
LEMMA SameWords ==
    /\ Promise!On = On /\ Promise!Rect = Rect /\ Promise!NoRect = NoRect
    /\ \A a \in Rect : Promise!Fits(a) <=> Fits(a)
    /\ \A w, a : Promise!ClearFor(w, a) <=> \A v \in On \ {w} : Disjoint(a, rect[v])
    BY DEF Promise!On, On, Promise!Rect, Rect, Promise!NoRect, NoRect, Promise!Fits, Fits,
           Promise!ClearFor, Promise!Disjoint, Disjoint, Promise!Cells, Cells

LEMMA SameCount == \A S : Promise!Cardinality(S) = Cardinality(S)
    BY DEF Promise!Cardinality, Cardinality

\* The write of a request is a step of Board.
LEMMA WriteIsChange ==
    ASSUME TypeOK, LockOwned, SendsKnown, Checked, CarriedFits, FreshIds,
           NEW r \in Requests, Write(r), board
    PROVE  Promise!Change
<1> DEFINE w == req[r].widget
           a == req[r].rect
<1>1. req[r] \in Request /\ w \in Widgets /\ a \in Rect
  BY RequestPhase DEF Write, Request
<1>2. Fits(a) /\ Promise!Fits(a)
  BY <1>1, SameWords DEF Write, CarriedFits
<1>3. MovesOrResizes(r) => Promise!ClearFor(w, a)
  BY <1>1, ClearIsDisjoint, SameWords DEF Write, Checked, CheckedOK
<1>4. CASE req[r].op = "create"
  <2>1. w \notin On
    BY <1>4 DEF Write, FreshIds
  <2>2. Cardinality(On) < MaxWidgets
    BY <1>4 DEF Write, Checked, CheckedOK
  <2>3. MovesOrResizes(r)
    BY <1>4 DEF Write, SendsKnown, MovesOrResizes, Side
  <2>4. rect' = [rect EXCEPT ![w] = a] /\ UNCHANGED board
    BY <1>4 DEF Write, Written
  <2>5. Promise!Create(w, a)
    BY <1>1, <1>2, <1>3, <2>1, <2>2, <2>3, <2>4, SameWords, SameCount
       DEF Promise!Create
  <2> QED
    BY <1>1, <2>5, SameWords DEF Promise!Change
<1>5. CASE req[r].op = "patch"
  <2>1. w \in On
    BY <1>5 DEF Write, Checked, CheckedOK
  <2>2. rect' = [rect EXCEPT ![w] = a] /\ UNCHANGED board
    BY <1>5 DEF Write, Written
  <2>3. CASE MovesOrResizes(r)
    <3>1. Promise!Place(w, a)
      BY <1>2, <1>3, <2>1, <2>2, <2>3, SameWords DEF Promise!Place, Promise!CanPlace
    <3> QED
      BY <1>1, <3>1, SameWords DEF Promise!Change
  <2>4. CASE ~MovesOrResizes(r)
    <3>1. {} \in Sends
      BY <1>5, <2>4 DEF Write, SendsKnown, MovesOrResizes
    <3>2. Promise!PutBack(w, a)
      BY <1>2, <2>1, <2>2, <3>1, SameWords DEF Promise!PutBack
    <3> QED
      BY <1>1, <3>2, SameWords DEF Promise!Change
  <2> QED
    BY <2>3, <2>4
<1>6. CASE req[r].op = "delete"
  <2>1. w \in On
    BY <1>6 DEF Write, Checked, CheckedOK
  <2>2. rect' = [rect EXCEPT ![w] = NoRect] /\ UNCHANGED board
    BY <1>6 DEF Write
  <2>3. Promise!Remove(w)
    BY <2>1, <2>2, SameWords DEF Promise!Remove
  <2> QED
    BY <1>1, <2>3 DEF Promise!Change
<1> QED
  BY <1>1, <1>4, <1>5, <1>6 DEF Request

LEMMA StepIsChange ==
    ASSUME TypeOK, LockOwned, SendsKnown, Checked, CarriedFits, FreshIds, [Next]_vars
    PROVE  [Promise!Change]_(Promise!layout)
<1>1. ASSUME NEW r \in Requests, Write(r) PROVE Promise!Change \/ UNCHANGED Promise!layout
  <2>1. CASE board
    BY <1>1, <2>1, WriteIsChange
  <2>2. CASE ~board
    BY <1>1, <2>2 DEF Write, Promise!layout
  <2> QED
    BY <2>1, <2>2
<1>2. CASE DeleteBoard
  BY <1>2, SameWords DEF DeleteBoard, Promise!Change, Promise!DropBoard
<1> QED
  BY <1>1, <1>2 DEF Next, vars, Begin, BeginCreate, BeginPatch, BeginDelete, Lock,
                    Check, Refuse, Abort, Promise!layout

\* What the routes do to a board's layout, with their gates, locks, refusals and
\* lost connections, is what Board does in single steps (widgets.ts; FR-3.1,
\* FR-3.3, FR-3.5): a PATCH without a grid field included, as its PutBack.
THEOREM RoutesKeepPromise == Spec => KeepsPromise
<1>1. Init => Promise!Empty
  BY SameWords DEF Init, Promise!Empty
<1>2. Spec => [](TypeOK /\ LockOwned /\ SendsKnown /\ Checked /\ CarriedFits /\ FreshIds)
  <2>1. TypeOK /\ WithinGrid /\ CarriedFits /\ [Next]_vars => WithinGrid' /\ CarriedFits'
    BY NextFits
  <2>2. TypeOK /\ FreshIds /\ Checked /\ [Next]_vars => FreshIds'
    BY NextFresh
  <2> QED
    BY <2>1, <2>2, CheckedInvariant, InitFits, InitFresh, PTL DEF Spec
<1>3. TypeOK /\ LockOwned /\ SendsKnown /\ Checked /\ CarriedFits /\ FreshIds /\ [Next]_vars
        => [Promise!Change]_(Promise!layout)
  BY StepIsChange
<1> QED
  BY <1>1, <1>2, <1>3, PTL DEF Spec, KeepsPromise, Promise!Layout
=============================================================================
