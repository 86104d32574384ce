------------------------------- MODULE DbPool -------------------------------
(***************************************************************************)
(* The api's database connections (packages/db/src/client.ts) and the      *)
(* requests that share them.  A query borrows a connection of the pool and *)
(* gives it back; a transaction keeps one from begin to commit.  The       *)
(* ownership re-check inside a transaction (findOwnedWidget) is not run on *)
(* the transaction's connection: it borrows another.  The pool sets no     *)
(* time limit for a caller that waits.                                     *)
(***************************************************************************)
EXTENDS Naturals, FiniteSets

CONSTANTS
    Requests,    \* requests in flight at once (bound)
    Boards,      \* board rows
    Kinds,       \* the kinds of request that arrive
    PoolSize     \* the pool's max: 10 by default

\* "read" stands for the routes that only run queries.
Kind == {"create", "patch", "delete", "credential", "read"}

ASSUME PoolAssumption ==
    IsFiniteSet(Requests) /\ Kinds \subseteq Kind /\ PoolSize \in Nat \ {0}

VARIABLE req     \* per request, its kind, its board and how far it is

Phase == {"arrived", "gate", "passed", "begun", "recheck", "reading", "writing"}
Away == [phase |-> "idle"]
Request == [phase : Phase, kind : Kinds, board : Boards]

PoolInit == req = [r \in Requests |-> Away]

At(P) == {r \in Requests : req[r].phase \in P}

InTransaction == At({"begun", "recheck", "reading", "writing"})

\* The gate's connection kept until the request ends.
UsersKeepingGate ==
    (InTransaction \X {"own"})
        \union (At(Phase \ {"arrived"}) \X {"gate"})

\* One connection for the gate's query or an open transaction ...
Users == (InTransaction \union At({"gate"})) \X {"own"}

\* ... and one more for the re-check.
Recheckers == At({"reading"}) \X {"recheck"}

InUse == Users \union Recheckers
ConnectionFree == Cardinality(InUse) < PoolSize

\* The requests that have locked the row of board b; PUT credential locks none.
Locks(r) == req[r].kind \in {"create", "patch", "delete"}
Holders(b) == {r \in At({"recheck", "reading", "writing"}) :
                  Locks(r) /\ req[r].board = b}

\* Requests have this shape, the pool is never overdrawn, and the row of a board
\* has at most one holder.
PoolTypeOK ==
    /\ req \in [Requests -> {Away} \union Request]
    /\ Cardinality(InUse) <= PoolSize
    /\ \A b \in Boards : \A r, t \in Holders(b) : r = t

-----------------------------------------------------------------------------
GoTo(r, phase) == req' = [req EXCEPT ![r].phase = phase]
Leave(r) == req' = [req EXCEPT ![r] = Away]

Arrive(r) ==
    /\ req[r] = Away
    /\ \E k \in Kinds, b \in Boards :
         req' = [req EXCEPT ![r] = [phase |-> "arrived", kind |-> k, board |-> b]]

\* The ownership gate's query, or the query of a read.
Gate(r) == r \in At({"arrived"}) /\ ConnectionFree /\ GoTo(r, "gate")

\* The query returns and gives its connection back; a read is answered, and so
\* is a 404.
Gated(r) ==
    /\ r \in At({"gate"})
    /\ Leave(r) \/ (req[r].kind # "read" /\ GoTo(r, "passed"))

\* db.transaction waits for a connection and keeps it.
Begins(r) == r \in At({"passed"}) /\ ConnectionFree
Begin(r) == Begins(r) /\ GoTo(r, "begun")

\* select ... for update waits for the holder.  Only a create has nothing left
\* to re-check.
LockBoard(r) ==
    /\ r \in At({"begun"})
    /\ Locks(r) => Holders(req[r].board) = {}
    /\ GoTo(r, IF req[r].kind = "create" THEN "writing" ELSE "recheck")

\* findOwnedWidget(widget.id, user.id) waits for a connection of its own.
Recheck(r) == r \in At({"recheck"}) /\ ConnectionFree /\ GoTo(r, "reading")

\* Its result: a widget, or a 404 and a rollback.
Rechecked(r) == r \in At({"reading"}) /\ (GoTo(r, "writing") \/ Leave(r))

\* The statements left and the commit, or a refusal and the rollback.
Finish(r) == r \in At({"writing"}) /\ Leave(r)

\* The api restarts: its connections close and its transactions roll back.
Restart ==
    /\ \E r \in Requests : req[r] # Away
    /\ req' = [r \in Requests |-> Away]

-----------------------------------------------------------------------------
Step(r) == Gate(r) \/ Gated(r) \/ Begin(r) \/ LockBoard(r) \/ Recheck(r)
           \/ Rechecked(r) \/ Finish(r)

PoolNext ==
    \/ \E r \in Requests : Arrive(r) \/ Step(r)
    \/ Restart

PoolSpec == PoolInit /\ [][PoolNext]_req

\* The pool and the row lock serve their waiters in turn, and a statement returns:
\* a request that can go on again and again goes on.
PoolFairness == \A r \in Requests : SF_req(Step(r))

PoolFairSpec == PoolSpec /\ PoolFairness

-----------------------------------------------------------------------------
\* What a request's next statement waits for is there.
CanGoOn(r) ==
    \/ r \in At({"arrived", "passed", "recheck"}) /\ ConnectionFree
    \/ r \in At({"gate", "reading", "writing"})
    \/ r \in At({"begun"}) /\ (Locks(r) => Holders(req[r].board) = {})

Gridlock == (\E r \in Requests : req[r] # Away) /\ \A r \in Requests : ~CanGoOn(r)

\* Everybody waits for everybody only when each connection is kept by a transaction
\* that waits, one of them for a second connection.
GridlockFillsPool ==
    Gridlock => Cardinality(At({"begun", "recheck"})) = PoolSize /\ At({"recheck"}) # {}

\* Every request is answered, however the requests share the connections and
\* the rows: with more connections than requests in flight the second one a
\* re-check needs comes free.
Answered == \A r \in Requests : req[r] # Away ~> req[r] = Away

=============================================================================
