----------------------------- MODULE BoardForms -----------------------------
(***************************************************************************)
(* The pages in front of the board routes (apps/web/src/routes/boards and  *)
(* routes/boards/[id]) with their three modals: create, settings, delete.  *)
(* A tab has one request at a time (bound).  A modal can be closed and     *)
(* opened again while its form is still on the way.  Clients that are not  *)
(* tabs send what the contract allows: another browser, a script.          *)
(***************************************************************************)
EXTENDS Boards

CONSTANTS
    Tabs,       \* the clients whose pages are modelled
    MaxForms    \* forms submitted in all (bound)

ASSUME FormsAssumption ==
    /\ Tabs \subseteq Callers /\ MaxForms \in Nat
    /\ {"boards", "signin", "missing", "error"} \intersect BoardIds = {}

VARIABLES
    tab,     \* the page and the modal in front of each client
    forms    \* the forms submitted so far

vars == <<owner, row, given, on, newest, lock, req, tab, forms>>

-----------------------------------------------------------------------------

Modals == {"closed", "create", "settings", "delete"}

\* The list as loaded (BoardList's states), what the page is, the modal open, the
\* message in it ("own" for the form it now holds, "other" for an earlier one),
\* whether it was opened again since the form on the way, and what the tab awaits.
Tab ==
    [page : {"boards", "signin", "missing", "error"} \union BoardIds,
     list : {"none", "empty", "room", "full", "failed"}, modal : Modals,
     note : {"none", "own", "other"}, again : BOOLEAN,
     awaits : {"nothing", "load", "form", "reload"}]

OnBoard(c) == tab[c].page \in BoardIds
Free(c) == tab[c].awaits = "nothing"

FormOf(modal) ==
    CASE modal = "create" -> "create" [] modal = "settings" -> "update"
      [] modal = "delete" -> "delete" [] OTHER -> "none"

FormsInit ==
    /\ ServerInit
    /\ tab = [c \in Tabs |->
                [page |-> "boards", list |-> "none", modal |-> "closed", note |-> "none",
                 again |-> FALSE, awaits |-> "nothing"]]
    /\ forms = 0

Asks(c, call, awaits) ==
    /\ req' = [req EXCEPT ![c] = call]
    /\ tab' = [tab EXCEPT ![c].awaits = awaits]

\* The load of the page: the list or one board.
LoadOf(page) == IF page = "boards" THEN Call("list", None, None) ELSE Call("read", page, None)

\* A visit, a reload, the retry of a failed list.
Load(c) ==
    /\ Free(c) /\ (OnBoard(c) \/ tab[c].page = "boards")
    /\ Asks(c, LoadOf(tab[c].page), "load")
    /\ UNCHANGED <<owner, row, given, on, newest, lock, forms>>

\* A card of the list, as it was loaded: the board may be gone.
OpenBoard(c, b) ==
    /\ Free(c) /\ tab[c].page = "boards" /\ tab[c].modal = "closed" /\ b \in given
    /\ Asks(c, Call("read", b, None), "load")
    /\ UNCHANGED <<owner, row, given, on, newest, lock, forms>>

\* "New board" is disabled on a full list; the settings modal leads to delete.
CanOpen(c, m) ==
    \/ m = "create" /\ tab[c].page = "boards" /\ tab[c].list \in {"empty", "room"}
                    /\ tab[c].modal = "closed"
    \/ m = "settings" /\ OnBoard(c) /\ tab[c].modal = "closed"
    \/ m = "delete" /\ OnBoard(c) /\ tab[c].modal = "settings"

\* Every opening starts a fresh form and hides the message.
OpenModal(c, m) ==
    /\ CanOpen(c, m)
    /\ tab' = [tab EXCEPT ![c].modal = m, ![c].note = "none",
                          ![c].again = @ \/ tab[c].awaits \in {"form", "reload"}]
    /\ UNCHANGED <<owner, row, given, on, newest, lock, req, forms>>

CloseModal(c) ==
    /\ tab[c].modal # "closed"
    /\ tab' = [tab EXCEPT ![c].modal = "closed", ![c].note = "none"]
    /\ UNCHANGED <<owner, row, given, on, newest, lock, req, forms>>

\* Ids enough for the creates on their way (bound on BoardIds).
Creates == {c \in Callers : req[c].pc # "idle" /\ req[c].op = "create" /\ req[c].board = None}
IdsLeft == Cardinality(Creates) < Cardinality(Fresh)

\* The form passes the fields' own checks and the contract in the page's action;
\* the settings form always sends all of its fields.
Submit(c) ==
    /\ Free(c) /\ tab[c].modal # "closed" /\ forms < MaxForms
    /\ tab[c].modal = "create" => IdsLeft
    /\ LET op == FormOf(tab[c].modal)
           board == IF op = "create" THEN None ELSE tab[c].page
       IN \E body \in IF op = "delete" THEN {None} ELSE Settings :
            req' = [req EXCEPT ![c] = Call(op, board, body)]
    /\ tab' = [tab EXCEPT ![c].awaits = "form", ![c].again = FALSE]
    /\ forms' = forms + 1
    /\ UNCHANGED <<owner, row, given, on, newest, lock>>

\* Another client: any request, any part of the settings.
Send(c) ==
    /\ req[c].pc = "idle" /\ forms < MaxForms
    /\ \/ IdsLeft /\ \E body \in Settings : req' = [req EXCEPT ![c] = Call("create", None, body)]
       \/ \E b \in given :
             \/ \E op \in {"read", "delete"} : req' = [req EXCEPT ![c] = Call(op, b, None)]
             \/ \E p \in Patches : req' = [req EXCEPT ![c] = Call("update", b, p)]
    /\ forms' = forms + 1
    /\ UNCHANGED <<owner, row, given, on, newest, lock, tab>>

-----------------------------------------------------------------------------
(* Answers *)

Answered(c, op) == req[c].pc \in Answers /\ req[c].op = op
Done(c) == req' = [req EXCEPT ![c] = Idle]

Shows(c, page, list) ==
    tab' = [tab EXCEPT ![c] =
        [page |-> page, list |-> list, modal |-> "closed", note |-> "none",
         again |-> FALSE, awaits |-> "nothing"]]

\* The modal over a page that stays is closed by a settings form that succeeded.
Stays(c, list) ==
    tab' = [tab EXCEPT ![c].list = list, ![c].awaits = "nothing", ![c].again = FALSE,
                ![c].modal = IF tab[c].awaits = "reload" /\ @ = "settings" THEN "closed" ELSE @,
                ![c].note = IF tab[c].awaits = "reload" /\ tab[c].modal = "settings" THEN "none" ELSE @]

ListState(n) == IF n >= MaxBoards THEN "full" ELSE IF n = 0 THEN "empty" ELSE "room"

\* A list that failed is shown as such; one that needs a session leads to sign-in.
ListArrives(c) ==
    /\ Answered(c, "list") /\ Done(c)
    /\ LET list == IF req[c].pc = "ok" THEN ListState(req[c].count) ELSE "failed" IN
        IF req[c].pc = "unauthenticated" THEN Shows(c, "signin", "none")
        ELSE IF tab[c].page = "boards" THEN Stays(c, list)
        ELSE Shows(c, "boards", list)
    /\ UNCHANGED <<owner, row, given, on, newest, lock, forms>>

BoardArrives(c) ==
    /\ Answered(c, "read") /\ Done(c)
    /\ IF req[c].pc = "missing" THEN Shows(c, "missing", "none")
       ELSE IF req[c].pc # "ok" THEN Shows(c, "error", "none")
       ELSE IF tab[c].page = req[c].board THEN Stays(c, "none")
       ELSE Shows(c, req[c].board, "none")
    /\ UNCHANGED <<owner, row, given, on, newest, lock, forms>>

\* A message under the form that failed, if that modal is still the open one.
Refused(c) ==
    tab' = [tab EXCEPT ![c].awaits = "nothing", ![c].again = FALSE,
                ![c].note = IF FormOf(tab[c].modal) # req[c].op THEN @
                            ELSE IF tab[c].again THEN "other" ELSE "own"]

\* The form's answer: on to the board created, the board reloaded, the list
\* after a delete ("already gone" counts as deleted), sign-in, or a message.
FormArrives(c) ==
    /\ \E op \in {"create", "update", "delete"} : Answered(c, op)
    /\ LET op == req[c].op
           succeeded == req[c].pc = "ok" \/ (op = "delete" /\ req[c].pc = "missing")
       IN  IF req[c].pc = "unauthenticated" THEN Shows(c, "signin", "none") /\ Done(c)
           ELSE IF ~succeeded THEN Refused(c) /\ Done(c)
           ELSE Asks(c, LoadOf(IF op = "delete" THEN "boards" ELSE req[c].board), "reload")
    /\ UNCHANGED <<owner, row, given, on, newest, lock, forms>>

-----------------------------------------------------------------------------

Arrives(c) == ListArrives(c) \/ BoardArrives(c) \/ FormArrives(c)

\* What another client makes of its answer is its own business.
Ends(c) ==
    /\ req[c].pc \in Answers /\ Done(c)
    /\ UNCHANGED <<owner, row, given, on, newest, lock, tab, forms>>

User(c) ==
    \/ Load(c) \/ Submit(c) \/ CloseModal(c)
    \/ \E b \in BoardIds : OpenBoard(c, b)
    \/ \E m \in Modals : OpenModal(c, m)

Next ==
    \/ \E c \in Tabs : User(c) \/ Arrives(c)
    \/ \E c \in Callers \ Tabs : Send(c) \/ Ends(c)
    \/ \E c \in Callers : Handle(c) /\ UNCHANGED <<tab, forms>>
    \/ Elsewhere /\ UNCHANGED <<tab, forms>>

\* The api works on what it was sent and the browser on what it is answered.
Spec ==
    /\ FormsInit /\ [][Next]_vars
    /\ \A c \in Tabs : WF_vars(Arrives(c))
    /\ \A c \in Callers : WF_vars(Handle(c) /\ UNCHANGED <<tab, forms>>)

\* The types of rows, requests and tabs; a tab awaits something exactly while
\* a request of its own is on the way.
TypeOK ==
    /\ ServerTypeOK
    /\ tab \in [Tabs -> Tab] /\ forms \in 0 .. MaxForms
    /\ \A c \in Tabs : Free(c) <=> req[c].pc = "idle"

\* A form's button is not disabled for ever: every form, and the load after it,
\* is answered, whoever holds the lock or deletes what it is about.
FormsAnswered == \A c \in Tabs : tab[c].awaits = "form" ~> Free(c)

\* The tables hold together under concurrent requests: the cap, and no row
\* without the row it belongs to.
BoardsSound == TypeOK /\ AtMostMaxBoards /\ NoOrphans
=============================================================================
