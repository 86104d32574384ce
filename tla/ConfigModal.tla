---------------------------- MODULE ConfigModal ----------------------------
(* The widget config modal of a board page and the custom widget's form in  *)
(* it, over the routes of Credentials.  Opening it for a widget loads that  *)
(* widget; a save writes the config and then, if a key was typed, the key;  *)
(* closing the modal stops neither.  Other tabs send requests of their own. *)

EXTENDS Credentials, Naturals, FiniteSets

CONSTANTS
    Saves,          \* concurrent calls of submitCustom, a bound
    Shared,         \* the widgets other tabs write and whose polls are followed, a bound
    OtherOps,       \* what other tabs ask for, a bound
    MaxOpens        \* times the modal is opened for an edit, a bound

ASSUME ModalAssumption ==
    /\ NoWidget \notin Widgets
    /\ Saves \subseteq Clients
    /\ Shared \subseteq Widgets
    /\ OtherOps \subseteq {"patch", "put", "remove", "delete"}
    /\ MaxOpens \in Nat
Others == Clients \ Saves

VARIABLES
    open,           \* the board page's configOpen
    target,         \* its editWidgetId, NoWidget in create mode
    session,        \* editSession: how many loads were started
    loads,          \* for each session, the GET /v1/widgets/:id it sent
    shown,          \* detail, detailError and the form's fields
    status,         \* "idle", "submitting" or "error"
    save            \* the calls of submitCustom still running

modalVars == <<open, target, session, loads, shown, status, save>>
vars == <<config, key, req, wanted, job, needsKey,
          open, target, session, loads, shown, status, save>>

\* What a load hands to the form: the widget, once there, and hasCredential.
Load == [widget : Widgets \cup {NoWidget}, pc : {"none", "sent", "ok", "failed"}, has : BOOLEAN]
NoLoad == [widget |-> NoWidget, pc |-> "none", has |-> FALSE]
\* The form before a load: what create mode starts from.  Its fields are chosen
\* when it is submitted; has is hasCredential, which no field shows.
Blank(state) == [state |-> state, widget |-> NoWidget, has |-> FALSE]
Done == [phase |-> "none", secret |-> FALSE]

TypeOK ==
    /\ ServerTypeOK
    /\ open \in BOOLEAN /\ target \in Widgets \cup {NoWidget}
    /\ session \in 0..MaxOpens
    /\ loads \in [1..MaxOpens -> Load]
    /\ shown \in [state : {"waiting", "form", "failed"},
                  widget : Widgets \cup {NoWidget}, has : BOOLEAN]
    /\ status \in {"idle", "submitting", "error"}
    /\ save \in [Saves -> [phase : {"none", "config", "key"}, secret : BOOLEAN]]

Init ==
    /\ ServerInit
    /\ open = FALSE /\ target = NoWidget /\ session = 0
    /\ loads = [n \in 1..MaxOpens |-> NoLoad]
    /\ shown = Blank("form")
    /\ status = "idle"
    /\ save = [v \in Saves |-> Done]

---------------------------------------------------------------------------
(* Opening, loading, closing *)

\* onTypePicked: create mode; picking a type resets the form.
OpenToCreate ==
    /\ ~open
    /\ open' = TRUE /\ target' = NoWidget
    /\ shown' = Blank("form") /\ status' = "idle"
    /\ UNCHANGED <<serverVars, session, loads, save>>

\* A bound: during the last opening other tabs and polls rest.
Calm ==
    /\ \A c \in Others : req[c] = Quiet
    /\ \A w \in Shared : ~wanted[w] /\ job[w] = "idle"

\* requestWidgetEdit: the effect forgets the last widget and starts a load
\* under a new session number.  It leaves status alone.
OpenToEdit(w) ==
    /\ ~open /\ Exists(w) /\ session < MaxOpens
    /\ session + 1 = MaxOpens => Calm
    /\ open' = TRUE /\ target' = w
    /\ session' = session + 1
    /\ loads' = [loads EXCEPT ![session + 1] = [NoLoad EXCEPT !.widget = w, !.pc = "sent"]]
    /\ shown' = Blank("waiting")
    /\ UNCHANGED <<serverVars, status, save>>

\* Cancel, Escape or the backdrop; running saves go on.
Close ==
    /\ open
    /\ open' = FALSE
    /\ shown' = Blank("form")
    /\ UNCHANGED <<serverVars, target, session, loads, status, save>>

\* GET /v1/widgets/:id answers with the row and whether it has a key, or fails:
\* no row, or an answer that does not arrive.
Answer(n) ==
    /\ loads[n].pc = "sent"
    /\ LET w == loads[n].widget IN
        \/ /\ Exists(w)
           /\ loads' = [loads EXCEPT ![n] = [widget |-> w, pc |-> "ok", has |-> key[w]]]
        \/ loads' = [loads EXCEPT ![n].pc = "failed"]
    /\ UNCHANGED <<serverVars, open, target, session, shown, status, save>>

\* No session numbers: every answer is taken.
NeverSuperseded(n) == FALSE

\* An answer is dropped unless it belongs to the newest session.
Superseded(n) == n # session

\* The answer of load n: it seeds the form, or shows that it failed.  Nothing
\* shows it once the modal is closed or in create mode.
Loaded(n) ==
    /\ loads[n].pc \in {"ok", "failed"}
    /\ loads' = [loads EXCEPT ![n] = NoLoad]
    /\ LET heard == ~Superseded(n) /\ target # NoWidget
           row == loads[n] IN
        /\ shown' = IF ~heard \/ ~open THEN shown
                    ELSE IF row.pc = "failed" THEN Blank("failed")
                    ELSE [state |-> "form", widget |-> row.widget, has |-> row.has]
        /\ status' = IF heard /\ row.pc = "ok" THEN "idle" ELSE status
    /\ UNCHANGED <<serverVars, open, target, session, save>>

---------------------------------------------------------------------------
(* Filling in and saving *)

OnForm == open /\ shown.state = "form"

\* authIncomplete: a key is placed and there is none, typed or stored.
AuthIncomplete(auth, secret) == auth /\ ~secret /\ ~shown.has

\* apiKeyPlacement: bearer, header and query all place a key.
PlacementOf(auth) == IF auth THEN "keyed" ELSE "open"

\* A key typed while the form places none is not submitted.
SubmittedSecret(auth, secret) == auth /\ secret

\* submitCustom up to its first await, with whatever the form holds by then.
Submit(v) ==
    /\ OnForm /\ status # "submitting" /\ save[v].phase = "none"
    /\ \E auth, secret \in BOOLEAN :
        /\ ~AuthIncomplete(auth, secret)
        /\ save' = [save EXCEPT ![v] = [phase |-> "config", secret |-> SubmittedSecret(auth, secret)]]
        /\ req' = [req EXCEPT ![v] = Call(IF target = NoWidget THEN "create" ELSE "patch",
                                          target, PlacementOf(auth))]
    /\ status' = "submitting"
    /\ UNCHANGED <<config, key, wanted, job, needsKey, open, target, session, loads, shown>>

\* A catch that forgets the button.
StatusKept == status

FailedStatus == "error"

\* The call ends in an error, its request answered so or its answer lost.
\* A key that failed leaves the saved widget as it is, and the form open.
SaveFails(v) ==
    /\ save[v].phase # "none" /\ req[v].pc \in {"ok", "failed"}
    /\ status' = FailedStatus
    /\ save' = [save EXCEPT ![v] = Done]
    /\ req' = [req EXCEPT ![v] = Quiet]
    /\ UNCHANGED <<config, key, wanted, job, needsKey, open, target, session, loads, shown>>

\* The widget is saved and a key was typed: the key goes to the widget the
\* answer names.
SendKey(v) ==
    /\ save[v].phase = "config" /\ req[v].pc = "ok" /\ save[v].secret
    /\ save' = [save EXCEPT ![v].phase = "key"]
    /\ req' = [req EXCEPT ![v] = Call("put", req[v].widget, "open")]
    /\ UNCHANGED <<config, key, wanted, job, needsKey,
                   open, target, session, loads, shown, status>>

\* The last answer arrived: finishSaved reloads the board, close() closes the
\* modal.  status stays "submitting" until the modal is opened again.
SaveEnds(v) ==
    /\ save[v].phase = IF save[v].secret THEN "key" ELSE "config"
    /\ req[v].pc = "ok"
    /\ open' = FALSE
    /\ shown' = Blank("form")
    /\ save' = [save EXCEPT ![v] = Done]
    /\ req' = [req EXCEPT ![v] = Quiet]
    /\ UNCHANGED <<config, key, wanted, job, needsKey, target, session, loads, status>>

---------------------------------------------------------------------------
(* Other tabs *)

Ask(c) ==
    /\ req[c].pc = "idle" /\ session < MaxOpens
    /\ \E op \in OtherOps, w \in Shared, cfg \in Placements :
        /\ op # "patch" => cfg = "open"
        /\ req' = [req EXCEPT ![c] = Call(op, w, cfg)]
    /\ UNCHANGED <<config, key, wanted, job, needsKey, modalVars>>

Heard(c) ==
    /\ req[c].pc \in {"ok", "failed"}
    /\ req' = [req EXCEPT ![c] = Quiet]
    /\ UNCHANGED <<config, key, wanted, job, needsKey, modalVars>>

---------------------------------------------------------------------------

Server ==
    \/ \E c \in Clients : Handle(c) /\ UNCHANGED modalVars
    \/ \E w \in Shared : (ComesDue(w) \/ Poll(w)) /\ session < MaxOpens /\ UNCHANGED modalVars

Next ==
    \/ Server
    \/ OpenToCreate \/ (\E w \in Widgets : OpenToEdit(w)) \/ Close
    \/ \E n \in 1..MaxOpens : Answer(n) \/ Loaded(n)
    \/ \E v \in Saves : Submit(v) \/ SaveFails(v) \/ SendKey(v) \/ SaveEnds(v)
    \/ \E c \in Others : Ask(c) \/ Heard(c)

Spec == Init /\ [][Next]_vars

\* Requests that are sent get an answer, polls that start end, and the browser
\* runs the callbacks of what arrived.
Fairness ==
    /\ \A c \in Clients : WF_vars(Handle(c) /\ UNCHANGED modalVars)
    /\ \A w \in Shared : WF_vars(Poll(w) /\ session < MaxOpens /\ UNCHANGED modalVars)
    /\ \A n \in 1..MaxOpens : WF_vars(Answer(n) \/ Loaded(n))
    /\ \A v \in Saves : WF_vars(SaveFails(v) \/ SendKey(v) \/ SaveEnds(v))

FairSpec == Spec /\ Fairness

---------------------------------------------------------------------------
(* Properties *)

\* The form edits the widget the modal was last opened for: however loads,
\* closes and reopens interleave, no other widget's config is shown under its
\* id, to be saved over it (editSession).
FormIsOfTarget == OnForm => shown.widget = target

\* A stored key belongs to a widget that exists: a PUT that passed its checks
\* before the widget was deleted leaves nothing behind.
KeyHasWidget == \A w \in Widgets : key[w] => Exists(w)

\* Turning authentication off is durable: the step that stores a config without
\* a placement stores no key with it, and a key without a destination can only
\* be one a PUT saved later.
AuthOffRemovesKey ==
    [][\A w \in Widgets : key'[w] /\ config'[w] = "open" =>
          \/ key[w] /\ config[w] = "open"
          \/ config[w] = "open" /\ \E c \in Clients : At(c, "put", "owned") /\ req[c].widget = w]_vars

\* The modal never waits for ever: a load that was started comes to show a form
\* or a failure, and a form that is submitting gets its button back, whatever
\* the order of answers, failures, closings and reopenings.
Waiting == open /\ (shown.state = "waiting" \/ (shown.state = "form" /\ status = "submitting"))
WaitingEnds == Waiting ~> ~Waiting

\* The modal and the key hold together: the form edits the widget it was opened
\* for, and no key is left of a widget that is gone.
ModalSound == TypeOK /\ FormIsOfTarget /\ KeyHasWidget
=============================================================================
