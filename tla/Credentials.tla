---------------------------- MODULE Credentials ----------------------------
(* The API key of a custom widget on the server: the credential routes, the *)
(* widget writes that create, reconfigure and remove its row, and the poll  *)
(* that reads the config and then, if the config places one, the key.       *)
(*                                                                          *)
(* A config is told apart by one thing: whether it places a key ("keyed")   *)
(* or not ("open").  Every route first finds the row of a widget the user    *)
(* owns (404 without one) and finds it again in its transaction: the first  *)
(* read only answers earlier what the second would, and is not a step.      *)
(* The clients that send requests are left to the module that extends this. *)

CONSTANTS
    Widgets,        \* ids a widget row can have
    Clients,        \* callers, each with at most one request at a time
    NoWidget        \* the widget of a create before its row exists

ASSUME NoWidgetAssumption == NoWidget \notin Widgets

VARIABLES
    config,         \* widgets.config of each row, "absent" when there is no row
    key,            \* TRUE while api_credentials holds a row for the widget
    req,            \* the request of each client
    wanted,         \* TRUE while a poll of the widget is queued or due
    job,            \* the poll of the widget in progress
    needsKey        \* TRUE when the newest snapshot of the widget says it needs a key

serverVars == <<config, key, req, wanted, job, needsKey>>

Placements == {"open", "keyed"}
Exists(w) == config[w] # "absent"

Ops == {"create", "patch", "put", "remove", "delete"}
Quiet == [op |-> "none", widget |-> NoWidget, config |-> "open", pc |-> "idle"]
Call(op, w, cfg) == [op |-> op, widget |-> w, config |-> cfg, pc |-> "sent"]

ServerTypeOK ==
    /\ config \in [Widgets -> Placements \cup {"absent"}]
    /\ key \in [Widgets -> BOOLEAN]
    /\ req \in [Clients -> [op : Ops \cup {"none"}, widget : Widgets \cup {NoWidget},
                            config : Placements,
                            pc : {"idle", "sent", "owned", "ok", "failed"}]]
    /\ wanted \in [Widgets -> BOOLEAN]
    /\ job \in [Widgets -> {"idle", "loading", "fetching"}]
    /\ needsKey \in [Widgets -> BOOLEAN]
    /\ \A w \in Widgets : needsKey[w] => Exists(w)

ServerInit ==
    /\ config = [w \in Widgets |-> "absent"]
    /\ key = [w \in Widgets |-> FALSE]
    /\ req = [c \in Clients |-> Quiet]
    /\ wanted = [w \in Widgets |-> FALSE]
    /\ job = [w \in Widgets |-> "idle"]
    /\ needsKey = [w \in Widgets |-> FALSE]

---------------------------------------------------------------------------
(* Requests *)

To(c, pc) == req' = [req EXCEPT ![c].pc = pc]
At(c, op, pc) == req[c].op = op /\ req[c].pc = pc

\* POST /v1/boards/:id/widgets: a new row, due at once and polled at once; or
\* a refusal (its place taken, the board full).
Create(c) ==
    /\ At(c, "create", "sent")
    /\ \/ \E w \in {x \in Widgets : ~Exists(x) /\ job[x] = "idle"} :
            /\ config' = [config EXCEPT ![w] = req[c].config]
            /\ wanted' = [wanted EXCEPT ![w] = TRUE]
            /\ req' = [req EXCEPT ![c].widget = w, ![c].pc = "ok"]
       \/ To(c, "failed") /\ UNCHANGED <<config, wanted>>
    /\ UNCHANGED <<key, job, needsKey>>

\* A browser that turns authentication off and deletes the key in a second
\* request, which may never come.
KeyKept(w, cfg) == key[w]

\* The config written decides, whatever the one before it was.
KeyAfter(w, cfg) == key[w] /\ cfg = "keyed"

\* PATCH with a config: one transaction re-checks the row, writes the config
\* and removes the key when the new config places none; then a poll is queued.
PatchConfig(c) ==
    /\ At(c, "patch", "sent")
    /\ LET w == req[c].widget IN
        IF Exists(w)
        THEN /\ config' = [config EXCEPT ![w] = req[c].config]
             /\ key' = [key EXCEPT ![w] = KeyAfter(w, req[c].config)]
             /\ wanted' = [wanted EXCEPT ![w] = TRUE]
             /\ To(c, "ok")
        ELSE To(c, "failed") /\ UNCHANGED <<config, key, wanted>>
    /\ UNCHANGED <<job, needsKey>>

\* PUT /v1/widgets/:id/credential: ownership is read again first ...
PutCheck(c) ==
    /\ At(c, "put", "sent")
    /\ To(c, IF Exists(req[c].widget) THEN "owned" ELSE "failed")
    /\ UNCHANGED <<config, key, wanted, job, needsKey>>

\* The check above taken for good.
StillOwned(w) == TRUE

\* The foreign key of api_credentials.
HasParent(w) == Exists(w)

\* ... then the key is inserted or replaced, and nothing is polled.  A widget
\* deleted in between refuses it.
PutKey(c) ==
    /\ At(c, "put", "owned")
    /\ LET w == req[c].widget IN
        IF HasParent(w)
        THEN key' = [key EXCEPT ![w] = TRUE] /\ To(c, "ok")
        ELSE To(c, "failed") /\ UNCHANGED key
    /\ UNCHANGED <<config, wanted, job, needsKey>>

\* DELETE /v1/widgets/:id/credential: one statement, the same answer whether
\* or not there was a key.
RemoveKey(c) ==
    /\ At(c, "remove", "sent")
    /\ key' = [key EXCEPT ![req[c].widget] = FALSE]
    /\ To(c, IF Exists(req[c].widget) THEN "ok" ELSE "failed")
    /\ UNCHANGED <<config, wanted, job, needsKey>>

\* DELETE /v1/widgets/:id: the row goes, its key and its snapshots with it.
DeleteWidget(c) ==
    /\ At(c, "delete", "sent")
    /\ LET w == req[c].widget IN
        IF Exists(w)
        THEN /\ config' = [config EXCEPT ![w] = "absent"]
             /\ key' = [key EXCEPT ![w] = FALSE]
             /\ needsKey' = [needsKey EXCEPT ![w] = FALSE]
             /\ To(c, "ok")
        ELSE To(c, "failed") /\ UNCHANGED <<config, key, needsKey>>
    /\ UNCHANGED <<wanted, job>>

Handle(c) ==
    \/ Create(c) \/ PatchConfig(c) \/ PutCheck(c) \/ PutKey(c)
    \/ RemoveKey(c) \/ DeleteWidget(c)

---------------------------------------------------------------------------
(* The poll of a widget *)

\* The sweep finds the widget due again: its interval is over.
ComesDue(w) ==
    /\ Exists(w) /\ ~wanted[w]
    /\ wanted' = [wanted EXCEPT ![w] = TRUE]
    /\ UNCHANGED <<config, key, req, job, needsKey>>

\* The handler reads the row; a deleted widget ends the job.  A config that
\* places no key is fetched as it is.
StartPoll(w) ==
    /\ wanted[w] /\ job[w] = "idle"
    /\ wanted' = [wanted EXCEPT ![w] = FALSE]
    /\ job' = [job EXCEPT ![w] = CASE config[w] = "keyed" -> "loading"
                                   [] config[w] = "open" -> "fetching"
                                   [] OTHER -> "idle"]
    /\ UNCHANGED <<config, key, req, needsKey>>

\* A snapshot of a widget that is gone is refused by its foreign key.
Record(w, missing) == needsKey' = [needsKey EXCEPT ![w] = Exists(w) /\ missing]

\* loadCredential, a later read: without a key the poll settles unfetched.
LoadCredential(w) ==
    /\ job[w] = "loading"
    /\ job' = [job EXCEPT ![w] = IF key[w] THEN "fetching" ELSE "idle"]
    /\ IF key[w] THEN UNCHANGED needsKey ELSE Record(w, TRUE)
    /\ UNCHANGED <<config, key, req, wanted>>

\* The answer is recorded, or the attempt failed and is queued again.
FinishPoll(w) ==
    /\ job[w] = "fetching"
    /\ job' = [job EXCEPT ![w] = "idle"]
    /\ \/ Record(w, FALSE) /\ UNCHANGED wanted
       \/ wanted' = [wanted EXCEPT ![w] = TRUE] /\ UNCHANGED needsKey
    /\ UNCHANGED <<config, key, req>>

Poll(w) == StartPoll(w) \/ LoadCredential(w) \/ FinishPoll(w)
=============================================================================
