------------------------- MODULE ConfigModal_proofs -------------------------
(***************************************************************************)
(* The config modal and the key of a custom widget, for any number of      *)
(* widgets, tabs, saves and openings: the form is the target's, a key      *)
(* never outlives its widget, and turning authentication off removes it.   *)
(***************************************************************************)
EXTENDS ConfigModal, TLAPS

\* A request that is not a create names a widget, and so does a create that
\* was answered: its answer is where the key is sent.
RequestsNameAWidget ==
    \A c \in Clients :
        req[c].op \notin {"none", "create"} \/ req[c].pc = "ok" => req[c].widget \in Widgets

\* A load under way names a widget, and the one that may still fill the form
\* the target: an older one has another session, and create mode hears none.
LoadIsOfTarget ==
    \A n \in 1..MaxOpens : loads[n].pc # "none" =>
        /\ loads[n].widget \in Widgets
        /\ n = session /\ target # NoWidget => loads[n].widget = target

Request == [op : Ops \cup {"none"}, widget : Widgets \cup {NoWidget}, config : Placements,
            pc : {"idle", "sent", "owned", "ok", "failed"}]
Shown == [state : {"waiting", "form", "failed"}, widget : Widgets \cup {NoWidget},
          has : BOOLEAN]

-----------------------------------------------------------------------------
(* Operators *)

LEMMA QuietType == Quiet \in Request /\ Quiet.op = "none" /\ Quiet.pc = "idle"
BY DEF Quiet, Request, Ops, Placements

LEMMA CallType ==
    ASSUME NEW op \in Ops, NEW w \in Widgets \cup {NoWidget}, NEW cfg \in Placements
    PROVE  /\ Call(op, w, cfg) \in Request
           /\ Call(op, w, cfg).op = op /\ Call(op, w, cfg).widget = w
           /\ Call(op, w, cfg).pc = "sent"
BY DEF Call, Request

LEMMA BlankType ==
    ASSUME NEW state \in {"waiting", "form", "failed"}
    PROVE  /\ Blank(state) \in Shown
           /\ Blank(state).state = state /\ Blank(state).widget = NoWidget
BY DEF Blank, Shown

LEMMA NoLoadType == NoLoad \in Load /\ NoLoad.pc = "none"
BY DEF NoLoad, Load

LEMMA DoneType == Done \in [phase : {"none", "config", "key"}, secret : BOOLEAN]
BY DEF Done

-----------------------------------------------------------------------------
(* The server *)

ServerInv == ServerTypeOK /\ RequestsNameAWidget /\ KeyHasWidget

\* A request that moves on still names its widget.
LEMMA ToKeeps ==
    ASSUME ServerInv, NEW c \in Clients, NEW pc \in {"idle", "sent", "owned", "ok", "failed"},
           To(c, pc), req[c].widget \in Widgets \/ (req[c].op = "create" /\ pc # "ok")
    PROVE  req' \in [Clients -> Request] /\ RequestsNameAWidget'
<1>1. req \in [Clients -> Request]
  BY DEF ServerInv, ServerTypeOK, Request
<1>2. req' \in [Clients -> Request]
  BY <1>1 DEF To, Request
<1>3. /\ req'[c].op = req[c].op /\ req'[c].widget = req[c].widget /\ req'[c].pc = pc
      /\ \A d \in Clients \ {c} : req'[d] = req[d]
  BY <1>1 DEF To, Request
<1>4. QED
  BY <1>2, <1>3 DEF ServerInv, RequestsNameAWidget

\* What the rows and the keys must keep for the rest to hold.
LEMMA RowsKeep ==
    ASSUME ServerInv, req' \in [Clients -> Request], RequestsNameAWidget',
           config' \in [Widgets -> Placements \cup {"absent"}],
           key' \in [Widgets -> BOOLEAN], wanted' \in [Widgets -> BOOLEAN],
           UNCHANGED job, needsKey' \in [Widgets -> BOOLEAN],
           \A w \in Widgets : config'[w] = "absent" => ~key'[w] /\ ~needsKey'[w]
    PROVE  ServerInv'
BY DEF ServerInv, ServerTypeOK, KeyHasWidget, Exists, Request

LEMMA HandleKeeps ==
    ASSUME ServerInv, NEW c \in Clients, Handle(c)
    PROVE  ServerInv'
<1>1. /\ req \in [Clients -> Request] /\ req[c] \in Request /\ req[c].config \in Placements
      /\ config \in [Widgets -> Placements \cup {"absent"}] /\ "absent" \notin Placements
      /\ key \in [Widgets -> BOOLEAN] /\ wanted \in [Widgets -> BOOLEAN]
      /\ needsKey \in [Widgets -> BOOLEAN]
      /\ \A w \in Widgets : config[w] = "absent" => ~key[w] /\ ~needsKey[w]
  BY DEF ServerInv, ServerTypeOK, KeyHasWidget, Exists, Request, Placements
<1>2. CASE Create(c)
  <2>1. CASE To(c, "failed") /\ UNCHANGED <<config, wanted>>
    <3>1. req' \in [Clients -> Request] /\ RequestsNameAWidget'
      BY <1>2, <2>1, ToKeeps DEF Create, At
    <3>2. QED
      BY <1>1, <1>2, <2>1, <3>1, RowsKeep DEF Create
  <2>2. ASSUME NEW w \in Widgets, ~Exists(w),
               config' = [config EXCEPT ![w] = req[c].config],
               wanted' = [wanted EXCEPT ![w] = TRUE],
               req' = [req EXCEPT ![c].widget = w, ![c].pc = "ok"]
        PROVE  ServerInv'
    <3>1. req' \in [Clients -> Request]
      BY <1>1, <2>2 DEF Request
    <3>2. req'[c].widget = w /\ \A d \in Clients \ {c} : req'[d] = req[d]
      BY <1>1, <2>2 DEF Request
    <3>3. RequestsNameAWidget'
      BY <3>2 DEF ServerInv, RequestsNameAWidget
    <3>4. UNCHANGED <<key, job, needsKey>>
      BY <1>2 DEF Create
    <3>5. config' \in [Widgets -> Placements \cup {"absent"}]
          /\ \A x \in Widgets : config'[x] = "absent" => config[x] = "absent"
      BY <1>1, <2>2
    <3>6. wanted' \in [Widgets -> BOOLEAN]
      BY <1>1, <2>2
    <3>7. QED
      BY <1>1, <3>1, <3>3, <3>4, <3>5, <3>6, RowsKeep
  <2>3. QED
    BY <1>2, <2>1, <2>2 DEF Create
<1>3. CASE PatchConfig(c) \/ PutCheck(c) \/ PutKey(c) \/ RemoveKey(c) \/ DeleteWidget(c)
  <2> DEFINE w == req[c].widget
  <2>1. w \in Widgets
    BY <1>3 DEF PatchConfig, PutCheck, PutKey, RemoveKey, DeleteWidget, At, ServerInv,
                RequestsNameAWidget
  <2>2. \E pc \in {"owned", "ok", "failed"} : To(c, pc)
    BY <1>3 DEF PatchConfig, PutCheck, PutKey, RemoveKey, DeleteWidget
  <2>3. req' \in [Clients -> Request] /\ RequestsNameAWidget'
    BY <2>1, <2>2, ToKeeps
  <2>4. CASE UNCHANGED <<config, key, wanted, job, needsKey>>
    BY <1>1, <2>3, <2>4, RowsKeep
  <2>5. CASE /\ Exists(w) /\ config' = [config EXCEPT ![w] = req[c].config]
             /\ key' = [key EXCEPT ![w] = KeyAfter(w, req[c].config)]
             /\ wanted' = [wanted EXCEPT ![w] = TRUE] /\ UNCHANGED <<job, needsKey>>
    <3>1. config' \in [Widgets -> Placements \cup {"absent"}]
          /\ \A x \in Widgets : config'[x] = "absent" => config[x] = "absent"
      BY <1>1, <2>1, <2>5
    <3>2. key' \in [Widgets -> BOOLEAN] /\ \A x \in Widgets : key'[x] => key[x]
      BY <1>1, <2>1, <2>5 DEF KeyAfter
    <3>3. wanted' \in [Widgets -> BOOLEAN]
      BY <1>1, <2>5
    <3>4. QED
      BY <1>1, <2>3, <2>5, <3>1, <3>2, <3>3, RowsKeep
  <2>6. CASE Exists(w) /\ key' = [key EXCEPT ![w] = TRUE]
             /\ UNCHANGED <<config, wanted, job, needsKey>>
    <3>1. key' \in [Widgets -> BOOLEAN] /\ \A x \in Widgets : x # w => key'[x] = key[x]
      BY <1>1, <2>6
    <3>2. QED
      BY <1>1, <2>1, <2>3, <2>6, <3>1, RowsKeep DEF Exists
  <2>7. CASE key' = [key EXCEPT ![w] = FALSE] /\ UNCHANGED <<config, wanted, job, needsKey>>
    <3>1. key' \in [Widgets -> BOOLEAN] /\ \A x \in Widgets : key'[x] => key[x]
      BY <1>1, <2>1, <2>7
    <3>2. QED
      BY <1>1, <2>3, <2>7, <3>1, RowsKeep
  <2>8. CASE /\ config' = [config EXCEPT ![w] = "absent"]
             /\ key' = [key EXCEPT ![w] = FALSE]
             /\ needsKey' = [needsKey EXCEPT ![w] = FALSE] /\ UNCHANGED <<wanted, job>>
    <3>1. /\ config' \in [Widgets -> Placements \cup {"absent"}]
          /\ key' \in [Widgets -> BOOLEAN] /\ needsKey' \in [Widgets -> BOOLEAN]
      BY <1>1, <2>8
    <3>2. \A x \in Widgets : config'[x] = "absent" => ~key'[x] /\ ~needsKey'[x]
      BY <1>1, <2>1, <2>8
    <3>3. QED
      BY <1>1, <2>3, <2>8, <3>1, <3>2, RowsKeep
  <2>9. QED
    BY <1>3, <2>4, <2>5, <2>6, <2>7, <2>8
       DEF PatchConfig, PutCheck, PutKey, HasParent, RemoveKey, DeleteWidget
<1>4. QED
  BY <1>2, <1>3 DEF Handle

\* A poll writes neither config nor key, and records nothing of a widget that
\* is gone.
LEMMA PollKeeps ==
    ASSUME ServerInv, NEW w \in Widgets, ComesDue(w) \/ Poll(w)
    PROVE  ServerInv'
<1>1. UNCHANGED <<config, key, req>>
  BY DEF ComesDue, Poll, StartPoll, LoadCredential, FinishPoll
<1>2. wanted' \in [Widgets -> BOOLEAN]
  BY DEF ComesDue, Poll, StartPoll, LoadCredential, FinishPoll, ServerInv, ServerTypeOK
<1>3. job' \in [Widgets -> {"idle", "loading", "fetching"}]
  <2>1. \E next \in {"idle", "loading", "fetching"} :
          job' = job \/ job' = [job EXCEPT ![w] = next]
    BY DEF ComesDue, Poll, StartPoll, LoadCredential, FinishPoll
  <2>2. QED
    BY <2>1 DEF ServerInv, ServerTypeOK
<1>4. /\ needsKey' \in [Widgets -> BOOLEAN]
      /\ \A x \in Widgets : needsKey'[x] => Exists(x)
  BY DEF ComesDue, Poll, StartPoll, LoadCredential, FinishPoll, Record, Exists, ServerInv,
         ServerTypeOK
<1>5. QED
  BY <1>1, <1>2, <1>3, <1>4
     DEF ServerInv, ServerTypeOK, RequestsNameAWidget, KeyHasWidget, Exists

-----------------------------------------------------------------------------
(* The modal *)

Phases == [phase : {"none", "config", "key"}, secret : BOOLEAN]

ModalInv ==
    /\ open \in BOOLEAN /\ target \in Widgets \cup {NoWidget} /\ session \in 0..MaxOpens
    /\ loads \in [1..MaxOpens -> Load]
    /\ shown \in Shown
    /\ status \in {"idle", "submitting", "error"}
    /\ save \in [Saves -> Phases]
    /\ LoadIsOfTarget /\ FormIsOfTarget

Inv == ServerInv /\ ModalInv

\* The server's invariant speaks of the server's state, the modal's of its own.
LEMMA ServerUntouched == ServerInv /\ UNCHANGED serverVars => ServerInv'
BY DEF ServerInv, ServerTypeOK, RequestsNameAWidget, KeyHasWidget, Exists, serverVars

LEMMA ModalUntouched == ModalInv /\ UNCHANGED modalVars => ModalInv'
BY DEF ModalInv, LoadIsOfTarget, FormIsOfTarget, OnForm, modalVars

LEMMA InitInv == Init => Inv
<1> SUFFICES ASSUME Init
             PROVE  Inv
  OBVIOUS
<1>1. ServerInv
  <2>1. req \in [Clients -> Request] /\ \A c \in Clients : req[c] = Quiet
    BY QuietType DEF Init, ServerInit
  <2>2. ServerTypeOK
    BY <2>1 DEF Init, ServerInit, ServerTypeOK, Request
  <2>3. QED
    BY <2>1, <2>2, QuietType
       DEF ServerInv, RequestsNameAWidget, KeyHasWidget, Init, ServerInit
<1>2. ModalInv
  <2>1. loads \in [1..MaxOpens -> Load] /\ \A n \in 1..MaxOpens : loads[n].pc = "none"
    BY NoLoadType DEF Init
  <2>2. shown \in Shown
    BY BlankType DEF Init
  <2>3. save \in [Saves -> Phases]
    BY DoneType DEF Init, Phases
  <2>4. session \in 0..MaxOpens
    BY ModalAssumption DEF Init
  <2>5. LoadIsOfTarget
    BY <2>1 DEF LoadIsOfTarget
  <2>6. QED
    BY <2>1, <2>2, <2>3, <2>4, <2>5 DEF Init, ModalInv, FormIsOfTarget, OnForm
<1>3. QED
  BY <1>1, <1>2 DEF Inv

\* A request that a client sends or puts away.
LEMMA AskKeeps ==
    ASSUME ServerInv, NEW c \in Clients, NEW r \in Request, req' = [req EXCEPT ![c] = r],
           r.op \notin {"none", "create"} \/ r.pc = "ok" => r.widget \in Widgets,
           UNCHANGED <<config, key, wanted, job, needsKey>>
    PROVE  ServerInv'
<1>1. req \in [Clients -> Request]
  BY DEF ServerInv, ServerTypeOK, Request
<1>2. /\ req' \in [Clients -> Request] /\ req'[c] = r
      /\ \A d \in Clients \ {c} : req'[d] = req[d]
  BY <1>1
<1>3. RequestsNameAWidget'
  BY <1>2 DEF ServerInv, RequestsNameAWidget
<1>4. QED
  BY <1>2, <1>3, RowsKeep DEF ServerInv, ServerTypeOK, KeyHasWidget, Exists

LEMMA QuietKeeps ==
    ASSUME ServerInv, NEW c \in Clients, req' = [req EXCEPT ![c] = Quiet],
           UNCHANGED <<config, key, wanted, job, needsKey>>
    PROVE  ServerInv'
BY AskKeeps, QuietType

\* The answer of a load seeds the form only under the target's own session.
LEMMA LoadedKeeps ==
    ASSUME ModalInv, NEW n \in 1..MaxOpens, Loaded(n)
    PROVE  ModalInv'
<1> DEFINE heard == ~Superseded(n) /\ target # NoWidget
<1>1. loads[n] \in Load /\ loads[n].pc # "none"
  BY DEF Loaded, ModalInv
<1>2. /\ loads' \in [1..MaxOpens -> Load]
      /\ loads'[n].pc = "none" /\ \A m \in 1..MaxOpens \ {n} : loads'[m] = loads[m]
  BY NoLoadType DEF Loaded, ModalInv
<1>3. UNCHANGED <<open, target, session, save>>
  BY DEF Loaded
<1>4. LoadIsOfTarget'
  BY <1>2, <1>3 DEF ModalInv, LoadIsOfTarget
<1>5. status' \in {"idle", "submitting", "error"}
  BY DEF Loaded, ModalInv
<1>6. CASE ~heard \/ ~open
  BY <1>2, <1>3, <1>4, <1>5, <1>6 DEF Loaded, ModalInv, FormIsOfTarget, OnForm
<1>7. CASE heard /\ open /\ loads[n].pc = "failed"
  <2>1. shown' = Blank("failed")
    BY <1>7 DEF Loaded
  <2>2. shown' \in Shown /\ shown'.state = "failed"
    BY <2>1, BlankType
  <2>3. QED
    BY <1>2, <1>3, <1>4, <1>5, <2>2 DEF ModalInv, FormIsOfTarget, OnForm
<1>8. CASE heard /\ open /\ loads[n].pc # "failed"
  <2>1. shown' = [state |-> "form", widget |-> loads[n].widget, has |-> loads[n].has]
    BY <1>8 DEF Loaded
  <2>2. loads[n].widget = target
    BY <1>1, <1>8 DEF ModalInv, LoadIsOfTarget, Superseded
  <2>3. shown' \in Shown /\ shown'.widget = target
    BY <1>1, <2>1, <2>2 DEF Load, Shown
  <2>4. QED
    BY <1>2, <1>3, <1>4, <1>5, <2>3 DEF ModalInv, FormIsOfTarget, OnForm
<1>9. QED
  BY <1>6, <1>7, <1>8

LEMMA OpenToEditKeeps ==
    ASSUME ModalInv, NEW w \in Widgets, OpenToEdit(w)
    PROVE  ModalInv'
<1> DEFINE load == [NoLoad EXCEPT !.widget = w, !.pc = "sent"]
<1>1. load \in Load /\ load.widget = w
  BY NoLoadType DEF Load
<1>2. session' \in 1..MaxOpens /\ session' = session + 1
  BY ModalAssumption DEF OpenToEdit, ModalInv
<1>3. loads' \in [1..MaxOpens -> Load] /\ loads'[session'].widget = w
  BY <1>1, <1>2 DEF OpenToEdit, ModalInv
<1>4. shown' \in Shown /\ shown'.state = "waiting"
  BY BlankType DEF OpenToEdit
<1>5. QED
  BY <1>2, <1>3, <1>4 DEF OpenToEdit, ModalInv, LoadIsOfTarget, FormIsOfTarget, OnForm

LEMMA NextInv == Inv /\ [Next]_vars => Inv'
<1> SUFFICES ASSUME ServerInv, ModalInv, [Next]_vars
             PROVE  ServerInv' /\ ModalInv'
  BY DEF Inv
<1>1. CASE Server
  BY <1>1, HandleKeeps, PollKeeps, ModalUntouched, ModalAssumption DEF Server
<1>2. CASE OpenToCreate
  <2>1. shown' \in Shown /\ shown'.widget = NoWidget
    BY <1>2, BlankType DEF OpenToCreate
  <2>2. ModalInv'
    BY <1>2, <2>1 DEF OpenToCreate, ModalInv, LoadIsOfTarget, FormIsOfTarget, OnForm
  <2>3. QED
    BY <1>2, <2>2, ServerUntouched DEF OpenToCreate
<1>3. ASSUME NEW w \in Widgets, OpenToEdit(w)
      PROVE  ServerInv' /\ ModalInv'
  BY <1>3, OpenToEditKeeps, ServerUntouched DEF OpenToEdit
<1>4. CASE Close
  <2>1. shown' \in Shown
    BY <1>4, BlankType DEF Close
  <2>2. ModalInv'
    BY <1>4, <2>1 DEF Close, ModalInv, LoadIsOfTarget, FormIsOfTarget, OnForm
  <2>3. QED
    BY <1>4, <2>2, ServerUntouched DEF Close
<1>5. ASSUME NEW n \in 1..MaxOpens, Answer(n)
      PROVE  ServerInv' /\ ModalInv'
  <2> DEFINE w == loads[n].widget
  <2>1. w \in Widgets \cup {NoWidget} /\ loads[n].pc = "sent"
    BY <1>5 DEF Answer, ModalInv, Load
  <2>2. CASE /\ Exists(w)
             /\ loads' = [loads EXCEPT ![n] = [widget |-> w, pc |-> "ok", has |-> key[w]]]
    <3>1. w \in Widgets
      BY <2>1 DEF ModalInv, LoadIsOfTarget
    <3>2. [widget |-> w, pc |-> "ok", has |-> key[w]] \in Load
      BY <3>1 DEF Load, ServerInv, ServerTypeOK
    <3>3. loads' \in [1..MaxOpens -> Load] /\ loads'[n].widget = w
          /\ \A m \in 1..MaxOpens \ {n} : loads'[m] = loads[m]
      BY <2>2, <3>2 DEF ModalInv
    <3>4. LoadIsOfTarget'
      BY <1>5, <2>1, <3>3 DEF Answer, ModalInv, LoadIsOfTarget
    <3>5. QED
      BY <1>5, <3>3, <3>4, ServerUntouched
         DEF Answer, ModalInv, FormIsOfTarget, OnForm
  <2>3. CASE loads' = [loads EXCEPT ![n].pc = "failed"]
    <3>1. /\ loads' \in [1..MaxOpens -> Load]
          /\ \A m \in 1..MaxOpens : loads'[m].widget = loads[m].widget
                                    /\ (loads'[m].pc = "none" <=> loads[m].pc = "none")
      BY <2>1, <2>3 DEF ModalInv, Load
    <3>2. QED
      BY <1>5, <3>1, ServerUntouched
         DEF Answer, ModalInv, LoadIsOfTarget, FormIsOfTarget, OnForm
  <2>4. QED
    BY <1>5, <2>2, <2>3 DEF Answer

<1>6. ASSUME NEW n \in 1..MaxOpens, Loaded(n)
      PROVE  ServerInv' /\ ModalInv'
  BY <1>6, LoadedKeeps, ServerUntouched DEF Loaded
<1>7. ASSUME NEW v \in Saves, Submit(v)
      PROVE  ServerInv' /\ ModalInv'
  <2>1. v \in Clients
    BY ModalAssumption
  <2>2. PICK auth \in BOOLEAN, secret \in BOOLEAN :
          /\ save' = [save EXCEPT ![v] = [phase |-> "config",
                                          secret |-> SubmittedSecret(auth, secret)]]
          /\ req' = [req EXCEPT ![v] = Call(IF target = NoWidget THEN "create" ELSE "patch",
                                            target, PlacementOf(auth))]
    BY <1>7 DEF Submit
  <2> DEFINE op == IF target = NoWidget THEN "create" ELSE "patch"
             r == Call(op, target, PlacementOf(auth))
  <2>3. /\ op \in Ops /\ target \in Widgets \cup {NoWidget} /\ PlacementOf(auth) \in Placements
        /\ op # "create" => target \in Widgets
    BY DEF Ops, ModalInv, PlacementOf, Placements
  <2>4. r \in Request /\ r.op = op /\ r.widget = target /\ r.pc = "sent"
    BY <2>3, CallType
  <2>5. ServerInv'
    BY <1>7, <2>1, <2>2, <2>3, <2>4, AskKeeps DEF Submit
  <2>6. save' \in [Saves -> Phases]
    BY <2>2 DEF ModalInv, Phases, SubmittedSecret
  <2>7. QED
    BY <1>7, <2>5, <2>6 DEF Submit, ModalInv, LoadIsOfTarget, FormIsOfTarget, OnForm
<1>8. ASSUME NEW v \in Saves, SaveFails(v)
      PROVE  ServerInv' /\ ModalInv'
  <2>1. ServerInv'
    BY <1>8, QuietKeeps, ModalAssumption DEF SaveFails
  <2>2. save' \in [Saves -> Phases]
    BY <1>8, DoneType DEF SaveFails, ModalInv, Phases
  <2>3. QED
    BY <1>8, <2>1, <2>2
       DEF SaveFails, FailedStatus, ModalInv, LoadIsOfTarget, FormIsOfTarget, OnForm
<1>9. ASSUME NEW v \in Saves, SendKey(v)
      PROVE  ServerInv' /\ ModalInv'
  <2> DEFINE r == Call("put", req[v].widget, "open")
  <2>1. v \in Clients /\ req[v].widget \in Widgets
    BY <1>9, ModalAssumption DEF SendKey, ServerInv, RequestsNameAWidget
  <2>2. r \in Request /\ r.widget = req[v].widget
    BY <2>1, CallType DEF Ops, Placements
  <2>3. ServerInv'
    BY <1>9, <2>1, <2>2, AskKeeps DEF SendKey
  <2>4. save' \in [Saves -> Phases]
    BY <1>9 DEF SendKey, ModalInv, Phases
  <2>5. QED
    BY <1>9, <2>3, <2>4 DEF SendKey, ModalInv, LoadIsOfTarget, FormIsOfTarget, OnForm
<1>10. ASSUME NEW v \in Saves, SaveEnds(v)
       PROVE  ServerInv' /\ ModalInv'
  <2>1. ServerInv'
    BY <1>10, QuietKeeps, ModalAssumption DEF SaveEnds
  <2>2. save' \in [Saves -> Phases] /\ shown' \in Shown
    BY <1>10, DoneType, BlankType DEF SaveEnds, ModalInv, Phases
  <2>3. QED
    BY <1>10, <2>1, <2>2 DEF SaveEnds, ModalInv, LoadIsOfTarget, FormIsOfTarget, OnForm
<1>11. ASSUME NEW c \in Others, Ask(c)
       PROVE  ServerInv' /\ ModalInv'
  <2>1. PICK op \in OtherOps, w \in Shared, cfg \in Placements :
          req' = [req EXCEPT ![c] = Call(op, w, cfg)]
    BY <1>11 DEF Ask
  <2>2. c \in Clients /\ op \in Ops /\ w \in Widgets
    BY ModalAssumption DEF Others, Ops
  <2>3. Call(op, w, cfg) \in Request /\ Call(op, w, cfg).widget = w
    BY <2>2, CallType
  <2>4. ServerInv'
    BY <1>11, <2>1, <2>2, <2>3, AskKeeps DEF Ask
  <2>5. QED
    BY <1>11, <2>4, ModalUntouched DEF Ask
<1>12. ASSUME NEW c \in Others, Heard(c)
       PROVE  ServerInv' /\ ModalInv'
  BY <1>12, QuietKeeps, ModalUntouched DEF Heard, Others
<1>13. CASE UNCHANGED vars
  BY <1>13, ServerUntouched, ModalUntouched DEF vars, serverVars, modalVars
<1>14. QED
  BY <1>1, <1>2, <1>3, <1>4, <1>5, <1>6, <1>7, <1>8, <1>9, <1>10, <1>11, <1>12, <1>13
     DEF Next

LEMMA Invariant == Spec => []Inv
BY InitInv, NextInv, PTL DEF Spec

-----------------------------------------------------------------------------
(* Results *)

\* However loads, closings, reopenings and saves interleave, the form on the
\* screen is the target's, and no key outlives its widget (WidgetConfigModal's
\* editSession, the foreign key of api_credentials).
THEOREM ModalIsSound == Spec => []ModalSound
<1>1. Inv => ModalSound
  BY DEF Inv, ServerInv, ModalInv, ModalSound, TypeOK, Shown, Phases
<1>2. QED
  BY <1>1, Invariant, PTL

\* A key can only be where the config places it, or be one that a PUT stored
\* after the config stopped placing it: no config write leaves a key that it
\* does not place (widgets.ts, PATCH).
THEOREM AuthOffIsDurable == Spec => AuthOffRemovesKey
<1>1. Inv /\ [Next]_vars =>
        [\A w \in Widgets : key'[w] /\ config'[w] = "open" =>
          \/ key[w] /\ config[w] = "open"
          \/ config[w] = "open" /\ \E c \in Clients : At(c, "put", "owned")
                                                      /\ req[c].widget = w]_vars
  <2> SUFFICES ASSUME ServerInv, ModalInv, [Next]_vars,
                      NEW w \in Widgets, key'[w], config'[w] = "open",
                      ~(key[w] /\ config[w] = "open")
               PROVE  config[w] = "open" /\ \E c \in Clients : At(c, "put", "owned")
                                                               /\ req[c].widget = w
    BY DEF Inv
  <2>1. ASSUME NEW c \in Clients, Handle(c)
        PROVE  config[w] = "open" /\ At(c, "put", "owned") /\ req[c].widget = w
    <3>1. config \in [Widgets -> Placements \cup {"absent"}] /\ key \in [Widgets -> BOOLEAN]
      BY DEF ServerInv, ServerTypeOK
    <3>2. CASE Create(c)
      <4>1. key[w] /\ config[w] # "absent"
        BY <3>2 DEF Create, ServerInv, KeyHasWidget, Exists
      <4>2. config'[w] = config[w]
        BY <3>1, <3>2, <4>1 DEF Create, Exists
      <4>3. QED
        BY <4>1, <4>2
    <3>3. CASE PatchConfig(c)
      BY <3>1, <3>3 DEF PatchConfig, KeyAfter
    <3>4. CASE PutKey(c)
      BY <3>1, <3>4 DEF PutKey
    <3>5. CASE PutCheck(c) \/ RemoveKey(c) \/ DeleteWidget(c)
      BY <3>1, <3>5 DEF PutCheck, RemoveKey, DeleteWidget
    <3>6. QED
      BY <2>1, <3>2, <3>3, <3>4, <3>5 DEF Handle
  <2>2. CASE UNCHANGED <<config, key>>
    BY <2>2
  <2>3. QED
    BY <2>1, <2>2
       DEF Next, Server, ComesDue, Poll, StartPoll, LoadCredential, FinishPoll, OpenToCreate,
           OpenToEdit, Close, Answer, Loaded, Submit, SaveFails, SendKey, SaveEnds, Ask,
           Heard, vars, serverVars
<1>2. QED
  BY <1>1, Invariant, PTL DEF Spec, AuthOffRemovesKey

-----------------------------------------------------------------------------
(* What the modal waits for *)

\* A modal that waits for a widget has the load of its own session under way, whose
\* answer is not superseded and is about the target.
LoadToHear ==
    open /\ shown.state = "waiting" =>
        /\ session \in 1..MaxOpens /\ target # NoWidget
        /\ loads[session].pc # "none" /\ loads[session].widget = target

\* A form that is submitting has a save still running.
SaveToHear ==
    open /\ shown.state = "form" /\ status = "submitting" =>
        \E v \in Saves : save[v].phase # "none"

\* A save that runs has a request with the server, or its answer.
RequestToHear ==
    \A v \in Saves :
        /\ save[v].phase = "config" =>
               req[v].op \in {"create", "patch"} /\ req[v].pc \in {"sent", "ok", "failed"}
        /\ save[v].phase = "key" =>
               /\ req[v].op = "put" /\ req[v].pc \in {"sent", "owned", "ok", "failed"}
               /\ save[v].secret

\* The modal never waits for what nobody will answer: however it is closed and
\* reopened around its loads and saves, a wait has a cause that is still to come.
WaitHasReason == LoadToHear /\ SaveToHear /\ RequestToHear

\* The request of a client that is no save, or one that moves on.
LEMMA RequestsApart ==
    ASSUME RequestToHear, UNCHANGED save, NEW c, \A d \in Clients \ {c} : req'[d] = req[d],
           c \in Saves =>
               /\ save[c].phase = "config" =>
                      req'[c].op \in {"create", "patch"} /\ req'[c].pc \in {"sent", "ok", "failed"}
               /\ save[c].phase = "key" =>
                      req'[c].op = "put" /\ req'[c].pc \in {"sent", "owned", "ok", "failed"}
    PROVE  RequestToHear'
BY ModalAssumption DEF RequestToHear

LEMMA HandleAnswers ==
    ASSUME ServerInv, RequestToHear, NEW c \in Clients, Handle(c), UNCHANGED save
    PROVE  RequestToHear'
<1>1. req \in [Clients -> Request]
  BY DEF ServerInv, ServerTypeOK, Request
<1>2. ASSUME NEW pc \in {"owned", "ok", "failed"}, To(c, pc),
             req[c].op \in {"create", "patch"} => pc # "owned"
      PROVE  RequestToHear'
  <2>1. /\ req'[c].op = req[c].op /\ req'[c].pc = pc
        /\ \A d \in Clients \ {c} : req'[d] = req[d]
    BY <1>1, <1>2 DEF To, Request
  <2>2. c \in Saves =>
          /\ save[c].phase = "config" => req'[c].op \in {"create", "patch"} /\ req'[c].pc \in {"sent", "ok", "failed"}
          /\ save[c].phase = "key" => req'[c].op = "put" /\ req'[c].pc \in {"sent", "owned", "ok", "failed"}
    BY <1>2, <2>1 DEF RequestToHear
  <2> QED
    BY <2>1, <2>2, RequestsApart
<1>3. CASE Create(c)
  <2>1. ASSUME NEW w \in Widgets, req' = [req EXCEPT ![c].widget = w, ![c].pc = "ok"]
        PROVE  RequestToHear'
    <3>1. /\ req'[c].op = req[c].op /\ req'[c].pc = "ok" /\ req[c].op = "create"
          /\ \A d \in Clients \ {c} : req'[d] = req[d]
      BY <1>1, <1>3, <2>1 DEF Request, Create, At
    <3> QED
      BY <3>1, RequestsApart DEF RequestToHear
  <2>2. CASE To(c, "failed")
    BY <1>2, <2>2
  <2> QED
    BY <1>3, <2>1, <2>2 DEF Create
<1>4. CASE PutCheck(c)
  BY <1>2, <1>4 DEF PutCheck, At
<1>5. CASE PatchConfig(c) \/ PutKey(c) \/ RemoveKey(c) \/ DeleteWidget(c)
  <2>1. \E pc \in {"ok", "failed"} : To(c, pc)
    BY <1>5 DEF PatchConfig, PutKey, RemoveKey, DeleteWidget
  <2> QED
    BY <1>2, <2>1
<1> QED
  BY <1>3, <1>4, <1>5 DEF Handle

LEMMA LoadKeepsReason ==
    ASSUME Inv, WaitHasReason, NEW n \in 1..MaxOpens, Answer(n) \/ Loaded(n)
    PROVE  WaitHasReason'
<1>1. loads \in [1..MaxOpens -> Load] /\ UNCHANGED <<open, target, session, save, req>>
  BY DEF Answer, Loaded, Inv, ModalInv, serverVars
<1>2. RequestToHear'
  BY <1>1 DEF WaitHasReason, RequestToHear
<1>3. CASE Answer(n)
  <2>1. /\ loads'[n].pc # "none" /\ loads'[n].widget = loads[n].widget
        /\ \A m \in 1..MaxOpens \ {n} : loads'[m] = loads[m]
    <3>1. loads[n] \in Load
      BY <1>1
    <3>2. CASE loads' = [loads EXCEPT ![n].pc = "failed"]
      <4>1. /\ loads'[n].pc = "failed" /\ loads'[n].widget = loads[n].widget
        BY <1>1, <3>1, <3>2 DEF Load
      <4>2. \A m \in 1..MaxOpens \ {n} : loads'[m] = loads[m]
        BY <1>1, <3>2
      <4> QED
        BY <4>1, <4>2
    <3>3. ASSUME NEW has, loads' = [loads EXCEPT ![n] = [widget |-> loads[n].widget, pc |-> "ok",
                                                         has |-> has]]
          PROVE  /\ loads'[n].pc # "none" /\ loads'[n].widget = loads[n].widget
                 /\ \A m \in 1..MaxOpens \ {n} : loads'[m] = loads[m]
      BY <1>1, <3>3
    <3> QED
      BY <1>3, <3>2, <3>3 DEF Answer
  <2>2. UNCHANGED <<shown, status>>
    BY <1>3 DEF Answer
  <2> QED
    BY <1>1, <1>2, <2>1, <2>2 DEF WaitHasReason, LoadToHear, SaveToHear
<1>4. CASE Loaded(n)
  <2>1. \A m \in 1..MaxOpens \ {n} : loads'[m] = loads[m]
    BY <1>1, <1>4 DEF Loaded
  <2>2. CASE n = session /\ target # NoWidget /\ open
    <3>1. shown' = Blank("failed") \/
          shown' = [state |-> "form", widget |-> loads[n].widget, has |-> loads[n].has]
      BY <1>4, <2>2 DEF Loaded, Superseded
    <3>2. shown'.state = "failed" \/ (shown'.state = "form" /\ status' = "idle")
      <4>1. CASE loads[n].pc = "failed"
        BY <1>4, <2>2, <4>1 DEF Loaded, Superseded, Blank
      <4>2. CASE loads[n].pc = "ok"
        BY <1>4, <2>2, <4>2 DEF Loaded, Superseded
      <4> QED
        BY <1>4, <4>1, <4>2 DEF Loaded
    <3> QED
      BY <1>2, <3>2 DEF WaitHasReason, LoadToHear, SaveToHear
  <2>3. CASE ~(n = session /\ target # NoWidget /\ open)
    <3>1. UNCHANGED shown /\ (open => UNCHANGED status)
      BY <1>4, <2>3 DEF Loaded, Superseded
    <3>2. open /\ shown.state = "waiting" => n # session
      BY <2>3 DEF WaitHasReason, LoadToHear
    <3> QED
      BY <1>1, <1>2, <2>1, <3>1, <3>2 DEF WaitHasReason, LoadToHear, SaveToHear
  <2> QED
    BY <2>2, <2>3
<1> QED
  BY <1>3, <1>4

LEMMA OpenToEditWaits ==
    ASSUME Inv, WaitHasReason, NEW w \in Widgets, OpenToEdit(w)
    PROVE  WaitHasReason'
<1>1. session' \in 1..MaxOpens /\ session' = session + 1
  BY ModalAssumption DEF OpenToEdit, Inv, ModalInv
<1>2. loads'[session'].widget = w /\ loads'[session'].pc = "sent"
  BY <1>1 DEF OpenToEdit, Inv, ModalInv, NoLoad, Load
<1>3. target' = w /\ w # NoWidget /\ UNCHANGED <<save, req>> /\ shown'.state = "waiting"
  BY ModalAssumption, BlankType DEF OpenToEdit, serverVars
<1> QED
  BY <1>1, <1>2, <1>3 DEF WaitHasReason, LoadToHear, SaveToHear, RequestToHear

LEMMA SaveKeepsReason ==
    ASSUME Inv, WaitHasReason, NEW v \in Saves,
           Submit(v) \/ SaveFails(v) \/ SendKey(v) \/ SaveEnds(v)
    PROVE  WaitHasReason'
<1>1. /\ req \in [Clients -> Request] /\ save \in [Saves -> Phases] /\ v \in Clients
      /\ Saves \subseteq Clients /\ WaitHasReason
  BY ModalAssumption DEF Inv, ServerInv, ServerTypeOK, Request, ModalInv
<1>2. CASE Submit(v)
  <2>1. PICK auth \in BOOLEAN, secret \in BOOLEAN :
          /\ save' = [save EXCEPT ![v] = [phase |-> "config",
                                          secret |-> SubmittedSecret(auth, secret)]]
          /\ req' = [req EXCEPT ![v] = Call(IF target = NoWidget THEN "create" ELSE "patch",
                                            target, PlacementOf(auth))]
    BY <1>2 DEF Submit
  <2>2. save'[v].phase = "config" /\ \A u \in Saves \ {v} : save'[u] = save[u]
    BY <1>1, <2>1
  <2>3. /\ req'[v].op \in {"create", "patch"} /\ req'[v].pc = "sent"
        /\ \A c \in Clients \ {v} : req'[c] = req[c]
    BY <1>1, <2>1 DEF Call
  <2>4. RequestToHear'
    BY <1>1, <2>2, <2>3 DEF WaitHasReason, RequestToHear
  <2>5. UNCHANGED <<open, target, session, loads, shown>> /\ open /\ shown.state = "form"
    BY <1>2 DEF Submit, OnForm
  <2> QED
    BY <2>2, <2>4, <2>5 DEF WaitHasReason, LoadToHear, SaveToHear
<1>3. CASE SaveFails(v) \/ SaveEnds(v)
  <2>1. save' = [save EXCEPT ![v] = Done] /\ req' = [req EXCEPT ![v] = Quiet]
    BY <1>3 DEF SaveFails, SaveEnds
  <2>2. /\ save'[v].phase = "none" /\ \A u \in Saves \ {v} : save'[u] = save[u]
        /\ \A c \in Clients \ {v} : req'[c] = req[c]
    BY <1>1, <2>1 DEF Done
  <2>3. RequestToHear'
    BY <1>1, <2>2 DEF WaitHasReason, RequestToHear
  <2>4. UNCHANGED <<target, session, loads>>
    BY <1>3 DEF SaveFails, SaveEnds
  <2>5. CASE SaveFails(v)
    <3>1. status' = "error" /\ UNCHANGED <<open, shown>>
      BY <2>5 DEF SaveFails, FailedStatus
    <3> QED
      BY <1>1, <2>3, <2>4, <3>1 DEF WaitHasReason, LoadToHear, SaveToHear
  <2>6. CASE SaveEnds(v)
    <3>1. open' = FALSE
      BY <2>6 DEF SaveEnds
    <3> QED
      BY <2>3, <3>1 DEF WaitHasReason, LoadToHear, SaveToHear
  <2> QED
    BY <1>3, <2>5, <2>6
<1>4. CASE SendKey(v)
  <2>1. /\ save' = [save EXCEPT ![v].phase = "key"] /\ save[v].secret
        /\ req' = [req EXCEPT ![v] = Call("put", req[v].widget, "open")]
        /\ UNCHANGED <<open, target, session, loads, shown, status>>
    BY <1>4 DEF SendKey
  <2>2. /\ save'[v].phase = "key" /\ save'[v].secret = save[v].secret
        /\ \A u \in Saves \ {v} : save'[u] = save[u]
    BY <1>1, <2>1 DEF Phases
  <2>3. /\ req'[v].op = "put" /\ req'[v].pc = "sent"
        /\ \A c \in Clients \ {v} : req'[c] = req[c]
    BY <1>1, <2>1 DEF Call
  <2>4. RequestToHear'
    BY <1>1, <2>1, <2>2, <2>3 DEF WaitHasReason, RequestToHear
  <2>5. SaveToHear'
    BY <1>1, <2>1, <2>2 DEF WaitHasReason, SaveToHear
  <2> QED
    BY <1>1, <2>1, <2>4, <2>5 DEF WaitHasReason, LoadToHear
<1> QED
  BY <1>2, <1>3, <1>4

LEMMA WaitNext == Inv /\ WaitHasReason /\ [Next]_vars => WaitHasReason'
<1> SUFFICES ASSUME Inv, WaitHasReason, [Next]_vars PROVE WaitHasReason'
  OBVIOUS
<1>1. ASSUME UNCHANGED modalVars, RequestToHear' PROVE WaitHasReason'
  BY <1>1 DEF WaitHasReason, LoadToHear, SaveToHear, modalVars
<1>2. CASE Server
  <2>1. ASSUME NEW c \in Clients, Handle(c), UNCHANGED modalVars PROVE WaitHasReason'
    BY <1>1, <2>1, HandleAnswers DEF Inv, WaitHasReason, modalVars
  <2>2. ASSUME NEW w \in Shared, ComesDue(w) \/ Poll(w), UNCHANGED modalVars PROVE WaitHasReason'
    <3>1. UNCHANGED req
      BY <2>2 DEF ComesDue, Poll, StartPoll, LoadCredential, FinishPoll
    <3> QED
      BY <1>1, <2>2, <3>1 DEF WaitHasReason, RequestToHear, modalVars
  <2> QED
    BY <1>2, <2>1, <2>2 DEF Server
<1>3. CASE OpenToCreate \/ Close
  <2>1. UNCHANGED <<save, req>> /\ shown'.state = "form" /\ (open' => status' = "idle")
    BY <1>3, BlankType DEF OpenToCreate, Close, serverVars
  <2> QED
    BY <2>1 DEF WaitHasReason, LoadToHear, SaveToHear, RequestToHear
<1>4. ASSUME NEW c \in Others, Ask(c) \/ Heard(c) PROVE WaitHasReason'
  <2>1. c \in Clients \ Saves /\ UNCHANGED modalVars
    BY <1>4 DEF Others, Ask, Heard
  <2>2. PICK r : req' = [req EXCEPT ![c] = r]
    BY <1>4 DEF Ask, Heard
  <2>3. \A d \in Clients \ {c} : req'[d] = req[d]
    BY <2>2 DEF Inv, ServerInv, ServerTypeOK
  <2> QED
    BY <1>1, <2>1, <2>3, RequestsApart DEF WaitHasReason, modalVars
<1>5. CASE UNCHANGED vars
  BY <1>1, <1>5 DEF vars, modalVars, WaitHasReason, RequestToHear
<1> QED
  BY <1>2, <1>3, <1>4, <1>5, OpenToEditWaits, LoadKeepsReason, SaveKeepsReason DEF Next

\* The modal waits only for what is still to come, with any number of saves running
\* behind it and however often it was closed and reopened: a load whose answer it
\* will take, or a save whose request the server holds (WidgetConfigModal.svelte).
THEOREM WaitsAreAnswerable == Spec => []WaitHasReason
<1>1. Init => WaitHasReason
  BY BlankType DEF Init, Done, WaitHasReason, LoadToHear, SaveToHear, RequestToHear
<1> QED
  BY <1>1, Invariant, WaitNext, PTL DEF Spec
=============================================================================
