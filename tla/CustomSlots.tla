---------------------------- MODULE CustomSlots ----------------------------
(***************************************************************************)
(* The slots of a custom widget, from the form they are built in           *)
(* (apps/web/src/lib/modals/CustomWidgetForm.svelte) through the schema    *)
(* that saves them (packages/shared/src/widgets/custom-layout.ts), the     *)
(* poll that fills them, to the tile that draws them                       *)
(* (apps/web/src/lib/renderers/custom-json-adapter.ts, custom-series.ts,   *)
(* apps/web/src/lib/widgets/custom/CustomWidget.svelte).                   *)
(*                                                                         *)
(* A snapshot holds one entry per slot, by position. Between a save and    *)
(* the next poll the tile draws the new slots over the old entries.        *)
(***************************************************************************)
EXTENDS JsonFields

CONSTANTS Bodies,      \* the responses the endpoint may give
          MaxSlots,    \* MAX_SLOTS
          MaxHistory,  \* how many snapshots the model keeps
          TypedPaths,  \* the paths a user types; none: they are picked only
          MaxEdits     \* how many edits a user makes in all (bounds the model)

\* An older widget has two slots, so that a form must have room for them.
ASSUME SlotsAssumption ==
  /\ Bodies \subseteq Values
  /\ MaxSlots \in Nat \ {0, 1} /\ MaxHistory \in Nat \ {0} /\ MaxEdits \in Nat
  /\ TypedPaths \subseteq Seq(Keys \cup Indexes)

VARIABLES body,      \* what the endpoint answers
          form,      \* the open form: its slots, which one is unfolded, its preview
          saved,     \* the stored configuration, and whether it has been polled
          snapshots  \* newest last: one entry per slot of the time

slotsVars == <<body, form, saved, snapshots>>

Primitives == {"ring", "number", "gauge", "bar", "badge", "line", "uptime-strip", "image"}

\* PRIMITIVE_ACCEPTS: the kinds each can draw; the first is what kindForSlot
\* takes for a slot saved before kinds were.
PrimitiveAccepts(primitive) ==
  CASE primitive \in {"ring", "gauge", "bar"} -> <<"number">>
    [] primitive = "number"       -> <<"number", "string">>
    [] primitive = "badge"        -> <<"status", "string">>
    [] primitive = "line"         -> <<"series">>
    [] primitive = "uptime-strip" -> <<"status-series">>
    [] primitive = "image"        -> <<"image-url">>

Accepts(primitive, kind) == kind \in ToSet(PrimitiveAccepts(primitive))

KindForSlot(slot) == IF slot.kind = "unset" THEN Head(PrimitiveAccepts(slot.primitive)) ELSE slot.kind

\* PRIMITIVES_BY_CLASS orders the menu and hides nothing.
AllPrimitives == <<"ring", "number", "gauge", "bar", "badge", "line", "uptime-strip", "image">>
Preferred(class) ==
  CASE class = "feature" -> <<"ring", "number", "gauge", "image">>
    [] class = "compact" -> <<"bar", "number", "badge">>
    [] class = "wide"    -> <<"line", "bar", "uptime-strip", "image">>
\* (One that is listed twice counts where it comes first.)
PrimitivesForClass(class) == Preferred(class) \o AllPrimitives

ArrangementFor(count) ==
  CASE count <= 1 -> <<"feature">>
    [] count = 2  -> <<"feature", "wide">>
    [] OTHER      -> [i \in 1..count |-> "compact"]

\* LAYOUTS, and none.
Layouts == {"none", "single", "split", "hero-strip", "trio"}

\* The named layouts and how many slots each draws; "none" is by slot count.
SlotClasses(layout) ==
  CASE layout = "single"     -> <<"feature">>
    [] layout = "split"      -> <<"feature", "wide">>
    [] layout = "hero-strip" -> <<"feature", "compact", "compact">>
    [] layout = "trio"       -> <<"compact", "compact", "compact">>

\* CustomWidget draws the panes of a named layout, whatever slots there are, and
\* one pane for each slot otherwise.
Panes(layout, slots) ==
  IF layout # "none" THEN SlotClasses(layout) ELSE ArrangementFor(Len(slots))

\* (A layout is taken as it comes.)
AnyArity(layout, slots) == TRUE

RefineSlotsAgainstLayout(layout, slots) ==
  layout # "none" => Len(slots) = Len(SlotClasses(layout))

(***************************************************************************)
(* The form.                                                               *)
(***************************************************************************)
Slot(primitive, kind, path) == [primitive |-> primitive, kind |-> kind, path |-> path]
BlankSlot == Slot("number", "number", <<>>)

NoForm  == [open |-> FALSE, slots |-> <<>>, layout |-> "none", preview |-> {}, edits |-> 0]

\* CustomWidgetSubmission: the slots, and the layout of an older widget.
Submission(slots, layout) == [slots |-> slots, layout |-> layout, polled |-> FALSE]
NoWidget == Submission(<<>>, "none")

\* Before anything else: no widget, or one saved before kinds and free slots.
OldWidget ==
  Submission(<<Slot("ring", "unset", <<"a">>), Slot("line", "unset", <<"b">>)>>, "split")

SlotsInit ==
  /\ body \in Bodies
  /\ form = NoForm
  /\ saved \in {NoWidget, OldWidget}
  /\ snapshots = <<>>

OpenForm ==
  /\ ~form.open
  /\ form' = [form EXCEPT !.open = TRUE,
                !.slots = IF saved = NoWidget THEN <<BlankSlot>>
                          ELSE [i \in DOMAIN saved.slots |->
                                  [saved.slots[i] EXCEPT !.kind = KindForSlot(saved.slots[i])]],
                !.layout = saved.layout]
  /\ UNCHANGED <<body, saved, snapshots>>

Editing == form.open /\ form.edits < MaxEdits /\ UNCHANGED <<body, saved, snapshots>>
SetSlots(slots) == form' = [form EXCEPT !.slots = slots, !.edits = @ + 1]

AddSlot ==
  /\ Editing /\ Len(form.slots) < MaxSlots
  /\ SetSlots(Append(form.slots, BlankSlot))
RemoveSlot(i) ==
  /\ Editing /\ Len(form.slots) > 1
  /\ SetSlots(RemoveAt(form.slots, i))

Menu(i) == PrimitivesForClass(ArrangementFor(Len(form.slots))[i])
AllowedPrimitives(i, kind) == {p \in ToSet(Menu(i)) : Accepts(p, kind)}
FirstAllowed(i, kind) ==
  LET first == CHOOSE k \in DOMAIN Menu(i) :
                 Accepts(Menu(i)[k], kind) /\ \A j \in 1..k - 1 : ~Accepts(Menu(i)[j], kind)
  IN  Menu(i)[first]

\* setKind: the first primitive that can draw the kind, unless this one can.
OfKind(i, kind) ==
  IF Accepts(form.slots[i].primitive, kind) THEN [form.slots[i] EXCEPT !.kind = kind]
  ELSE [form.slots[i] EXCEPT !.kind = kind, !.primitive = FirstAllowed(i, kind)]

SetKind(i, kind) == Editing /\ SetSlots([form.slots EXCEPT ![i] = OfKind(i, kind)])
ChoosePrimitive(i) ==
  /\ Editing
  /\ \E p \in AllowedPrimitives(i, form.slots[i].kind) :
       SetSlots([form.slots EXCEPT ![i].primitive = p])
TypePath(i, path) ==
  /\ Editing
  /\ SetSlots([form.slots EXCEPT ![i].path = path])

RunPreview ==
  /\ Editing
  /\ form' = [form EXCEPT !.preview = PreviewFields(body), !.edits = @ + 1]

\* pickField: the path, and the kind that was seen there.
PickField(i) ==
  /\ Editing
  /\ \E field \in form.preview :
       SetSlots([form.slots EXCEPT ![i] = [OfKind(i, field.kind) EXCEPT !.path = field.path]])

CanSubmit == \A i \in DOMAIN form.slots : form.slots[i].path # <<>>
\* CustomJsonConfig, as the api parses it.
Valid(slots, layout) ==
  /\ \A i \in DOMAIN slots : ParseJsonPath(slots[i].path)
  /\ RefineSlotsAgainstLayout(layout, slots)

\* A refused save leaves the form as it was.
Submit ==
  /\ form.open /\ CanSubmit /\ Valid(form.slots, form.layout)
  /\ saved' = Submission(form.slots, form.layout)
  /\ form' = [NoForm EXCEPT !.edits = form.edits]
  /\ UNCHANGED <<body, snapshots>>

(***************************************************************************)
(* The poll and the tile.                                                  *)
(***************************************************************************)
Poll ==
  /\ saved # NoWidget
  /\ LET entries == [i \in DOMAIN saved.slots |-> ResolveSlot(body, saved.slots[i])]
         new == [entries |-> entries, error |-> \A i \in DOMAIN entries : ~entries[i].ok]
         kept == Append(snapshots, new) IN
     snapshots' = IF Len(kept) > MaxHistory THEN Tail(kept) ELSE kept
  /\ saved' = [saved EXCEPT !.polled = TRUE]
  /\ UNCHANGED <<body, form>>

EndpointChanges == body' \in Bodies /\ UNCHANGED <<form, saved, snapshots>>

\* slotValueAt: what one snapshot has for a position, if anything.
SlotValueAt(snapshot, i) ==
  IF snapshot.error \/ i > Len(snapshot.entries) THEN "undefined"
  ELSE IF snapshot.entries[i].ok THEN snapshot.entries[i].value ELSE "undefined"

\* lineSeries skips what is no number; statusSeries reads a gap as down, and a
\* word it does not know as degraded.
LineSeries(i) == SelectSeq(snapshots, LAMBDA s : SlotValueAt(s, i) = "number")
StatusSeries(i) ==
  [k \in DOMAIN snapshots |->
     CASE SlotValueAt(snapshots[k], i) = "undefined" -> "down"
       [] SlotValueAt(snapshots[k], i) = "flag" -> "up"
       [] OTHER -> "degraded"]

\* toSlotData: what the tile shows at one position.
SlotData(i) ==
  LET slot == saved.slots[i]
      latest == Last(snapshots) IN
  IF snapshots = <<>> \/ i > Len(latest.entries) THEN "loading"
  ELSE IF ~latest.entries[i].ok \/ latest.entries[i].value = "null" THEN "error"
  ELSE IF \/ slot.primitive = "line" /\ Len(LineSeries(i)) < 2
          \/ slot.primitive = "uptime-strip" /\ StatusSeries(i) = <<>> THEN "stale"
  ELSE "value"

\* toCustomJsonView: an error snapshot is the tile's one message.
TileFails == snapshots # <<>> /\ Last(snapshots).error

SlotsNext ==
  \/ OpenForm \/ AddSlot \/ RunPreview \/ Submit \/ Poll \/ EndpointChanges
  \/ \E i \in DOMAIN form.slots :
       \/ RemoveSlot(i) \/ ChoosePrimitive(i) \/ PickField(i)
       \/ \E kind \in DataKinds : SetKind(i, kind)
       \/ \E path \in TypedPaths : TypePath(i, path)

SlotsSpec == SlotsInit /\ [][SlotsNext]_slotsVars

-----------------------------------------------------------------------------
SlotsTypeOK ==
  /\ body \in Bodies
  /\ form.open \in BOOLEAN /\ Len(form.slots) <= MaxSlots
  /\ \A i \in DOMAIN form.slots :
       form.slots[i].primitive \in Primitives /\ form.slots[i].kind \in DataKinds
  /\ saved.layout \in Layouts
  /\ Len(snapshots) <= MaxHistory

\* Whatever is picked, typed, added or removed, and however old the widget that
\* was opened: a slot's primitive can draw the kind the slot declares
\* (custom-layout.ts:100-102, CustomWidgetForm.svelte:225-239).
LegalPairing ==
  \A i \in DOMAIN form.slots : Accepts(form.slots[i].primitive, form.slots[i].kind)

\* A saved widget has exactly one slot for each pane its tile draws, through every
\* edit and whether its layout is named or not, so that no pane is drawn from
\* nothing and no slot is left out (custom-layout.ts:372-388,
\* CustomWidget.svelte:81-178).
EveryPaneHasItsSlot ==
  saved # NoWidget => Len(saved.slots) = Len(Panes(saved.layout, saved.slots))

\* The form and the saved widget hold together: every slot's primitive can draw
\* its kind, and every pane of a named layout has its slot.
FormSound == SlotsTypeOK /\ LegalPairing /\ EveryPaneHasItsSlot

\* Every single value the preview offers under a path a config may hold is one
\* the poll can store, whichever of the primitives for its kind draws it, as long
\* as the endpoint answers the same (json-preview.ts:147-217 and
\* custom-json.ts:100-163 agree).
OfferedValueIsStored ==
  \A field \in PreviewFields(body), p \in Primitives :
    field.kind # "series" /\ field.path \notin LongPaths /\ Accepts(p, field.kind) =>
      ResolveSlot(body, Slot(p, field.kind, field.path)).ok

\* Once a poll has run on the saved slots, what the tile draws at a position is
\* what its primitive needs: a plotted value is a number, a picture a URL.
DrawnAsStored ==
  saved.polled /\ ~TileFails =>
    \A i \in DOMAIN saved.slots :
      SlotData(i) \in {"value", "stale"} =>
        /\ saved.slots[i].primitive \in NumericPrimitives => Last(snapshots).entries[i].value = "number"
        /\ saved.slots[i].primitive = "image" => Last(snapshots).entries[i].value = "image"

\* custom-layout.ts:100: the declared kind "narrows the primitive menu so an
\* impossible pairing [...] is unselectable rather than broken an hour later".
\* A slot picked from the preview polls, while the endpoint answers the same.
PickedFieldPolls ==
  \A i \in DOMAIN form.slots :
    [path |-> form.slots[i].path, kind |-> form.slots[i].kind] \in PreviewFields(body) =>
      ResolveSlot(body, form.slots[i]).ok
=============================================================================
