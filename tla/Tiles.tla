------------------------------- MODULE Tiles -------------------------------
(***************************************************************************)
(* What stands behind a tile of each kind: WidgetData for a client-polled  *)
(* one, Snapshots for a server-polled one, and the refresh route.  They    *)
(* share the outages around them and nothing else, so a behaviour follows  *)
(* one of them.                                                            *)
(***************************************************************************)
EXTENDS WidgetData, Snapshots

VARIABLE followed

vars == <<followed, outages, dataVars, snapshotVars>>

TypeOK == followed \in {"data", "rows", "refresh"} /\ DataTypeOK /\ SnapshotTypeOK

Init ==
  /\ followed \in {"data", "rows", "refresh"}
  /\ OutagesInit /\ DataInit /\ SnapshotInit

Outage ==
  /\ Break \/ Mend
  /\ UNCHANGED <<dataVars, snapshotVars>>

Next ==
  /\ UNCHANGED followed
  /\ \/ Outage
     \/ followed = "data" /\ DataNext /\ UNCHANGED snapshotVars
     \/ followed = "rows" /\ RowsNext /\ UNCHANGED dataVars
     \/ followed = "refresh" /\ RefreshNext /\ UNCHANGED dataVars

\* Calls run to their end, timers go off and time passes; outages need not end.
DataFairness ==
  /\ WF_<<outages, dataVars>>(followed = "data" /\ Interval)
  /\ WF_<<outages, dataVars>>(followed = "data" /\ Tick)
  /\ \A q \in Questions : WF_<<outages, dataVars>>(followed = "data" /\ Call(q))

\* Purges run and time passes; users and the poll owe nothing.
RowsFairness ==
  /\ WF_<<outages, snapshotVars>>(followed = "rows" /\ (StartPurge \/ PurgeBatch))
  /\ WF_<<outages, snapshotVars>>(followed = "rows" /\ SnapshotTick)

Spec == Init /\ [][Next]_vars /\ DataFairness /\ RowsFairness

\* A client-polled card that waits for nothing shows an answer to what it asks
\* now, no older than the caches on its way allow.
CardSound == ShowsWhatItAsks /\ NothingStale

\* The rows of a server-polled widget are told as they are, and a refresh lock
\* lets one poll through.
RowsSound == TypeOK /\ OncePerLock /\ StripTellsTheRows
=============================================================================
