------------------------------ MODULE Snapshots ------------------------------
(***************************************************************************)
(* A server-polled widget's snapshots after the worker wrote them: the     *)
(* purge (worker/jobs/purge-snapshots.ts), the history endpoint and the    *)
(* refresh route (api/routes/widgets.ts, lib/refresh-lock.ts), and what    *)
(* the tile draws of a history (renderers/snapshots.ts,                    *)
(* widgets/uptime-timeline.ts).                                            *)
(*                                                                         *)
(* One widget.  Its rows are listed oldest first; a row is its age and     *)
(* what its poll ended in: a reading, a failure, or a value that no        *)
(* reader understands.                                                     *)
(***************************************************************************)
EXTENDS Outages, FiniteSets, Sequences, SequencesExt

CONSTANTS Retentions,  \* the retentions a user may choose, in ticks
          BatchSize,   \* PURGE_BATCH_SIZE
          MaxBatches,  \* MAX_BATCHES_PER_RUN
          PurgeEvery,  \* PURGE_INTERVAL_MS, in ticks
          LockTicks,   \* REFRESH_LOCK_SECONDS, in ticks
          MaxPoints,   \* MAX_SNAPSHOT_POINTS
          MaxBuckets,  \* the marks a strip has room for
          MaxRows,     \* rows at once (bounds the model)
          Clicks       \* refresh requests at once (bounds the model)

ASSUME SnapshotAssumption ==
  /\ LockTicks \in Nat \ {0} /\ MaxBatches \in Nat \ {0}
  /\ PurgeEvery \in Nat /\ MaxRows \in Nat
  /\ MaxPoints \in Nat \ {0} /\ MaxBuckets \in Nat \ {0}
  /\ Retentions \subseteq Nat /\ \E l \in Retentions : \A r \in Retentions : r <= l

VARIABLES rows,       \* widget_snapshots, oldest first
          polled,     \* whether the widget was polled since the last tick
          retention,  \* the widget's retention_hours
          batches,    \* the batches the purge under way has done, or Resting
          untilPurge, \* ticks until the scheduler adds the next purge
          lock,       \* ticks the refresh lock still holds
          clicks,     \* refresh requests: how far each is
          enqueued    \* polls enqueued by refreshes since the lock was taken, 2 for more

snapshotVars == <<rows, polled, retention, batches, untilPurge, lock, clicks, enqueued>>

Smaller(a, b) == IF a < b THEN a ELSE b

Resting   == MaxBatches + 1
Longest   == CHOOSE r \in Retentions : \A s \in Retentions : s <= r
Readings  == {"up", "down"}
Outcomes  == Readings \cup {"error", "odd"}
Rows      == [age : 0..Longest + 1, outcome : Outcomes]
SnapshotTypeOK ==
  /\ rows \in Seq(Rows) /\ Len(rows) <= MaxRows
  /\ polled \in BOOLEAN /\ retention \in Retentions
  /\ batches \in 0..MaxBatches - 1 \cup {Resting} /\ untilPurge \in 0..PurgeEvery
  /\ lock \in 0..LockTicks /\ enqueued \in 0..2
  /\ clicks \in [Clicks -> {"idle", "claimed", "202", "429", "503"}]

SnapshotInit ==
  /\ rows = <<>> /\ polled = FALSE /\ retention = Longest
  /\ batches = Resting /\ untilPurge = PurgeEvery
  /\ lock = 0 /\ enqueued = 0 /\ clicks = [c \in Clicks |-> "idle"]

(***************************************************************************)
(* Rows come with polls and go with the purge.                             *)
(***************************************************************************)
Poll(outcome) ==
  /\ ~polled /\ Len(rows) < MaxRows
  /\ rows' = Append(rows, [age |-> 0, outcome |-> outcome])
  /\ polled' = TRUE
  /\ UNCHANGED <<outages, retention, batches, untilPurge, lock, clicks, enqueued>>

ChangeRetention(r) ==
  /\ r # retention /\ retention' = r
  /\ UNCHANGED <<outages, rows, polled, batches, untilPurge, lock, clicks, enqueued>>

\* Mutant: off by one.
ExpiredEarly == {i \in DOMAIN rows : rows[i].age >= retention}

Expired == {i \in DOMAIN rows : rows[i].age > retention}

\* Deleting rows: those that stay keep their order.
Delete(gone) ==
  LET stay == DOMAIN rows \ gone
  IN  \E kept \in [1..Cardinality(stay) -> stay] :
        /\ \A i, j \in DOMAIN kept : i < j => kept[i] < kept[j]
        /\ rows' = [k \in DOMAIN kept |-> rows[kept[k]]]

StartPurge ==
  /\ batches = Resting /\ untilPurge = 0
  /\ batches' = 0 /\ untilPurge' = PurgeEvery
  /\ UNCHANGED <<outages, rows, polled, retention, lock, clicks, enqueued>>

\* Mutant: one batch a run.
PurgeOneBatch ==
  \E gone \in SUBSET Expired :
    /\ batches # Resting
    /\ Cardinality(gone) = IF Cardinality(Expired) < BatchSize
                           THEN Cardinality(Expired) ELSE BatchSize
    /\ Delete(gone)
    /\ batches' = Resting
    /\ UNCHANGED <<outages, polled, retention, untilPurge, lock, clicks, enqueued>>

\* A batch takes expired rows in any order; one that is not full ends the run,
\* and so does the last the cap allows.
PurgeBatch ==
  \E gone \in SUBSET Expired :
    /\ batches # Resting
    /\ Cardinality(gone) = IF Cardinality(Expired) < BatchSize
                           THEN Cardinality(Expired) ELSE BatchSize
    /\ Delete(gone)
    /\ batches' = IF Cardinality(gone) < BatchSize \/ batches + 1 = MaxBatches
                  THEN Resting ELSE batches + 1
    /\ UNCHANGED <<outages, polled, retention, untilPurge, lock, clicks, enqueued>>

\* A failed statement or a worker that stops ends the run; the next is due as
\* scheduled.
PurgeStops ==
  /\ batches # Resting /\ trouble
  /\ batches' = Resting
  /\ UNCHANGED <<outages, rows, polled, retention, untilPurge, lock, clicks, enqueued>>

(***************************************************************************)
(* POST /v1/widgets/:id/refresh                                            *)
(***************************************************************************)
\* claimRefreshLock: SET NX EX. An unreachable Redis lets everyone through.
Refresh(c) ==
  /\ clicks[c] = "idle"
  /\ \/ /\ lock = 0 /\ lock' = LockTicks /\ enqueued' = 0
        /\ clicks' = [clicks EXCEPT ![c] = "claimed"]
     \/ /\ lock > 0 /\ clicks' = [clicks EXCEPT ![c] = "429"]
        /\ UNCHANGED <<lock, enqueued>>
     \/ /\ trouble /\ clicks' = [clicks EXCEPT ![c] = "claimed"]
        /\ UNCHANGED <<lock, enqueued>>
  /\ UNCHANGED <<outages, rows, polled, retention, batches, untilPurge>>

\* enqueuePoll: the queue's connection waits for Redis rather than fail.
Enqueue(c) ==
  /\ clicks[c] = "claimed"
  /\ \/ /\ ~trouble /\ enqueued' = Smaller(enqueued + 1, 2)
        /\ clicks' = [clicks EXCEPT ![c] = "202"]
     \/ trouble /\ clicks' = [clicks EXCEPT ![c] = "503"] /\ UNCHANGED enqueued
  /\ UNCHANGED <<outages, rows, polled, retention, batches, untilPurge, lock>>

Answered(c) ==
  /\ clicks[c] \in {"202", "429", "503"}
  /\ clicks' = [clicks EXCEPT ![c] = "idle"]
  /\ UNCHANGED <<outages, rows, polled, retention, batches, untilPurge, lock, enqueued>>

(***************************************************************************)
(* The history, from the rows to the strip of an uptime tile.              *)
(***************************************************************************)
\* The rows of a list that ended in one of these outcomes: SelectSeq, as a function
\* that a proof can unfold.
Only(list, outcomes) ==
  LET upTo[n \in 0..Len(list)] ==
        IF n = 0 THEN <<>>
        ELSE IF list[n].outcome \in outcomes THEN Append(upTo[n - 1], list[n]) ELSE upTo[n - 1]
  IN  upTo[Len(list)]

Newest == Reverse(rows)

\* Mutant: the cap keeps the oldest.
PointsOldest == SubSeq(rows, 1, Smaller(MaxPoints, Len(rows)))

\* GET snapshots: the newest rows, as many as a chart has points, oldest first.
Points == Reverse(SubSeq(Newest, 1, Smaller(MaxPoints, Len(rows))))

\* toUptimePoint: a check that failed is downtime, whatever it failed of; a value
\* that does not read as one is no point.
Down         == {"down", "error"}
Drawable     == Outcomes \ {"odd"}
UptimePoints == Only(Points, Drawable)

Ceiling(n, d) == (n + d - 1) \div d

\* bucketUptime: runs of equal size; one failure makes a bucket a failure.
Bucket(slice) ==
  LET failures == Len(Only(slice, Down))
  IN  [down |-> failures > 0, total |-> Len(slice), failures |-> failures,
       from |-> slice[1].age, to |-> slice[Len(slice)].age]

BucketSize(total) == Ceiling(total, MaxBuckets)

Strip ==
  LET points == UptimePoints
      size   == BucketSize(Len(points))
  IN  IF points = <<>> THEN <<>>
      ELSE [b \in 1..Ceiling(Len(points), size) |->
              Bucket(SubSeq(points, (b - 1) * size + 1, Smaller(b * size, Len(points))))]

\* fetchPriceHistory: a price chart skips what is no price, a failed poll too.
PriceLine == Only(Points, Readings)

\* widgetState, which WidgetFrame draws: loading and error by itself, a value
\* through the widget's renderer.
FrameState ==
  IF rows = <<>> THEN "loading"
  ELSE IF Newest[1].outcome = "error" THEN "error" ELSE "value"

\* toUptimeView, when the frame leaves it to the renderer.
TileSays ==
  IF FrameState # "value" THEN FrameState
  ELSE IF Newest[1].outcome = "odd" THEN "unreadable" ELSE Newest[1].outcome

(***************************************************************************)
(* Time, and the steps together.                                           *)
(***************************************************************************)
Less(n) == IF n = 0 THEN 0 ELSE n - 1

\* A tick is longer than a purge or a request, unless an outage holds them up.
SnapshotTick ==
  /\ ~trouble => batches = Resting /\ \A c \in Clicks : clicks[c] # "claimed"
  /\ untilPurge > 0 \/ batches # Resting
  /\ rows' = [i \in DOMAIN rows |->
                IF rows[i].age > Longest THEN rows[i] ELSE [rows[i] EXCEPT !.age = @ + 1]]
  /\ polled' = FALSE
  /\ untilPurge' = Less(untilPurge) /\ lock' = Less(lock)
  /\ UNCHANGED <<outages, retention, batches, clicks, enqueued>>

RowsNext ==
  \/ \E outcome \in Outcomes : Poll(outcome)
  \/ \E r \in Retentions : ChangeRetention(r)
  \/ StartPurge \/ PurgeBatch \/ PurgeStops \/ SnapshotTick

RefreshNext ==
  \/ \E c \in Clicks : Refresh(c) \/ Enqueue(c) \/ Answered(c)
  \/ SnapshotTick \/ StartPurge \/ PurgeBatch

(***************************************************************************)
(* Properties.                                                             *)
(***************************************************************************)
Retained == {i \in DOMAIN rows : rows[i].age <= retention}

\* The purge never takes a row the widget's own retention still covers, even one
\* changed while a run goes on.
NothingRetainedGoes ==
  [][Len(rows') < Len(rows) => Cardinality(Retained') = Cardinality(Retained)]_snapshotVars

\* Whatever a run leaves when it reaches its cap or fails, the purge keeps up with
\* the polls: time and again no expired row is left.
PurgeKeepsUp == <>[]~trouble => []<>(Expired = {})

\* While Redis answers, one lock lets one poll be enqueued, however many refreshes
\* arrive at once.
OncePerLock == troubles = 0 => enqueued <= 1

Sum(numbers) ==
  LET upTo[n \in 0..Len(numbers)] == IF n = 0 THEN 0 ELSE upTo[n - 1] + numbers[n]
  IN  upTo[Len(numbers)]

\* The strip is about the newest rows the endpoint may return: it has room, shows
\* every failure among them in a bucket marked down and no other, runs from old to
\* new and ends, as the price chart does, with the row the headline is about.
StripTellsTheRows ==
  LET recent == SubSeq(rows, Len(rows) - Smaller(MaxPoints, Len(rows)) + 1, Len(rows))
      last   == Strip[Len(Strip)]
  IN  /\ Len(Strip) <= MaxBuckets
      /\ Sum([b \in DOMAIN Strip |-> IF Strip[b].down THEN Strip[b].failures ELSE 0])
           = Len(Only(recent, Down))
      /\ Sum([b \in DOMAIN Strip |-> Strip[b].total]) = Len(Only(recent, Drawable))
      /\ \A b \in DOMAIN Strip : Strip[b].from >= Strip[b].to
      /\ TileSays \in Outcomes => last.to = rows[Len(rows)].age
      /\ TileSays \in {"down", "error"} => last.down
      /\ TileSays \in Readings => PriceLine[Len(PriceLine)] = rows[Len(rows)]
=============================================================================
