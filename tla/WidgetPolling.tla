---------------------------- MODULE WidgetPolling ----------------------------
(***************************************************************************)
(* How a server-polled widget gets its data: the api creates, reconfigures *)
(* and refreshes widgets (apps/api/src/routes/widgets.ts), the scheduler   *)
(* sweep claims the due ones and enqueues a poll job for each              *)
(* (apps/worker/src/scheduler.ts), BullMQ delivers the jobs, retries the   *)
(* failed ones and redelivers those of a dead worker, and the poll handler *)
(* reads the widget, fetches its upstream and writes one snapshot          *)
(* (apps/worker/src/jobs/poll-widget.ts).                                  *)
(*                                                                         *)
(* Time.  last_polled_at is kept as an AGE, the whole ticks since that     *)
(* instant, rounded up, saturating at Horizon: a widget is due when its    *)
(* age exceeds its interval.  The state space is finite and time never     *)
(* stops, so liveness can be checked.                                      *)
(***************************************************************************)
EXTENDS Naturals, FiniteSets

CONSTANTS
    Widgets,          \* widget ids (uuids: an id is never used twice)
    Jobs,             \* identities of the poll jobs alive at once (bound)
    Slots,            \* concurrent executions of the poll handler, all replicas
    Sweepers,         \* replicas running the scheduler tick, one at a time each
    Configs,          \* valid widget configurations, told apart only by identity
    NoConfig,         \* the config {} of an unconfigured widget
    Intervals,        \* refresh intervals a caller may ask for, in ticks
    DefaultInterval,  \* the registry's defaultRefreshSeconds, in ticks
    NoInterval,       \* refresh_interval_seconds IS NULL, or a field not sent
    Horizon,          \* ages saturate here (bound)
    MaxSkew,          \* how far a worker's clock may lag the database's, in ticks
    MaxAttempts,      \* POLL_JOB_ATTEMPTS
    FirstAttempt,     \* job.attemptsMade during a job's first run: 0 or 1
    MaxStalls,        \* BullMQ's maxStalledCount
    BatchSize,        \* SCHEDULER_BATCH_SIZE
    Outcomes,         \* what a fetch of a configured widget may come back with
    MaxFaults         \* crashes and lost addBulk calls (bound)

ASSUME PollingAssumption ==
    /\ DefaultInterval \in Nat /\ Intervals \subseteq Nat
    /\ Horizon \in Nat /\ DefaultInterval < Horizon
    /\ \A i \in Intervals : i < Horizon
    /\ MaxSkew \in Nat /\ MaxSkew <= Horizon
    /\ MaxAttempts \in Nat \ {0} /\ FirstAttempt \in {0, 1}
    /\ MaxStalls \in Nat /\ BatchSize \in Nat \ {0} /\ MaxFaults \in Nat
    /\ NoConfig \notin Configs /\ NoInterval \notin Nat
    /\ Outcomes \subseteq {"value", "unstorable", "settled", "retryable"}

VARIABLES
    row,         \* the widgets table: status, config, refresh interval
    age,         \* ticks since last_polled_at, per widget
    snap,        \* the newest snapshot of each widget
    sweep,       \* per sweeper, the widgets claimed but not yet enqueued
    job,         \* the poll queue
    exec,        \* per slot, the run of processPollWidgetJob in progress
    pending,     \* widgets whose api request has committed, enqueuePoll to come
                 \* (bound: one such request per widget)
    lock,        \* widgets whose 30s refresh lock is held
    faults,      \* faults so far
    sinceClaim,  \* history: ticks since the last sweep claim or "due now" write
    unrecorded   \* history: widgets whose last failed job left no snapshot of it

vars == <<row, age, snap, sweep, job, exec, pending, lock, faults,
          sinceClaim, unrecorded>>

-----------------------------------------------------------------------------
NoSnap == [kind |-> "none", config |-> NoConfig]
NoJob == [state |-> "none"]
Idle == [phase |-> "idle"]

Age == 0 .. Horizon
AnyConfig == Configs \union {NoConfig}
Row == [status : {"new", "live", "gone"}, config : AnyConfig,
        interval : Intervals \union {DefaultInterval, NoInterval}]
Snapshot == {NoSnap} \union [kind : {"value", "error"}, config : AnyConfig]
Job == [state : {"waiting", "active", "delayed"}, widget : Widgets,
        made : 0 .. MaxAttempts - 1, stalls : 0 .. MaxStalls]
Result == {"value", "unstorable", "error"}
Fetching == [phase : {"fetching"}, job : Jobs, widget : Widgets, config : AnyConfig]
Writing == [phase : {"writing"}, job : Jobs, widget : Widgets, config : AnyConfig,
            result : Result]
Finishing == [phase : {"finishing"}, job : Jobs, widget : Widgets]
Run == {Idle} \union Fetching \union Writing \union Finishing

\* The registry, the rows and the queue always have these shapes; above all a
\* job never records more failed runs than its options allow.
TypeOK ==
    /\ row \in [Widgets -> Row]
    /\ age \in [Widgets -> Age]
    /\ snap \in [Widgets -> Snapshot]
    /\ sweep \in [Sweepers -> SUBSET Widgets]
    /\ job \in [Jobs -> {NoJob} \union Job]
    /\ exec \in [Slots -> Run]
    /\ pending \in SUBSET Widgets
    /\ lock \in SUBSET Widgets
    /\ faults \in 0 .. MaxFaults
    /\ sinceClaim \in [Widgets -> Age]
    /\ unrecorded \in SUBSET Widgets

Init ==
    /\ row = [w \in Widgets |-> [status |-> "new", config |-> NoConfig,
                                 interval |-> NoInterval]]
    /\ age = [w \in Widgets |-> 0]
    /\ snap = [w \in Widgets |-> NoSnap]
    /\ sweep = [s \in Sweepers |-> {}]
    /\ job = [j \in Jobs |-> NoJob]
    /\ exec = [s \in Slots |-> Idle]
    /\ pending = {}
    /\ lock = {}
    /\ faults = 0
    /\ sinceClaim = [w \in Widgets |-> Horizon]
    /\ unrecorded = {}

Live(w) == row[w].status = "live"
Configured(w) == Live(w) /\ row[w].config # NoConfig
Schedulable(w) == Live(w) /\ row[w].interval # NoInterval

\* dueNowLastPolledAt: now minus the registry's DEFAULT interval, whatever
\* interval the row has; one tick more once any time has passed.
DueNowAge == DefaultInterval + 1

-----------------------------------------------------------------------------
(* The api *)

Later(a) == IF a < Horizon THEN a + 1 ELSE a

Tick ==
    /\ age' = [w \in Widgets |-> Later(age[w])]
    /\ sinceClaim' = [w \in Widgets |-> Later(sinceClaim[w])]
    /\ UNCHANGED <<row, snap, sweep, job, exec, pending, lock, faults, unrecorded>>

\* POST /v1/boards/:id/widgets.  An unconfigured widget gets a null interval;
\* a configured one the caller's or the default, and a first poll at once.
Create(w) ==
    /\ row[w].status = "new"
    /\ \E c \in AnyConfig, i \in Intervals \union {NoInterval} :
         /\ row' = [row EXCEPT ![w] =
                [status |-> "live", config |-> c,
                 interval |-> IF c = NoConfig THEN NoInterval
                              ELSE IF i = NoInterval THEN DefaultInterval ELSE i]]
         /\ pending' = IF c = NoConfig THEN pending ELSE pending \union {w}
    /\ age' = [age EXCEPT ![w] = DueNowAge]
    /\ sinceClaim' = [sinceClaim EXCEPT ![w] = Horizon]
    /\ UNCHANGED <<snap, sweep, job, exec, lock, faults, unrecorded>>

\* PATCH before it learnt to seed the interval of a first configuration.
IntervalAsSent(w, i) == IF i # NoInterval THEN i ELSE row[w].interval

\* The caller's interval, else the default when the row was unconfigured, else
\* the one the row has.
IntervalWithConfig(w, i) ==
    IF i # NoInterval THEN i
    ELSE IF row[w].config = NoConfig THEN DefaultInterval ELSE row[w].interval

\* PATCH /v1/widgets/:id with a config, and perhaps an interval.
Reconfigure(w) ==
    /\ Live(w) /\ w \notin pending
    /\ \E c \in Configs, i \in Intervals \union {NoInterval} :
         row' = [row EXCEPT ![w] = [status |-> "live", config |-> c,
                                    interval |-> IntervalWithConfig(w, i)]]
    /\ age' = [age EXCEPT ![w] = DueNowAge]
    /\ sinceClaim' = [sinceClaim EXCEPT ![w] = Horizon]
    /\ pending' = pending \union {w}
    /\ UNCHANGED <<snap, sweep, job, exec, lock, faults, unrecorded>>

\* PATCH /v1/widgets/:id with an interval only: last_polled_at stays, and so
\* does the config, an empty one included.
Retime(w) ==
    /\ Live(w)
    /\ \E i \in Intervals : row' = [row EXCEPT ![w].interval = i]
    /\ UNCHANGED <<age, snap, sweep, job, exec, pending, lock, faults, sinceClaim,
                   unrecorded>>

\* DELETE /v1/widgets/:id: the snapshots go with the row (foreign key cascade);
\* jobs and a request about to enqueue one know nothing of it.
Delete(w) ==
    /\ Live(w)
    /\ row' = [row EXCEPT ![w].status = "gone"]
    /\ snap' = [snap EXCEPT ![w] = NoSnap]
    /\ UNCHANGED <<age, sweep, job, exec, pending, lock, faults, sinceClaim,
                   unrecorded>>

\* POST /v1/widgets/:id/refresh past the gate: the lock is claimed (SET NX EX)
\* before the enqueue.  A lock held by an earlier request answers 429.
Refresh(w) ==
    /\ Live(w) /\ w \notin lock /\ w \notin pending
    /\ lock' = lock \union {w}
    /\ pending' = pending \union {w}
    /\ UNCHANGED <<row, age, snap, sweep, job, exec, faults, sinceClaim, unrecorded>>

\* Redis drops the lock when its 30 seconds are over.
LockExpires(w) ==
    /\ w \in lock
    /\ lock' = lock \ {w}
    /\ UNCHANGED <<row, age, snap, sweep, job, exec, pending, faults, sinceClaim,
                   unrecorded>>

NewJob(w) == [state |-> "waiting", widget |-> w, made |-> 0, stalls |-> 0]
FreeJobs == {j \in Jobs : job[j] = NoJob}

\* enqueuePoll after the commit: best effort.
EnqueuePoll(w) ==
    /\ w \in pending
    /\ \E j \in FreeJobs : job' = [job EXCEPT ![j] = NewJob(w)]
    /\ pending' = pending \ {w}
    /\ UNCHANGED <<row, age, snap, sweep, exec, lock, faults, sinceClaim, unrecorded>>

\* enqueuePoll returns false (no Redis, or it refused), or the api died first.
EnqueuePollFails(w) ==
    /\ w \in pending
    /\ pending' = pending \ {w}
    /\ UNCHANGED <<row, age, snap, sweep, job, exec, lock, faults, sinceClaim,
                   unrecorded>>

-----------------------------------------------------------------------------
(* The scheduler *)

Due(w) == Schedulable(w) /\ age[w] > row[w].interval

\* What the documented design replaced: selecting the due rows without
\* advancing last_polled_at in the same statement.
AgesUnclaimed(S) == age

\* set last_polled_at = now() for the rows the statement returns.
AgesClaimed(S) == [w \in Widgets |-> IF w \in S THEN 0 ELSE age[w]]

\* claimDueWidgets: one statement claims the oldest due rows up to the batch
\* size, passing over the rows another transaction holds (SKIP LOCKED).
ClaimSet(s, S) ==
    /\ sweep[s] = {} /\ S # {}
    /\ \E locked \in SUBSET {w \in Widgets : Due(w)} :
         LET open == {w \in Widgets : Due(w)} \ locked IN
         /\ S \subseteq open
         /\ Cardinality(S) <= BatchSize
         /\ S # open => Cardinality(S) = BatchSize
         /\ \A w \in S, u \in open \ S : age[w] >= age[u]
    /\ sweep' = [sweep EXCEPT ![s] = S]
    /\ age' = AgesClaimed(S)
    /\ sinceClaim' = [w \in Widgets |-> IF w \in S THEN 0 ELSE sinceClaim[w]]
    /\ UNCHANGED <<row, snap, job, exec, pending, lock, faults, unrecorded>>

Claim(s) == \E S \in SUBSET Widgets : ClaimSet(s, S)

\* A job id derived from the widget would be dropped by BullMQ while the job of
\* an earlier poll is retained.
EnqueuedByWidgetId(S) == {w \in S : snap[w] = NoSnap}

\* addBulk maps every claimed row to a job with a fresh id.
Enqueued(S) == S

\* queue.addBulk: all of the claimed widgets' jobs in one call.
Enqueue(s) ==
    /\ sweep[s] # {}
    /\ \E f \in [Enqueued(sweep[s]) -> FreeJobs] :
         /\ \A u, w \in Enqueued(sweep[s]) : f[u] = f[w] => u = w
         /\ job' = [j \in Jobs |->
                IF \E w \in Enqueued(sweep[s]) : f[w] = j
                THEN NewJob(CHOOSE w \in Enqueued(sweep[s]) : f[w] = j)
                ELSE job[j]]
    /\ sweep' = [sweep EXCEPT ![s] = {}]
    /\ UNCHANGED <<row, age, snap, exec, pending, lock, faults, sinceClaim, unrecorded>>

\* The process dies between the claim and addBulk, or addBulk fails; the tick
\* job is not retried (attempts: 1).
SweepLost(s) ==
    /\ sweep[s] # {} /\ faults < MaxFaults
    /\ sweep' = [sweep EXCEPT ![s] = {}]
    /\ faults' = faults + 1
    /\ UNCHANGED <<row, age, snap, job, exec, pending, lock, sinceClaim, unrecorded>>

-----------------------------------------------------------------------------
(* The poll handler and the queue under it *)

\* BullMQ moves a job whose handler threw to the delayed set while it has
\* attempts left, and to the failed set otherwise.
AfterFailure(j) ==
    IF job[j].made + 1 < MaxAttempts
    THEN [job[j] EXCEPT !.state = "delayed", !.made = @ + 1]
    ELSE NoJob

\* The job's last attempt.
LastAttempt(j) == AfterFailure(j) = NoJob

\* Math.max(job.attemptsMade, 1)
AttemptsSoFar(j) ==
    IF job[j].made + FirstAttempt >= 1 THEN job[j].made + FirstAttempt ELSE 1

\* The comparison off by one.
DefersOnLastAttempt(j) == AttemptsSoFar(j) <= MaxAttempts

\* attemptsSoFar < maxAttempts
DefersToRetry(j) == AttemptsSoFar(j) < MaxAttempts

\* A handler that puts its job back by itself: without counting the run that
\* just failed, or counting it and never stopping.
PutBackUncounted(j) == [job[j] EXCEPT !.state = "delayed"]
PutBackUnlimited(j) == [job[j] EXCEPT !.state = "delayed", !.made = @ + 1]

\* throw result: what becomes of the job is the queue's to say.
Rethrown(j) == AfterFailure(j)

\* A slot takes a waiting job and reads the widget row.  A widget that is gone
\* completes the job with nothing written.
TakeJob(s, j) ==
    /\ exec[s] = Idle /\ job[j].state = "waiting"
    /\ LET w == job[j].widget IN
       IF Live(w)
       THEN /\ exec' = [exec EXCEPT ![s] = [phase |-> "fetching", job |-> j,
                                            widget |-> w, config |-> row[w].config]]
            /\ job' = [job EXCEPT ![j].state = "active"]
       ELSE /\ job' = [job EXCEPT ![j] = NoJob]
            /\ UNCHANGED exec
    /\ UNCHANGED <<row, age, snap, sweep, pending, lock, faults, sinceClaim, unrecorded>>

\* The fetch fails in a way a retry could help, and the handler throws to have
\* BullMQ retry: nothing is written.
DeferToRetry(s) ==
    /\ exec[s].phase = "fetching"
    /\ exec[s].config # NoConfig /\ "retryable" \in Outcomes
    /\ DefersToRetry(exec[s].job)
    /\ job' = [job EXCEPT ![exec[s].job] = Rethrown(exec[s].job)]
    /\ unrecorded' = IF LastAttempt(exec[s].job)
                     THEN unrecorded \union {exec[s].widget} ELSE unrecorded
    /\ exec' = [exec EXCEPT ![s] = Idle]
    /\ UNCHANGED <<row, age, snap, sweep, pending, lock, faults, sinceClaim>>

\* The fetch settles, with the config read when the job started.  An
\* unconfigured widget is a settled failure (config_invalid).
Settle(s) ==
    /\ exec[s].phase = "fetching"
    /\ \E o \in IF exec[s].config = NoConfig THEN {"settled"} ELSE Outcomes :
         /\ o = "retryable" => ~DefersToRetry(exec[s].job)
         /\ exec' = [exec EXCEPT ![s] =
                [phase |-> "writing", job |-> exec[s].job, widget |-> exec[s].widget,
                 config |-> exec[s].config,
                 result |-> IF o \in {"value", "unstorable"} THEN o ELSE "error"]]
    /\ UNCHANGED <<row, age, snap, sweep, job, pending, lock, faults, sinceClaim,
                   unrecorded>>

\* writeSnapshot: the snapshot and last_polled_at in one transaction, the
\* latter from the worker's clock.  A value the database refuses is replaced by
\* an internal error.
WriteSnapshot(s) ==
    /\ exec[s].phase = "writing" /\ Live(exec[s].widget)
    /\ snap' = [snap EXCEPT ![exec[s].widget] =
            [kind |-> IF exec[s].result = "value" THEN "value" ELSE "error",
             config |-> exec[s].config]]
    /\ \E skew \in 0 .. MaxSkew : age' = [age EXCEPT ![exec[s].widget] = skew]
    /\ exec' = [exec EXCEPT ![s] = [phase |-> "finishing", job |-> exec[s].job,
                                    widget |-> exec[s].widget]]
    /\ unrecorded' = unrecorded \ {exec[s].widget}
    /\ UNCHANGED <<row, sweep, job, pending, lock, faults, sinceClaim>>

\* The widget was deleted meanwhile: the foreign key refuses the value and the
\* internal error alike, and the handler throws.
WriteRefused(s) ==
    /\ exec[s].phase = "writing" /\ ~Live(exec[s].widget)
    /\ job' = [job EXCEPT ![exec[s].job] = AfterFailure(exec[s].job)]
    /\ exec' = [exec EXCEPT ![s] = Idle]
    /\ UNCHANGED <<row, age, snap, sweep, pending, lock, faults, sinceClaim, unrecorded>>

\* The handler returns and BullMQ completes the job.
Complete(s) ==
    /\ exec[s].phase = "finishing"
    /\ job' = [job EXCEPT ![exec[s].job] = NoJob]
    /\ exec' = [exec EXCEPT ![s] = Idle]
    /\ UNCHANGED <<row, age, snap, sweep, pending, lock, faults, sinceClaim, unrecorded>>

\* The exponential backoff is over.
BackoffElapses(j) ==
    /\ job[j].state = "delayed"
    /\ job' = [job EXCEPT ![j].state = "waiting"]
    /\ UNCHANGED <<row, age, snap, sweep, exec, pending, lock, faults, sinceClaim,
                   unrecorded>>

\* A worker dies at any point of the handler: its job stays active in Redis.
SlotCrash(s) ==
    /\ exec[s] # Idle /\ faults < MaxFaults
    /\ exec' = [exec EXCEPT ![s] = Idle]
    /\ faults' = faults + 1
    /\ UNCHANGED <<row, age, snap, sweep, job, pending, lock, sinceClaim, unrecorded>>

\* A queue that gives a job away while its run is still going on.
NeverExecuting(j) == FALSE

Executing(j) == \E s \in Slots : exec[s] # Idle /\ exec[s].job = j

\* A stalled job is delivered again, or failed once it has stalled too often.
AfterStall(j) ==
    IF job[j].stalls < MaxStalls
    THEN [job[j] EXCEPT !.state = "waiting", !.stalls = @ + 1]
    ELSE NoJob

\* BullMQ finds an active job whose lock nobody renews.
Redeliver(j) ==
    /\ job[j].state = "active" /\ ~Executing(j)
    /\ job' = [job EXCEPT ![j] = AfterStall(j)]
    /\ UNCHANGED <<row, age, snap, sweep, exec, pending, lock, faults, sinceClaim,
                   unrecorded>>

-----------------------------------------------------------------------------
Api(w) == Create(w) \/ Reconfigure(w) \/ Retime(w) \/ Delete(w) \/ Refresh(w)
Handler(s) == DeferToRetry(s) \/ Settle(s) \/ WriteSnapshot(s) \/ WriteRefused(s)
              \/ Complete(s)

Next ==
    \/ Tick
    \/ \E w \in Widgets : Api(w)
    \/ \E w \in Widgets : LockExpires(w) \/ EnqueuePoll(w) \/ EnqueuePollFails(w)
    \/ \E s \in Sweepers : Claim(s) \/ Enqueue(s) \/ SweepLost(s)
    \/ \E s \in Slots, j \in Jobs : TakeJob(s, j)
    \/ \E s \in Slots : Handler(s) \/ SlotCrash(s)
    \/ \E j \in Jobs : BackoffElapses(j) \/ Redeliver(j)

Spec == Init /\ [][Next]_vars

\* Time passes, the tick fires in some replica, Redis and the workers make
\* progress; users owe nothing.  Strong fairness where a step is only
\* intermittently possible: row locks come and go for a claim, and a job waits
\* for a slot others compete for.
Fairness ==
    /\ WF_vars(Tick)
    /\ \A w \in Widgets :
         /\ WF_vars(EnqueuePoll(w) \/ EnqueuePollFails(w))
         /\ SF_vars(\E s \in Sweepers, S \in SUBSET Widgets : w \in S /\ ClaimSet(s, S))
    /\ \A s \in Sweepers : SF_vars(Enqueue(s))
    /\ \A s \in Slots : WF_vars(Handler(s))
    /\ \A j \in Jobs :
         /\ SF_vars(\E s \in Slots : TakeJob(s, j))
         /\ WF_vars(BackoffElapses(j))
         /\ WF_vars(Redeliver(j))

FairSpec == Spec /\ Fairness

-----------------------------------------------------------------------------
(* Safety *)

\* The sweep never claims a widget twice within one interval (less the clock
\* lag of the worker that wrote last_polled_at), unless the widget was created
\* or reconfigured in between: no tick enqueues a second job to race the retry
\* chain of the first, whatever the chain, the crashes and the replicas do
\* (scheduler.ts, CLAIM-ON-SWEEP).
ClaimSpacing ==
    [][\A s \in Sweepers : \A w \in sweep'[s] \ sweep[s] :
          sinceClaim[w] + MaxSkew > row[w].interval]_vars

\* What makes ClaimSpacing hold: no write makes a widget look longer unpolled
\* than it has been unclaimed, but for the lag of a worker's clock.
AgeWithinClaim == \A w \in Widgets : age[w] <= sinceClaim[w] + MaxSkew

\* However jobs fail, stall and are delivered again, a run of the handler works
\* on an active job of its widget, and no other run works on the same job: a
\* job's attempts follow one another, they never race.
OneRunPerJob ==
    \A s \in Slots : exec[s] # Idle =>
        /\ job[exec[s].job].state = "active"
        /\ job[exec[s].job].widget = exec[s].widget
        /\ \A t \in Slots \ {s} : exec[t] # Idle => exec[t].job # exec[s].job

\* A configured widget always has an interval, so the sweep can see it.
ConfiguredIsSchedulable == \A w \in Widgets : Configured(w) => Schedulable(w)

\* A retryable upstream failure whose retries are used up is written as an
\* error snapshot (poll-widget.ts: the error snapshot is written "after
\* retries", "correct under both" numberings of attemptsMade).
ExhaustedRetriesRecorded == unrecorded = {}

-----------------------------------------------------------------------------
(* Liveness *)

Polled(w) == \E s \in Slots : exec[s].phase = "fetching" /\ exec[s].widget = w

\* Every schedulable widget is polled again and again, whatever its upstream
\* does and after any finite number of crashes and lost sweeps.
PolledAgainAndAgain == \A w \in Widgets : []<>(Polled(w) \/ ~Schedulable(w))

\* No poll job stays in the queue for ever: retries and redeliveries end.
JobsEnd == \A j \in Jobs : job[j] # NoJob ~> job[j] = NoJob

\* A configured widget sooner or later shows the outcome of a poll with that
\* config, unless the config changes again.
ConfigTakesEffect ==
    \A w \in Widgets, c \in Configs :
        (Live(w) /\ row[w].config = c) ~>
            (~Live(w) \/ row[w].config # c \/ (snap[w] # NoSnap /\ snap[w].config = c))
=============================================================================
