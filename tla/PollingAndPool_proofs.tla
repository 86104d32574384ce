----------------------- MODULE PollingAndPool_proofs -----------------------
(***************************************************************************)
(* What jobs and requests compete for, for any number of each.             *)
(*                                                                         *)
(* First WidgetPolling: the queue's jobs and their runs, and the spacing   *)
(* of the sweep's claims. Then DbPool: the connections and row locks of    *)
(* the api's requests, and what it takes for all of them to wait.          *)
(***************************************************************************)
EXTENDS WidgetPolling, DbPool, FiniteSetTheorems, TLAPS

-----------------------------------------------------------------------------
(* Operators *)

\* An age that ticks stays an age, never decreases and never jumps.
LEMMA LaterType ==
    ASSUME NEW a \in Age
    PROVE  Later(a) \in Age /\ a <= Later(a) /\ Later(a) <= a + 1
BY PollingAssumption DEF Age, Later

\* The age of a due-now write is an age.
LEMMA DueNowAgeType == DueNowAge \in Age
BY PollingAssumption DEF Age, DueNowAge

\* What becomes of a job whose handler threw is a job again, or nothing.
LEMMA AfterFailureType ==
    ASSUME NEW j \in Jobs, job[j] \in Job
    PROVE  AfterFailure(j) \in {NoJob} \union Job
<1>1. job[j].made \in 0 .. MaxAttempts - 1 /\ job[j].made \in Nat
  BY DEF Job
<1>2. CASE job[j].made + 1 < MaxAttempts
  <2>1. job[j].made + 1 \in 0 .. MaxAttempts - 1
    BY <1>1, <1>2, PollingAssumption
  <2>2. [job[j] EXCEPT !.state = "delayed", !.made = @ + 1] \in Job
    BY <2>1 DEF Job
  <2>3. QED
    BY <1>2, <2>2 DEF AfterFailure
<1>3. CASE ~(job[j].made + 1 < MaxAttempts)
  BY <1>3 DEF AfterFailure
<1>4. QED
  BY <1>2, <1>3

\* Likewise for a job whose worker died.
LEMMA AfterStallType ==
    ASSUME NEW j \in Jobs, job[j] \in Job
    PROVE  AfterStall(j) \in {NoJob} \union Job
<1>1. job[j].stalls < MaxStalls => job[j].stalls + 1 \in 0 .. MaxStalls
  BY PollingAssumption DEF Job
<1>2. CASE job[j].stalls < MaxStalls
  BY <1>1, <1>2 DEF AfterStall, Job
<1>3. CASE ~(job[j].stalls < MaxStalls)
  BY <1>3 DEF AfterStall
<1>4. QED
  BY <1>2, <1>3

\* A new job is a job.
LEMMA NewJobType ==
    ASSUME NEW w \in Widgets
    PROVE  NewJob(w) \in Job
BY PollingAssumption DEF NewJob, Job

\* A slot that is not idle executes a job of the pool for a known widget.
LEMMA RunType ==
    ASSUME NEW r \in Run, r # Idle
    PROVE  r.job \in Jobs /\ r.widget \in Widgets
BY DEF Run, Fetching, Writing, Finishing

\* A slot in a phase has that phase's record.
LEMMA RunPhase ==
    ASSUME NEW r \in Run
    PROVE  /\ r.phase = "fetching" => r \in Fetching
           /\ r.phase = "writing" => r \in Writing
           /\ r.phase = "finishing" => r \in Finishing
BY DEF Run, Idle, Fetching, Writing, Finishing

-----------------------------------------------------------------------------
(* Type correctness *)

LEMMA InitTypeOK == Init => TypeOK
BY PollingAssumption
   DEF Init, TypeOK, Row, AnyConfig, Age, Snapshot, Run

\* What one step preserves: TypeOK alone is not inductive, a run that fails a
\* job needs to know the job is still there.
LEMMA NextTypeOK == TypeOK /\ OneRunPerJob /\ [Next]_vars => TypeOK'
<1> SUFFICES ASSUME TypeOK, OneRunPerJob, [Next]_vars
             PROVE  TypeOK'
  OBVIOUS
<1> USE DEF TypeOK
<1>1. CASE Tick
  BY <1>1, LaterType DEF Tick
<1>2. ASSUME NEW w \in Widgets, Create(w)
      PROVE  TypeOK'
  <2>1. row' \in [Widgets -> Row]
    BY <1>2 DEF Create, Row, AnyConfig
  <2>2. age' \in [Widgets -> Age] /\ sinceClaim' \in [Widgets -> Age]
    BY <1>2, DueNowAgeType, PollingAssumption DEF Create, Age
  <2>3. QED
    BY <1>2, <2>1, <2>2 DEF Create
<1>3. ASSUME NEW w \in Widgets, Reconfigure(w)
      PROVE  TypeOK'
  <2>1. row' \in [Widgets -> Row]
    <3>1. PICK c \in Configs, i \in Intervals \union {NoInterval} :
            row' = [row EXCEPT ![w] = [status |-> "live", config |-> c,
                                       interval |-> IntervalWithConfig(w, i)]]
      BY <1>3 DEF Reconfigure
    <3>2. IntervalWithConfig(w, i) \in Intervals \union {DefaultInterval, NoInterval}
      BY DEF IntervalWithConfig, Row
    <3>3. QED
      BY <3>1, <3>2 DEF Row, AnyConfig
  <2>2. age' \in [Widgets -> Age] /\ sinceClaim' \in [Widgets -> Age]
    BY <1>3, DueNowAgeType, PollingAssumption DEF Reconfigure, Age
  <2>3. QED
    BY <1>3, <2>1, <2>2 DEF Reconfigure
<1>4. ASSUME NEW w \in Widgets, Retime(w)
      PROVE  TypeOK'
  BY <1>4 DEF Retime, Row
<1>5. ASSUME NEW w \in Widgets, Delete(w)
      PROVE  TypeOK'
  BY <1>5, ZenonT(60) DEF Delete, Row, Snapshot
<1>6. ASSUME NEW w \in Widgets, Refresh(w)
      PROVE  TypeOK'
  BY <1>6 DEF Refresh
<1>7. ASSUME NEW w \in Widgets, LockExpires(w)
      PROVE  TypeOK'
  BY <1>7 DEF LockExpires
<1>8. ASSUME NEW w \in Widgets, EnqueuePoll(w)
      PROVE  TypeOK'
  BY <1>8, NewJobType DEF EnqueuePoll, FreeJobs
<1>9. ASSUME NEW w \in Widgets, EnqueuePollFails(w)
      PROVE  TypeOK'
  BY <1>9 DEF EnqueuePollFails
<1>10. ASSUME NEW s \in Sweepers, NEW S \in SUBSET Widgets, ClaimSet(s, S)
       PROVE  TypeOK'
  <2>1. age' \in [Widgets -> Age] /\ sinceClaim' \in [Widgets -> Age]
    BY <1>10, PollingAssumption DEF ClaimSet, AgesClaimed, Age
  <2>2. QED
    BY <1>10, <2>1 DEF ClaimSet
<1>11. ASSUME NEW s \in Sweepers, Enqueue(s)
       PROVE  TypeOK'
  <2>1. job' \in [Jobs -> {NoJob} \union Job]
    <3>1. PICK f \in [Enqueued(sweep[s]) -> FreeJobs] :
            job' = [j \in Jobs |->
                      IF \E w \in Enqueued(sweep[s]) : f[w] = j
                      THEN NewJob(CHOOSE w \in Enqueued(sweep[s]) : f[w] = j)
                      ELSE job[j]]
      BY <1>11 DEF Enqueue
    <3>2. ASSUME NEW j \in Jobs, \E w \in Enqueued(sweep[s]) : f[w] = j
          PROVE  NewJob(CHOOSE w \in Enqueued(sweep[s]) : f[w] = j) \in Job
      <4>1. (CHOOSE w \in Enqueued(sweep[s]) : f[w] = j) \in Widgets
        BY <3>2 DEF Enqueued
      <4>2. QED
        BY <4>1, NewJobType
    <3>3. QED
      BY <3>1, <3>2
  <2>2. QED
    BY <1>11, <2>1 DEF Enqueue
<1>12. ASSUME NEW s \in Sweepers, SweepLost(s)
       PROVE  TypeOK'
  BY <1>12, PollingAssumption DEF SweepLost
<1>13. ASSUME NEW s \in Slots, NEW j \in Jobs, TakeJob(s, j)
       PROVE  TypeOK'
  <2>1. job[j] \in Job
    BY <1>13 DEF TakeJob, NoJob
  <2>2. exec' \in [Slots -> Run]
    <3>1. job[j].widget \in Widgets /\ row[job[j].widget].config \in AnyConfig
      BY <2>1 DEF Job, Row
    <3>2. [phase |-> "fetching", job |-> j, widget |-> job[j].widget,
           config |-> row[job[j].widget].config] \in Run
      BY <3>1 DEF Run, Fetching
    <3>3. QED
      BY <1>13, <3>2 DEF TakeJob
  <2>3. [job[j] EXCEPT !.state = "active"] \in Job
    BY <2>1 DEF Job
  <2>4. job' \in [Jobs -> {NoJob} \union Job]
    BY <1>13, <2>3 DEF TakeJob
  <2>5. QED
    BY <1>13, <2>2, <2>4 DEF TakeJob
<1>14. ASSUME NEW s \in Slots, SlotCrash(s)
       PROVE  TypeOK'
  BY <1>14, PollingAssumption DEF SlotCrash, Run
<1>15. ASSUME NEW s \in Slots, Handler(s)
       PROVE  TypeOK'
  <2>1. exec[s] # Idle
    BY <1>15 DEF Handler, DeferToRetry, Settle, WriteSnapshot, WriteRefused, Complete,
                 Idle
  <2>2. exec[s].job \in Jobs /\ exec[s].widget \in Widgets
    BY <2>1, RunType
  <2>3. job[exec[s].job] \in Job
    BY <2>1, <2>2 DEF OneRunPerJob, NoJob
  <2>4. CASE DeferToRetry(s)
    BY <2>2, <2>3, <2>4, AfterFailureType DEF DeferToRetry, Rethrown, Run
  <2>5. CASE Settle(s)
    <3>1. exec[s] \in Fetching
      BY <2>5, RunPhase DEF Settle
    <3>2. PICK o \in {"value", "unstorable", "settled", "retryable"} :
            exec' = [exec EXCEPT ![s] =
              [phase |-> "writing", job |-> exec[s].job, widget |-> exec[s].widget,
               config |-> exec[s].config,
               result |-> IF o \in {"value", "unstorable"} THEN o ELSE "error"]]
      BY <2>5, PollingAssumption DEF Settle
    <3>3. exec' \in [Slots -> Run]
      BY <3>1, <3>2 DEF Run, Fetching, Writing, Result
    <3>4. QED
      BY <2>5, <3>3 DEF Settle
  <2>6. CASE WriteSnapshot(s)
    <3>1. exec[s] \in Writing
      BY <2>6, RunPhase DEF WriteSnapshot
    <3>2. snap' \in [Widgets -> Snapshot]
      BY <2>6, <3>1 DEF WriteSnapshot, Writing, Snapshot
    <3>3. age' \in [Widgets -> Age]
      BY <2>6, <2>2, PollingAssumption DEF WriteSnapshot, Age
    <3>4. exec' \in [Slots -> Run]
      BY <2>6, <2>2 DEF WriteSnapshot, Run, Finishing
    <3>5. QED
      BY <2>6, <3>2, <3>3, <3>4 DEF WriteSnapshot
  <2>7. CASE WriteRefused(s)
    BY <2>2, <2>3, <2>7, AfterFailureType DEF WriteRefused, Run
  <2>8. CASE Complete(s)
    BY <2>2, <2>8 DEF Complete, Run
  <2>9. QED
    BY <1>15, <2>4, <2>5, <2>6, <2>7, <2>8 DEF Handler
<1>16. ASSUME NEW j \in Jobs, BackoffElapses(j)
       PROVE  TypeOK'
  <2>1. job[j] \in Job
    BY <1>16 DEF BackoffElapses, NoJob
  <2>2. [job[j] EXCEPT !.state = "waiting"] \in Job
    BY <2>1 DEF Job
  <2>3. QED
    BY <1>16, <2>2 DEF BackoffElapses
<1>17. ASSUME NEW j \in Jobs, Redeliver(j)
       PROVE  TypeOK'
  <2>1. job[j] \in Job
    BY <1>17 DEF Redeliver, NoJob
  <2>2. job' \in [Jobs -> {NoJob} \union Job]
    BY <1>17, <2>1, AfterStallType DEF Redeliver
  <2>3. QED
    BY <1>17, <2>2 DEF Redeliver
<1>18. CASE UNCHANGED vars
  BY <1>18 DEF vars
<1>19. QED
  BY <1>1, <1>2, <1>3, <1>4, <1>5, <1>6, <1>7, <1>8, <1>9, <1>10, <1>11, <1>12,
     <1>13, <1>14, <1>15, <1>16, <1>17, <1>18 DEF Next, Api, Claim

-----------------------------------------------------------------------------
(* One run per job *)

LEMMA InitOneRunPerJob == Init => OneRunPerJob
BY DEF Init, OneRunPerJob

\* A job put on the queue replaces none that a slot is running.
LEMMA FreeJobsAreNotRun ==
    ASSUME OneRunPerJob, NEW s \in Slots, exec[s] # Idle
    PROVE  exec[s].job \notin FreeJobs
BY DEF OneRunPerJob, FreeJobs, NoJob

\* A slot that lets go of a job leaves the other slots' jobs alone.
LEMMA LetGo ==
    ASSUME TypeOK, OneRunPerJob, NEW s \in Slots, exec[s] # Idle, NEW v,
           job' = [job EXCEPT ![exec[s].job] = v],
           exec' = [exec EXCEPT ![s] = Idle]
    PROVE  OneRunPerJob'
<1> SUFFICES ASSUME NEW t \in Slots, exec'[t] # Idle
             PROVE  /\ job'[exec'[t].job].state = "active"
                    /\ job'[exec'[t].job].widget = exec'[t].widget
                    /\ \A u \in Slots \ {t} : exec'[u] # Idle
                                            => exec'[u].job # exec'[t].job
  BY DEF OneRunPerJob
<1>1. t # s /\ exec'[t] = exec[t] /\ exec[t].job \in Jobs
  BY RunType DEF TypeOK
<1>2. exec[t].job # exec[s].job
  BY <1>1 DEF OneRunPerJob
<1>3. job'[exec[t].job] = job[exec[t].job]
  BY <1>1, <1>2 DEF TypeOK
<1>4. \A u \in Slots : exec'[u] # Idle => exec'[u] = exec[u]
  BY DEF TypeOK
<1>5. QED
  BY <1>1, <1>3, <1>4 DEF OneRunPerJob

\* A slot that only moves on to a later phase keeps its job.
LEMMA MoveOn ==
    ASSUME TypeOK, OneRunPerJob, NEW s \in Slots, exec[s] # Idle, NEW r,
           r # Idle, r.job = exec[s].job, r.widget = exec[s].widget,
           job' = job, exec' = [exec EXCEPT ![s] = r]
    PROVE  OneRunPerJob'
<1>1. \A t \in Slots : exec'[t] # Idle =>
        exec[t] # Idle /\ exec'[t].job = exec[t].job /\ exec'[t].widget = exec[t].widget
  BY DEF TypeOK
<1>2. QED
  BY <1>1 DEF OneRunPerJob

LEMMA NextOneRunPerJob == TypeOK /\ OneRunPerJob /\ [Next]_vars => OneRunPerJob'
<1> SUFFICES ASSUME TypeOK, OneRunPerJob, [Next]_vars
             PROVE  OneRunPerJob'
  OBVIOUS
<1>1. CASE UNCHANGED <<job, exec>>
  BY <1>1 DEF OneRunPerJob
<1>2. ASSUME NEW w \in Widgets, EnqueuePoll(w)
      PROVE  OneRunPerJob'
  <2>1. PICK j \in FreeJobs : job' = [job EXCEPT ![j] = NewJob(w)]
    BY <1>2 DEF EnqueuePoll
  <2>2. exec' = exec
    BY <1>2 DEF EnqueuePoll
  <2>3. \A s \in Slots : exec[s] # Idle => job'[exec[s].job] = job[exec[s].job]
    BY <2>1, FreeJobsAreNotRun, RunType DEF TypeOK
  <2>4. QED
    BY <2>2, <2>3 DEF OneRunPerJob
<1>3. ASSUME NEW s \in Sweepers, Enqueue(s)
      PROVE  OneRunPerJob'
  <2>1. \A j \in Jobs \ FreeJobs : job'[j] = job[j]
    BY <1>3 DEF Enqueue
  <2>2. exec' = exec
    BY <1>3 DEF Enqueue
  <2>3. \A t \in Slots : exec[t] # Idle => job'[exec[t].job] = job[exec[t].job]
    BY <2>1, FreeJobsAreNotRun, RunType DEF TypeOK
  <2>4. QED
    BY <2>2, <2>3 DEF OneRunPerJob
<1>4. ASSUME NEW s \in Slots, NEW j \in Jobs, TakeJob(s, j)
      PROVE  OneRunPerJob'
  <2>1. \A t \in Slots : exec[t] # Idle => exec[t].job # j
    BY <1>4 DEF TakeJob, OneRunPerJob
  <2>2. CASE ~Live(job[j].widget)
    <3>1. exec' = exec /\ \A k \in Jobs \ {j} : job'[k] = job[k]
      BY <1>4, <2>2 DEF TakeJob, TypeOK
    <3>2. QED
      BY <2>1, <3>1, RunType DEF OneRunPerJob, TypeOK
  <2>3. CASE Live(job[j].widget)
    <3>1. /\ exec' = [exec EXCEPT ![s] =
                [phase |-> "fetching", job |-> j, widget |-> job[j].widget,
                 config |-> row[job[j].widget].config]]
          /\ job' = [job EXCEPT ![j].state = "active"]
      BY <1>4, <2>3 DEF TakeJob
    <3>2. job[j] \in Job
      BY <1>4 DEF TakeJob, TypeOK, NoJob
    <3>3. job'[j].state = "active" /\ job'[j].widget = job[j].widget
      BY <3>1, <3>2 DEF Job, TypeOK
    <3>4. exec'[s].job = j /\ exec'[s].widget = job[j].widget
      BY <3>1 DEF TypeOK
    <3>5. \A t \in Slots \ {s} : exec'[t] = exec[t]
      BY <3>1 DEF TypeOK
    <3>6. \A k \in Jobs \ {j} : job'[k] = job[k]
      BY <3>1 DEF TypeOK
    <3>7. \A t \in Slots : exec[t] # Idle => exec[t].job \in Jobs
      BY RunType DEF TypeOK
    <3> SUFFICES ASSUME NEW t \in Slots, exec'[t] # Idle
                 PROVE  /\ job'[exec'[t].job].state = "active"
                        /\ job'[exec'[t].job].widget = exec'[t].widget
                        /\ \A u \in Slots \ {t} : exec'[u] # Idle
                                                => exec'[u].job # exec'[t].job
      BY DEF OneRunPerJob
    <3>8. CASE t = s
      BY <2>1, <3>3, <3>4, <3>5, <3>8
    <3>9. CASE t # s
      BY <2>1, <3>4, <3>5, <3>6, <3>7, <3>9 DEF OneRunPerJob
    <3>10. QED
      BY <3>8, <3>9
  <2>4. QED
    BY <2>2, <2>3
<1>5. ASSUME NEW s \in Slots, Handler(s)
      PROVE  OneRunPerJob'
  <2>1. exec[s] # Idle
    BY <1>5 DEF Handler, DeferToRetry, Settle, WriteSnapshot, WriteRefused, Complete,
                Idle
  <2>2. CASE DeferToRetry(s) \/ WriteRefused(s) \/ Complete(s)
    BY <2>1, <2>2, LetGo DEF DeferToRetry, Rethrown, WriteRefused, Complete
  <2>3. CASE Settle(s)
    BY <2>1, <2>3, MoveOn DEF Settle, Idle
  <2>4. CASE WriteSnapshot(s)
    BY <2>1, <2>4, MoveOn DEF WriteSnapshot, Idle
  <2>5. QED
    BY <1>5, <2>2, <2>3, <2>4 DEF Handler
<1>6. ASSUME NEW s \in Slots, SlotCrash(s)
      PROVE  OneRunPerJob'
  <2>1. job' = job /\ exec' = [exec EXCEPT ![s] = Idle]
    BY <1>6 DEF SlotCrash
  <2>2. \A t \in Slots : exec'[t] # Idle => exec'[t] = exec[t]
    BY <2>1 DEF TypeOK
  <2>3. QED
    BY <2>1, <2>2 DEF OneRunPerJob
<1>7. ASSUME NEW j \in Jobs, BackoffElapses(j) \/ Redeliver(j)
      PROVE  OneRunPerJob'
  <2>1. exec' = exec /\ \A k \in Jobs \ {j} : job'[k] = job[k]
    BY <1>7 DEF BackoffElapses, Redeliver, TypeOK
  <2>2. \A t \in Slots : exec[t] # Idle => exec[t].job \in Jobs /\ exec[t].job # j
    BY <1>7, RunType DEF BackoffElapses, Redeliver, Executing, OneRunPerJob, TypeOK
  <2>3. QED
    BY <2>1, <2>2 DEF OneRunPerJob
<1>8. QED
  BY <1>1, <1>2, <1>3, <1>4, <1>5, <1>6, <1>7
     DEF Next, Api, Claim, ClaimSet, Tick, Create, Reconfigure, Retime, Delete, Refresh,
         LockExpires, EnqueuePollFails, SweepLost, vars

\* The registry's rows, the queue and the runs keep their shapes, and the
\* attempts of a job never race (poll-widget.ts under BullMQ's delivery).
THEOREM TypeCorrect == Spec => [](TypeOK /\ OneRunPerJob)
<1>1. Init => TypeOK /\ OneRunPerJob
  BY InitTypeOK, InitOneRunPerJob
<1>2. TypeOK /\ OneRunPerJob /\ [Next]_vars => (TypeOK /\ OneRunPerJob)'
  BY NextTypeOK, NextOneRunPerJob
<1>3. QED
  BY <1>1, <1>2, PTL DEF Spec

\* The attempts of one job follow one another: a job that stalls, fails or loses
\* its worker is never run by two slots at once (poll-widget.ts, queues.ts).
THEOREM AttemptsNeverRace == Spec => []OneRunPerJob
BY TypeCorrect, PTL

-----------------------------------------------------------------------------
(* Exhausted retries *)

\* A run that puts its job back for a retry has an attempt left to put it back
\* for, when attemptsMade counts the run that is going on or there is only one.
LEMMA DeferredIsNotLast ==
    ASSUME FirstAttempt = 1 \/ MaxAttempts = 1,
           NEW j \in Jobs, job[j] \in Job, DefersToRetry(j)
    PROVE  ~LastAttempt(j)
<1>1. job[j].made \in Nat
  BY PollingAssumption DEF Job
<1>2. job[j].made + 1 < MaxAttempts
  BY <1>1, PollingAssumption DEF DefersToRetry, AttemptsSoFar
<1>3. AfterFailure(j).state = "delayed"
  BY <1>2 DEF AfterFailure, Job
<1>4. NoJob.state = "none"
  BY DEF NoJob
<1>5. QED
  BY <1>3, <1>4 DEF LastAttempt

\* A retryable failure whose retries are used up leaves a snapshot, for any
\* number of attempts, wherever attemptsMade counts the run that is going on;
\* where it does not, only a job of one attempt is safe (poll-widget.ts:187).
THEOREM RetriesAreRecorded ==
    ASSUME FirstAttempt = 1 \/ MaxAttempts = 1
    PROVE  Spec => []ExhaustedRetriesRecorded
<1>1. Init => ExhaustedRetriesRecorded
  BY DEF Init, ExhaustedRetriesRecorded
<1>2. TypeOK /\ OneRunPerJob /\ ExhaustedRetriesRecorded /\ [Next]_vars
        => ExhaustedRetriesRecorded'
  <2> SUFFICES ASSUME TypeOK, OneRunPerJob, ExhaustedRetriesRecorded, [Next]_vars
               PROVE  ExhaustedRetriesRecorded'
    OBVIOUS
  <2>1. ASSUME NEW s \in Slots, DeferToRetry(s)
        PROVE  ExhaustedRetriesRecorded'
    <3>1. exec[s] # Idle /\ exec[s].job \in Jobs
      BY <2>1, RunType DEF DeferToRetry, TypeOK, Idle
    <3>2. job[exec[s].job] \in Job
      BY <3>1 DEF OneRunPerJob, TypeOK, NoJob
    <3>3. ~LastAttempt(exec[s].job)
      BY <2>1, <3>1, <3>2, DeferredIsNotLast DEF DeferToRetry
    <3>4. QED
      BY <2>1, <3>3 DEF DeferToRetry, ExhaustedRetriesRecorded
  <2>2. ASSUME NEW s \in Slots, WriteSnapshot(s)
        PROVE  ExhaustedRetriesRecorded'
    BY <2>2 DEF WriteSnapshot, ExhaustedRetriesRecorded
  <2>3. CASE UNCHANGED unrecorded
    BY <2>3 DEF ExhaustedRetriesRecorded
  <2>4. QED
    BY <2>1, <2>2, <2>3
       DEF Next, Api, Handler, Claim, ClaimSet, Tick, Create, Reconfigure, Retime,
           Delete, Refresh, LockExpires, EnqueuePoll, EnqueuePollFails, Enqueue,
           SweepLost, TakeJob, Settle, WriteRefused, Complete, SlotCrash,
           BackoffElapses, Redeliver, vars
<1>3. QED
  BY <1>1, <1>2, TypeCorrect, PTL DEF Spec

-----------------------------------------------------------------------------
(* A configured widget can be scheduled *)

\* No sequence of creates, edits and deletes leaves a configured widget with a
\* null interval, where the sweep would never see it (widgets.ts, PATCH).
THEOREM ConfiguredSchedulable == Spec => []ConfiguredIsSchedulable
<1>1. Init => ConfiguredIsSchedulable
  BY DEF Init, ConfiguredIsSchedulable, Configured, Live
<1>2. TypeOK /\ ConfiguredIsSchedulable /\ [Next]_vars => ConfiguredIsSchedulable'
  <2> SUFFICES ASSUME TypeOK, ConfiguredIsSchedulable, [Next]_vars
               PROVE  ConfiguredIsSchedulable'
    OBVIOUS
  <2>1. CASE UNCHANGED row
    BY <2>1 DEF ConfiguredIsSchedulable, Configured, Schedulable, Live
  <2>2. ASSUME NEW w \in Widgets, Create(w)
        PROVE  ConfiguredIsSchedulable'
    BY <2>2, PollingAssumption
       DEF Create, TypeOK, ConfiguredIsSchedulable, Configured, Schedulable, Live
  <2>3. ASSUME NEW w \in Widgets, Reconfigure(w)
        PROVE  ConfiguredIsSchedulable'
    <3>1. PICK c \in Configs, i \in Intervals \union {NoInterval} :
            row' = [row EXCEPT ![w] = [status |-> "live", config |-> c,
                                       interval |-> IntervalWithConfig(w, i)]]
      BY <2>3 DEF Reconfigure
    <3>2. IntervalWithConfig(w, i) # NoInterval
      BY <2>3, PollingAssumption
         DEF Reconfigure, IntervalWithConfig, ConfiguredIsSchedulable, Configured,
             Schedulable, Live
    <3>3. QED
      BY <3>1, <3>2
         DEF TypeOK, ConfiguredIsSchedulable, Configured, Schedulable, Live
  <2>4. ASSUME NEW w \in Widgets, Retime(w)
        PROVE  ConfiguredIsSchedulable'
    <3>1. PICK i \in Intervals : row' = [row EXCEPT ![w].interval = i]
      BY <2>4 DEF Retime
    <3>2. i # NoInterval
      BY PollingAssumption
    <3>3. \A u \in Widgets : /\ row'[u].status = row[u].status
                             /\ row'[u].config = row[u].config
                             /\ row'[u].interval = IF u = w THEN i ELSE row[u].interval
      BY <3>1 DEF TypeOK, Row
    <3>4. QED
      BY <3>2, <3>3 DEF ConfiguredIsSchedulable, Configured, Schedulable, Live
  <2>5. ASSUME NEW w \in Widgets, Delete(w)
        PROVE  ConfiguredIsSchedulable'
    <3>1. \A u \in Widgets \ {w} : row'[u] = row[u]
      BY <2>5 DEF Delete, TypeOK
    <3>2. row'[w].status = "gone"
      BY <2>5 DEF Delete, TypeOK, Row
    <3>3. QED
      BY <3>1, <3>2 DEF ConfiguredIsSchedulable, Configured, Schedulable, Live
  <2>6. QED
    BY <2>1, <2>2, <2>3, <2>4, <2>5
       DEF Next, Api, Handler, Claim, ClaimSet, Tick, Refresh, LockExpires, EnqueuePoll,
           EnqueuePollFails, Enqueue, SweepLost, TakeJob, DeferToRetry, Settle,
           WriteSnapshot, WriteRefused, Complete, SlotCrash, BackoffElapses, Redeliver,
           vars
<1>3. QED
  BY <1>1, <1>2, TypeCorrect, PTL DEF Spec

-----------------------------------------------------------------------------
(* The spacing of claims *)

LEMMA InitAgeWithinClaim == Init => AgeWithinClaim
BY PollingAssumption DEF Init, AgeWithinClaim

LEMMA NextAgeWithinClaim == TypeOK /\ AgeWithinClaim /\ [Next]_vars => AgeWithinClaim'
<1> SUFFICES ASSUME TypeOK, AgeWithinClaim, [Next]_vars
             PROVE  AgeWithinClaim'
  OBVIOUS
<1> USE PollingAssumption DEF TypeOK, Age
<1>1. CASE UNCHANGED <<age, sinceClaim>>
  BY <1>1 DEF AgeWithinClaim
<1>2. CASE Tick
  BY <1>2 DEF Tick, Later, AgeWithinClaim
<1>3. ASSUME NEW w \in Widgets, Create(w) \/ Reconfigure(w)
      PROVE  AgeWithinClaim'
  <2>1. /\ age' = [age EXCEPT ![w] = DueNowAge]
        /\ sinceClaim' = [sinceClaim EXCEPT ![w] = Horizon]
    BY <1>3 DEF Create, Reconfigure
  <2>2. QED
    BY <2>1, DueNowAgeType DEF AgeWithinClaim
<1>4. ASSUME NEW s \in Sweepers, NEW S \in SUBSET Widgets, ClaimSet(s, S)
      PROVE  AgeWithinClaim'
  BY <1>4 DEF ClaimSet, AgesClaimed, AgeWithinClaim
<1>5. ASSUME NEW s \in Slots, WriteSnapshot(s)
      PROVE  AgeWithinClaim'
  BY <1>5 DEF WriteSnapshot, AgeWithinClaim
<1>6. QED
  BY <1>1, <1>2, <1>3, <1>4, <1>5
     DEF Next, Api, Handler, Claim, Retime, Delete, Refresh, LockExpires, EnqueuePoll,
         EnqueuePollFails, Enqueue, SweepLost, TakeJob, DeferToRetry, Settle, WriteRefused,
         Complete, SlotCrash, BackoffElapses, Redeliver, vars

\* Only a due widget is claimed.
LEMMA ClaimedAreDue ==
    ASSUME TypeOK, [Next]_vars, NEW s \in Sweepers, NEW w \in sweep'[s] \ sweep[s]
    PROVE  Due(w)
<1>1. CASE UNCHANGED sweep
  BY <1>1
<1>2. ASSUME NEW p \in Sweepers, NEW S \in SUBSET Widgets, ClaimSet(p, S)
      PROVE  Due(w)
  <2>1. sweep' = [sweep EXCEPT ![p] = S] /\ \A u \in S : Due(u)
    BY <1>2 DEF ClaimSet
  <2>2. w \in S
    BY <2>1 DEF TypeOK
  <2>3. QED
    BY <2>1, <2>2
<1>3. ASSUME NEW p \in Sweepers, Enqueue(p) \/ SweepLost(p)
      PROVE  Due(w)
  BY <1>3 DEF Enqueue, SweepLost, TypeOK
<1>4. QED
  BY <1>1, <1>2, <1>3
     DEF Next, Api, Handler, Claim, Tick, Create, Reconfigure, Retime, Delete, Refresh,
         LockExpires, EnqueuePoll, EnqueuePollFails, TakeJob, DeferToRetry, Settle,
         WriteSnapshot, WriteRefused, Complete, SlotCrash, BackoffElapses, Redeliver, vars

\* The sweep claims a widget at most once per interval, however many replicas
\* sweep, however long its poll is retried, whatever crashes, and although the
\* workers write last_polled_at from clocks of their own (scheduler.ts).
THEOREM ClaimsAreSpaced == Spec => ClaimSpacing
<1>1. TypeOK /\ OneRunPerJob /\ AgeWithinClaim /\ [Next]_vars =>
        [\A s \in Sweepers : \A w \in sweep'[s] \ sweep[s] :
            sinceClaim[w] + MaxSkew > row[w].interval]_vars
  <2> SUFFICES ASSUME TypeOK, OneRunPerJob, AgeWithinClaim, [Next]_vars,
                      NEW s \in Sweepers, NEW w \in sweep'[s] \ sweep[s]
               PROVE  sinceClaim[w] + MaxSkew > row[w].interval
    OBVIOUS
  <2>1. Due(w)
    BY ClaimedAreDue
  <2>2. w \in Widgets
    BY NextTypeOK DEF TypeOK
  <2>3. row[w].interval \in Nat
    BY <2>1, <2>2, PollingAssumption DEF Due, Schedulable, TypeOK, Row
  <2>4. QED
    BY <2>1, <2>2, <2>3, PollingAssumption DEF Due, AgeWithinClaim, TypeOK, Age
<1>2. QED
  BY <1>1, TypeCorrect, InitAgeWithinClaim, NextAgeWithinClaim, PTL
     DEF Spec, ClaimSpacing

-----------------------------------------------------------------------------
(* The api's connections *)

Shape == req \in [Requests -> {Away} \union Request]

LEMMA PoolUse ==
    ASSUME Shape
    PROVE  IsFiniteSet(InUse) /\ Cardinality(InUse) \in Nat
<1>1. IsFiniteSet(Requests)
  BY PoolAssumption
<1>2. IsFiniteSet({"own"}) /\ IsFiniteSet({"recheck"})
  BY FS_Singleton
<1>3. IsFiniteSet(Requests \X {"own"}) /\ IsFiniteSet(Requests \X {"recheck"})
  BY <1>1, <1>2, FS_Product
<1>4. Users \subseteq Requests \X {"own"} /\ Recheckers \subseteq Requests \X {"recheck"}
  BY DEF Users, Recheckers, InTransaction, At
<1>5. IsFiniteSet(Users) /\ IsFiniteSet(Recheckers)
  BY <1>3, <1>4, FS_Subset
<1>6. IsFiniteSet(InUse)
  BY <1>5, FS_Union DEF InUse
<1> QED
  BY <1>6, FS_CardinalityType

\* A step that takes at most one connection more, or none.
LEMMA OneMore ==
    ASSUME Shape, NEW x, InUse' \subseteq InUse \union {x}
    PROVE  Cardinality(InUse') <= Cardinality(InUse) + 1 /\ Cardinality(InUse') \in Nat
<1>1. IsFiniteSet(InUse) /\ Cardinality(InUse) \in Nat
  BY PoolUse
<1>2. /\ IsFiniteSet(InUse \union {x})
      /\ Cardinality(InUse \union {x}) = IF x \in InUse THEN Cardinality(InUse) ELSE Cardinality(InUse) + 1
  BY <1>1, FS_AddElement
<1>3. Cardinality(InUse') <= Cardinality(InUse \union {x}) /\ IsFiniteSet(InUse')
  BY <1>2, FS_Subset
<1>4. Cardinality(InUse') \in Nat
  BY <1>3, FS_CardinalityType
<1> QED
  BY <1>1, <1>2, <1>3, <1>4

LEMMA NoMore ==
    ASSUME Shape, InUse' \subseteq InUse
    PROVE  Cardinality(InUse') <= Cardinality(InUse) /\ Cardinality(InUse') \in Nat
<1>1. Cardinality(InUse') <= Cardinality(InUse) /\ IsFiniteSet(InUse')
  BY PoolUse, FS_Subset
<1> QED
  BY <1>1, FS_CardinalityType

\* Where a request is, and that the others stay where they are.
Elsewhere(r) == \A t \in Requests : t # r => req'[t] = req[t]

LEMMA GoesTo ==
    ASSUME Shape, NEW r \in Requests, NEW P \in SUBSET Phase, r \in At(P), NEW phase \in Phase,
           GoTo(r, phase)
    PROVE  /\ Shape' /\ Elsewhere(r)
           /\ req'[r].phase = phase /\ req'[r].board = req[r].board /\ req'[r].kind = req[r].kind
<1>1. req[r] \in Request
  <2>1. req[r] \in {Away} \union Request /\ req[r].phase \in Phase
    BY DEF At, Shape
  <2>2. req[r] # Away
    BY <2>1 DEF Away, Phase
  <2> QED
    BY <2>1, <2>2
<1>2. [req[r] EXCEPT !.phase = phase] \in Request
  BY <1>1 DEF Request
<1> QED
  BY <1>1, <1>2 DEF GoTo, Elsewhere, Shape, Request

LEMMA Leaves ==
    ASSUME Shape, NEW r \in Requests, Leave(r)
    PROVE  Shape' /\ Elsewhere(r) /\ req'[r].phase = "idle"
BY DEF Shape, Leave, Elsewhere, Away

LEMMA PhaseIs ==
    ASSUME Shape, NEW r \in Requests
    PROVE  /\ req[r] # Away => req[r] \in Request /\ req[r].phase \in Phase
           /\ req[r].phase = "idle" <=> req[r] = Away
BY DEF Shape, Away, Request, Phase

OneHolder == \A b \in Boards : \A r, t \in Holders(b) : r = t

\* A step after which nobody holds what it did not.
LEMMA NothingTaken ==
    ASSUME Shape, OneHolder, Cardinality(InUse) <= PoolSize, Shape', NEW r \in Requests, Elsewhere(r),
           r \in (At({"begun", "recheck", "reading", "writing", "gate"}))'
             => r \in At({"begun", "recheck", "reading", "writing", "gate"}),
           r \in At({"reading"})' => r \in At({"reading"}),
           r \in At({"recheck", "reading", "writing"})'
             => /\ r \in At({"recheck", "reading", "writing"})
                /\ req'[r].board = req[r].board /\ req'[r].kind = req[r].kind
    PROVE  PoolTypeOK'
<1>1. Users' \subseteq Users
  BY DEF Users, InTransaction, At, Elsewhere
<1>2. Recheckers' \subseteq Recheckers
  BY DEF Recheckers, At, Elsewhere
<1>3. Cardinality(InUse') <= Cardinality(InUse) /\ Cardinality(InUse') \in Nat
  BY <1>1, <1>2, NoMore DEF InUse
<1>4. \A b \in Boards : Holders(b)' \subseteq Holders(b)
  BY DEF Holders, At, Locks, Elsewhere
<1>5. Cardinality(InUse) \in Nat /\ PoolSize \in Nat
  BY PoolUse, PoolAssumption
<1> QED
  BY <1>3, <1>4, <1>5 DEF PoolTypeOK, OneHolder, Shape

\* A connection is taken only when one is free.
LEMMA OneTaken ==
    ASSUME Shape, OneHolder, ConnectionFree, Shape', NEW x, InUse' \subseteq InUse \union {x},
           \A b \in Boards : Holders(b)' \subseteq Holders(b)
    PROVE  PoolTypeOK'
<1>1. Cardinality(InUse') <= Cardinality(InUse) + 1 /\ Cardinality(InUse') \in Nat
  BY OneMore
<1>2. Cardinality(InUse) \in Nat /\ PoolSize \in Nat /\ Cardinality(InUse) < PoolSize
  BY PoolUse, PoolAssumption DEF ConnectionFree
<1> QED
  BY <1>1, <1>2 DEF PoolTypeOK, OneHolder, Shape

LEMMA PoolNextInv == PoolTypeOK /\ [PoolNext]_req => PoolTypeOK'
<1> SUFFICES ASSUME PoolTypeOK, [PoolNext]_req
             PROVE  PoolTypeOK'
  OBVIOUS
<1> USE DEF At
<1>1. Shape /\ OneHolder /\ Cardinality(InUse) <= PoolSize
  BY DEF PoolTypeOK, Shape, OneHolder
<1>2. ASSUME NEW r \in Requests, Arrive(r)
      PROVE  PoolTypeOK'
  <2>1. Shape' /\ Elsewhere(r) /\ req'[r].phase = "arrived"
    BY <1>1, <1>2 DEF Arrive, Shape, Elsewhere, Request, Phase
  <2> QED
    BY <1>1, <2>1, NothingTaken
<1>3. ASSUME NEW r \in Requests, Leave(r)
      PROVE  PoolTypeOK'
  <2>1. Shape' /\ Elsewhere(r) /\ req'[r].phase = "idle"
    BY <1>1, <1>3, Leaves
  <2> QED
    BY <1>1, <2>1, NothingTaken
<1>4. ASSUME NEW r \in Requests, Gate(r)
      PROVE  PoolTypeOK'
  <2>1. /\ Shape' /\ Elsewhere(r) /\ req'[r].phase = "gate" /\ ConnectionFree
    BY <1>1, <1>4, GoesTo DEF Gate, Phase
  <2>2. InUse' \subseteq InUse \union {<<r, "own">>}
    BY <2>1 DEF InUse, Users, Recheckers, InTransaction, Elsewhere
  <2>3. \A b \in Boards : Holders(b)' \subseteq Holders(b)
    BY <2>1 DEF Holders, Locks, Elsewhere
  <2> QED
    BY <1>1, <2>1, <2>2, <2>3, OneTaken
<1>5. ASSUME NEW r \in Requests, r \in At({"gate"}), GoTo(r, "passed")
      PROVE  PoolTypeOK'
  <2>1. Shape' /\ Elsewhere(r) /\ req'[r].phase = "passed"
    BY <1>1, <1>5, GoesTo DEF Phase
  <2> QED
    BY <1>1, <2>1, NothingTaken
<1>6. ASSUME NEW r \in Requests, Begin(r)
      PROVE  PoolTypeOK'
  <2>1. /\ Shape' /\ Elsewhere(r) /\ req'[r].phase = "begun" /\ ConnectionFree
    BY <1>1, <1>6, GoesTo DEF Begin, Begins, Phase
  <2>2. InUse' \subseteq InUse \union {<<r, "own">>}
    BY <2>1 DEF InUse, Users, Recheckers, InTransaction, Elsewhere
  <2>3. \A b \in Boards : Holders(b)' \subseteq Holders(b)
    BY <2>1 DEF Holders, Locks, Elsewhere
  <2> QED
    BY <1>1, <2>1, <2>2, <2>3, OneTaken
<1>7. ASSUME NEW r \in Requests, LockBoard(r)
      PROVE  PoolTypeOK'
  <2>1. PICK phase \in {"writing", "recheck"} :
          /\ r \in At({"begun"}) /\ GoTo(r, phase)
          /\ Locks(r) => Holders(req[r].board) = {}
    BY <1>7 DEF LockBoard
  <2>2. /\ Shape' /\ Elsewhere(r) /\ req'[r].phase = phase
        /\ req'[r].board = req[r].board /\ req'[r].kind = req[r].kind
    BY <1>1, <2>1, GoesTo DEF Phase
  <2>3. InUse' \subseteq InUse
    BY <2>1, <2>2 DEF InUse, Users, Recheckers, InTransaction, Elsewhere
  <2>4. Cardinality(InUse') <= PoolSize
    <3>1. Cardinality(InUse') <= Cardinality(InUse) /\ Cardinality(InUse') \in Nat
      BY <1>1, <2>3, NoMore
    <3>2. Cardinality(InUse) \in Nat /\ PoolSize \in Nat
      BY <1>1, PoolUse, PoolAssumption
    <3> QED
      BY <1>1, <3>1, <3>2
  <2>5. ASSUME NEW b \in Boards, NEW s \in Holders(b)', NEW t \in Holders(b)'
        PROVE  s = t
    <3>1. \A u \in Holders(b)' : u # r => u \in Holders(b)
      BY <2>2 DEF Holders, Locks, Elsewhere
    <3>2. CASE r \in Holders(b)'
      <4>1. Locks(r) /\ req[r].board = b
        BY <2>2, <3>2 DEF Holders, Locks
      <4>2. Holders(b) = {}
        BY <2>1, <4>1
      <4> QED
        BY <3>1, <4>2
    <3>3. CASE r \notin Holders(b)'
      BY <1>1, <3>1, <3>3 DEF OneHolder
    <3> QED
      BY <3>2, <3>3
  <2> QED
    BY <2>2, <2>4, <2>5 DEF PoolTypeOK, Shape
<1>8. ASSUME NEW r \in Requests, Recheck(r)
      PROVE  PoolTypeOK'
  <2>1. /\ Shape' /\ Elsewhere(r) /\ req'[r].phase = "reading" /\ ConnectionFree
        /\ req[r].phase = "recheck" /\ req'[r].board = req[r].board /\ req'[r].kind = req[r].kind
    BY <1>1, <1>8, GoesTo DEF Recheck, Phase
  <2>2. InUse' \subseteq InUse \union {<<r, "recheck">>}
    BY <2>1 DEF InUse, Users, Recheckers, InTransaction, Elsewhere
  <2>3. \A b \in Boards : Holders(b)' \subseteq Holders(b)
    BY <2>1 DEF Holders, Locks, Elsewhere
  <2> QED
    BY <1>1, <2>1, <2>2, <2>3, OneTaken
<1>9. ASSUME NEW r \in Requests, r \in At({"reading"}), GoTo(r, "writing")
      PROVE  PoolTypeOK'
  <2>1. /\ Shape' /\ Elsewhere(r) /\ req'[r].phase = "writing" /\ req[r].phase = "reading"
        /\ req'[r].board = req[r].board /\ req'[r].kind = req[r].kind
    BY <1>1, <1>9, GoesTo DEF Phase
  <2> QED
    BY <1>1, <2>1, NothingTaken
<1>10. CASE Restart
  <2>1. Shape' /\ \A r \in Requests : req'[r].phase = "idle"
    BY <1>10 DEF Restart, Shape, Away
  <2>2. InUse' \subseteq InUse
    BY <2>1 DEF InUse, Users, Recheckers, InTransaction
  <2>3. Cardinality(InUse') <= Cardinality(InUse) /\ Cardinality(InUse') \in Nat
    BY <1>1, <2>2, NoMore
  <2>4. Cardinality(InUse) \in Nat /\ PoolSize \in Nat
    BY <1>1, PoolUse, PoolAssumption
  <2>5. \A b \in Boards : Holders(b)' = {}
    BY <2>1 DEF Holders
  <2> QED
    BY <1>1, <2>1, <2>3, <2>4, <2>5 DEF PoolTypeOK, Shape
<1>11. CASE UNCHANGED req
  BY <1>11 DEF PoolTypeOK, InUse, Users, Recheckers, InTransaction, Holders, Locks
<1> QED
  BY <1>2, <1>3, <1>4, <1>5, <1>6, <1>7, <1>8, <1>9, <1>10, <1>11
     DEF PoolNext, Step, Gated, Rechecked, Finish

LEMMA PoolInvariant == PoolSpec => []PoolTypeOK
<1>1. PoolInit => PoolTypeOK
  <2> SUFFICES ASSUME PoolInit PROVE PoolTypeOK
    OBVIOUS
  <2>1. Shape /\ \A r \in Requests : req[r].phase = "idle"
    BY DEF PoolInit, Shape, Away
  <2>2. InUse = {} /\ \A b \in Boards : Holders(b) = {}
    BY <2>1 DEF InUse, Users, Recheckers, InTransaction, Holders, At
  <2>3. Cardinality(InUse) <= PoolSize
    BY <2>2, FS_EmptySet, PoolAssumption
  <2> QED
    BY <2>1, <2>2, <2>3 DEF PoolTypeOK, Shape
<1> QED
  BY <1>1, PoolNextInv, PTL DEF PoolSpec

\* The pool is never overdrawn and a board's row is locked by one transaction at a time,
\* for any number of requests and connections (client.ts; select ... for update in
\* routes/widgets.ts).
THEOREM PoolKeepsToItsSize == PoolSpec => []PoolTypeOK
BY PoolInvariant

LEMMA GridlockIs ==
    ASSUME PoolTypeOK, Gridlock
    PROVE  Cardinality(At({"begun", "recheck"})) = PoolSize /\ At({"recheck"}) # {}
<1>1. Shape /\ OneHolder /\ Cardinality(InUse) <= PoolSize
  BY DEF PoolTypeOK, Shape, OneHolder
<1>2. At({"gate", "reading", "writing"}) = {}
  BY DEF Gridlock, CanGoOn, At
<1>3. At({"recheck"}) # {} \/ ~ConnectionFree
  <2>1. PICK r \in Requests : req[r] # Away
    BY DEF Gridlock
  <2>2. req[r].phase \in Phase
    BY <1>1, <2>1, PhaseIs
  <2>3. CASE r \in At({"begun"})
    <3>1. PICK t \in Holders(req[r].board) : TRUE
      BY <2>3 DEF Gridlock, CanGoOn
    <3>2. t \in At({"recheck"})
      BY <1>2, <3>1 DEF Holders, At
    <3> QED
      BY <3>2
  <2>4. CASE r \notin At({"begun"})
    <3>1. r \in At({"arrived", "passed", "recheck"})
      BY <1>2, <2>2, <2>4 DEF At, Phase
    <3> QED
      BY <3>1 DEF Gridlock, CanGoOn
  <2> QED
    BY <2>3, <2>4
<1>4. ~ConnectionFree
  BY <1>3 DEF Gridlock, CanGoOn, At
<1>5. Cardinality(InUse) = PoolSize
  <2>1. Cardinality(InUse) \in Nat /\ PoolSize \in Nat
    BY <1>1, PoolUse, PoolAssumption
  <2> QED
    BY <1>1, <1>4, <2>1 DEF ConnectionFree
<1> DEFINE W == At({"begun", "recheck"})
<1>6. InUse = W \X {"own"}
  BY <1>2 DEF InUse, Users, Recheckers, InTransaction, At
<1>7. IsFiniteSet(W)
  BY PoolAssumption, FS_Subset DEF At
<1>8. Cardinality(W) \in Nat /\ Cardinality({"own"}) = 1 /\ IsFiniteSet({"own"})
  BY <1>7, FS_CardinalityType, FS_Singleton
<1>9. Cardinality(InUse) = Cardinality(W) * 1
  BY <1>6, <1>7, <1>8, FS_Product
<1>10. Cardinality(W) = PoolSize
  BY <1>5, <1>8, <1>9
<1>11. At({"recheck"}) # {}
  <2> SUFFICES ASSUME At({"recheck"}) = {} PROVE FALSE
    OBVIOUS
  <2>1. W # {}
    BY <1>10, FS_EmptySet, PoolAssumption
  <2>2. PICK r \in Requests : r \in At({"begun"})
    BY <2>1 DEF At
  <2>3. PICK t \in Holders(req[r].board) : TRUE
    BY <2>2 DEF Gridlock, CanGoOn
  <2> QED
    BY <1>2, <2>3 DEF Holders, At
<1> QED
  BY <1>10, <1>11

\* When requests wait for each other for ever, every connection of the pool is kept by a
\* transaction that waits, and one of them for the second connection that the re-check
\* borrows (routes/widgets.ts, lib/ownership.ts): nothing else can bring the api to a stand.
THEOREM GridlockNeedsThePool == PoolSpec => []GridlockFillsPool
<1>1. PoolTypeOK => GridlockFillsPool
  BY GridlockIs DEF GridlockFillsPool
<1> QED
  BY <1>1, PoolInvariant, PTL

\* With more connections than requests in flight somebody can always go on.
THEOREM RoomyPoolGoesOn ==
    ASSUME Cardinality(Requests) < PoolSize
    PROVE  PoolSpec => []~Gridlock
<1>1. PoolTypeOK => ~Gridlock
  <2> SUFFICES ASSUME PoolTypeOK, Gridlock PROVE FALSE
    OBVIOUS
  <2>1. Cardinality(At({"begun", "recheck"})) = PoolSize
    BY GridlockIs
  <2>2. Cardinality(At({"begun", "recheck"})) <= Cardinality(Requests)
    BY PoolAssumption, FS_Subset DEF At
  <2>3. Cardinality(Requests) \in Nat /\ PoolSize \in Nat
    BY PoolAssumption, FS_CardinalityType
  <2> QED
    BY <2>1, <2>2, <2>3
<1> QED
  BY <1>1, PoolInvariant, PTL
=============================================================================
