# TLA+ models of Deptex's jobs

Deptex scans the repositories and the running applications of its customers,
repairs what it finds with an agent, and bills for it. A scan is a row of the
table `scan_jobs`; short-lived Fly machines claim rows and run a pipeline; an
Express backend queues, cancels, dispatches, repairs and charges; a React
frontend shows the result. Everything a user sees (findings, the status of a
repository, a decision to ignore a finding, a pull request, a balance) rests on
these processes agreeing through a handful of database rows, without a
transaction that spans them. That agreement is what this directory models,
checks with TLC and proves with TLAPS.

    tlasany M.tla                       parse a module
    tlc -config X.cfg MCM.tla           check an instance
    tlapm MProofs.tla                   check the proofs

## 1. Inventory

| Component | State it keeps | Operations | Hard because | Correct when | Here |
|---|---|---|---|---|---|
| **scan_jobs queue** (`backend/database/schema.sql`: table, `claim_scan_job`, `recover_stuck_scan_jobs`, `fail_exhausted_scan_jobs`, `cancel_scan_job`, `queue_scan_job`) | one row per job: status, machine_id, run_id, attempts, heartbeat_at; a unique partial index on (project, type) | insert, claim, heartbeat, terminal write, requeue, fail, cancel | many writers, some guarded by (machine_id, run_id), some by id alone; a claim reads a snapshot before it locks | one active job per slot, attempts bounded, a settled job never runs again | modelled |
| **Extraction life cycle** (`depscanner/src/index.ts`, `job-db.ts`, `pipeline.ts`, `pipeline-steps/`; `backend/src/lib/extraction-jobs.ts`, `routes/recovery.ts`) | the row, the worker's position, the last known answer about a cancel | queue, claim, stages, finalize, mark, terminal write, cancel, recovery | every step is its own statement; a cancel, a stall, a crash or the cron may come between any two | no success without a committed run; every job ends; only a job's own machine is stopped | modelled |
| **DAST life cycle** (`depscanner/src/dast/pipeline.ts`, `backend/src/routes/dast.ts`) | the row, `project_dast_findings`, `active_dast_run_id` and `previous_dast_run_id` of a target | queue with caps, setup, scan with polling, batches of findings, commit, finalize, cancel | jobs are retried, and the pipeline writes the row by id | what a target points at is a whole run | modelled |
| **Generations of findings** (`finalize_extraction`, `reap_old_extractions`, `reap_orphaned_extractions`, `deps-sync.ts`, `routes/scanner-findings.ts`) | dependency rows shared by all runs, findings stamped with their run, `active_extraction_run_id`, `previous_extraction_run_id` | stamp, stream, finalize (carry decisions, flip, reap), reap orphans, triage | a pipeline that recovery has given up may still write and finalize | a generation to roll back to; decisions survive; nothing leaks and nothing needed is reaped | partly |
| **Fleet dispatcher and zombie reaper** (`backend/src/lib/fleet-dispatcher.ts`, `fly-machines.ts`, `routes/recovery.ts`) | `fleet:lock`, `fleet:starting`, the machines | dispatch tick, boot, reap, direct fallback, stop of failed rows | locks that expire under their holder, several backends, creates whose answer is lost, stale reads | no more than FLY_MAX_FLEET machines; no machine with a job is reaped; no row waits for ever | partly |
| **Status of a repository** (`pipeline-steps/`, `backend/src/routes/workers.ts`, `deps-sync.ts`, `routes/projects.ts`) | `project_repositories.status` and `extraction_step`, `dependencies.status`, QStash messages | connect, pipeline writes, populate batches, cancel, recovery, read of the import status | six writers, none of which asks who has written before; batches come late or never | a status of work in progress is left; a success has something behind it; new dependencies are populated | partly |
| **Billing** (`backend/src/lib/billing/`, `routes/billing-stripe-webhooks.ts`) | `organization_billing`, `billing_transactions`, `billing_stripe_webhook_events`, Stripe | meter event, auto-recharge, webhook, recovery of a stuck flag | retries of what may have committed, webhooks delivered again, a flag anybody clears | no entry lost or doubled; one charge at a time; what is paid is credited | partly |
| **Aegis tasks and fix jobs** (`backend/src/lib/aegis-v3/tasks.ts`, `routes/fix-recovery.ts`, `fix-worker/src/`) | `project_security_fixes`, `aegis_agent_tasks`, the thread, the clone of a worker | accept, claim, agent loop, pull request, terminal write, follow-up, wake, Stop, drain, recovery | a worker that was given up goes on; follow-ups race the end of a run; two rows are written apart | a success has a pull request and is not undone; a follow-up is heard; every run ends | partly |
| **Worker watchdog** (`worker-watchdog.ts`, stall handler in `index.ts`) | liveness and progress clocks, armed job | soft stall (write `failed`, exit), hard kill | runs next to a main flow that may go on | its write stays inside its own claim | partly |
| **DAST findings triage** (`commit_dast_target_run`) | status of findings | carry from run to run | two engines of one target commit in turn | an ignored finding stays ignored | no |
| **Notifications and event bus**, **job-queue adapters**, **registry fetchers and feeds**, **reachability, taint and scoring**, **HTTP routes, authentication and policies**, **frontend** | see `components` in PROJECT.json | | | | no |

How they interact: the backend inserts a row and asks the dispatcher for a
machine; the machine claims the row through `claim_scan_job`, pings it every
minute, and writes its end. The user's cancel writes the same row and stops the
machine through the Fly API. Every five minutes QStash calls the recovery route:
requeue, fail, stop and mark, dispatch, reap orphans. A pipeline writes findings
under its run id all along, and makes them visible with one database function at
the end; the dependencies it was first to see are populated by batches that
QStash delivers to the backend, and the last of them writes the status of the
repository, as the pipeline does. The fix queue repeats the pattern with its own
table, machines and cron, and adds a dialogue: a message to a task whose run is
over wakes the row. A worker reports what it has used to the billing ledger,
which charges the card when the balance is low and waits for Stripe's webhook.

What is hard to test in all this is listed, line by line, under `hazards` in
PROJECT.json, with the properties that would catch it going wrong.

## 2. Modules

| Module | Models | Composes | Proofs |
|---|---|---|---|
| `JobLease` | abstract: a job waits, is leased at most `MaxAttempts` times, settles once; one open job per slot | | |
| `ScanQueue` | table, index, claim, heartbeat, recovery; the worker's record of its claim | implements `JobLease` | `ScanQueueProofs` |
| `ExtractionWorker` | extraction life cycle, watchdog's soft stall, cancel request, recovery cron | extends `ScanQueue` | `ExtractionWorkerProofs` |
| `DastWorker` | DAST life cycle with the findings of a target and its two pointers | extends `ScanQueue` | `DastWorkerProofs` |
| `Fleet` | dispatcher, its fallback, stops of the recovery route, zombie reaper, machines | extends `ScanQueue` | `FleetProofs` |
| `ClaimCap` | `claim_scan_job` with snapshot, row lock and recheck as separate steps | implements `JobLease` | `ClaimCapProofs` |
| `ExtractionRuns` | generations of findings of one project | extended with `ExtractionWorker` by the proofs | `ExtractionWorkerProofs` |
| `RepoStatus` | the status of one project's repository and its six writers, populate batches | | `RepoStatusProofs` |
| `Billing` | ledger, auto-recharge and Stripe's webhook for one organization | | `BillingProofs` |
| `TaskAgent` | an accepted task of one target: runs, follow-ups, Stop, recovery | | `TaskAgentProofs` |
| `MC...` | instances for TLC | | |

In every module a statement of SQL, a Redis command or a call of a service is
one step, and so is a database function, which runs in a transaction; whatever
the code does between two of them is folded into one of the two. `ClaimCap` is
the exception, since there the parts of one function meet.

### ScanQueue

`row[j]` is the row of job j, `wk[m]` the process on machine m: `pc` (the step it
takes next), `job`, `run` (the run_id of its claim) and `known` (the answer
`isJobCancelled` last got). A job id stands for one request to scan, so a row is
inserted once. A `run_id` is a fresh uuid, the next number here. `stale` says that
`heartbeat_at` is more than five minutes old; `HeartbeatAges` may make any
processing row stale, because the ping of a worker may fail while it goes on.
`SetStatusOwned` is the write guarded by machine_id and run_id (it has no guard on
the status, and the code has none), `SetStatus` the write by id alone.
`Claim` is one step here; `ClaimCap` shows that taking it apart keeps `JobLease`,
and by how much concurrent claims can exceed the cap that one step enforces.

### ExtractionWorker

| Variables | Code |
|---|---|
| `call[j]` | `queueExtractionJob`: select, then insert against the unique index |
| `repo[p]` | `project_repositories.status`; `settled` is `ready` or `analyzing` |
| `committed` | the jobs whose `finalize_extraction` has succeeded |
| `stall[m]`, `stalled` | the soft-stall handler, which runs next to the main flow; the jobs it has written |
| `canc[p]` | `cancelExtractionJob`: choose, write, repository, stop, each a statement |
| `cron` | the recovery request: requeue, fail, then one row after the other |

A worker goes `start -> clone -> stages -> finalize -> mark -> repo -> post -> done`,
or to `fail`. The stages between clone and finalize are one step, since none of
them writes a row modelled here; before each the pipeline asks for a cancel and a
failed query answers what was last known (`Answers`). Each status write may fail
both tries. A reply of `claim_scan_job` that is lost is `ClaimJob` followed by
`Crash`: the row is processing and nobody runs it. `CancelLost` and `CronLost` are
the death of a backend between two statements.

### DastWorker

`RunOf(m)` stands for the fresh uuid of an execution: recovery rotates run_id, so
(job, run_id) names an execution. `findings` holds the chunks an execution has
inserted. `DryRuns` are the jobs of the Test-login route, which insert nothing and
whose row the route deletes by id when no machine starts. The pipeline's heartbeat
in `PollHeartbeat` is by id and may refresh the row of another attempt. Left out:
the status that `commit_dast_target_run` carries from the run before (see the plan).

### ClaimCap

`Begin` takes the snapshot; `PassOver` and `Lock` walk the candidates in the order
of the snapshot, skip rows that are locked and check the status of the version
they lock; `Commit` ends the transaction. The other statements on a row wait for
its lock.

### ExtractionRuns

A run id is the id of its job (`doClone`). `seen[d]` is
`last_seen_extraction_run_id` of a dependency row, `finding[j][d]` the finding that
run j has on it. `Finalize` is one transaction: soft-delete, carry, flip, reap.
`ReapOrphans` deletes the dependency rows a dead run has stamped last, and the
foreign key deletes what hangs on them (`ON DELETE CASCADE`). A job that recovery
has failed keeps its pipeline (`FailRun` does not change `pc`), which is what
makes runs overlap. `ReapOrphans` requires the pipeline of what it reaps to be off:
a job is 24 hours old then, and the zombie reaper of the fleet stops machines whose
row shows no heartbeat long before. `TriageRead` and `TriageWrite` are the two
statements of the request that ignores a finding. Two history variables follow what
the user was told: `decided` holds the advisories whose ignore was answered with
success, `slipped` those of them that the visible run may lack, because the write
named a run that was displaced since it was read, or because a flip missed the
decision (`Missed`: the displaced run did not have the finding, or another pipeline
has stamped its row since). One advisory per dependency; the tables of the other
scanners follow the same run id and would only repeat the argument. Un-ignoring,
SLA deadlines and life-cycle events are left out. Names that `ExtractionWorker` has
too start with `Runs` here (`RunsInit`, `RunsNext`, `RunsSpec`), since one module
proves theorems about both.

### Fleet

| Variables | Code |
|---|---|
| `lock`, `starting` | Redis: `fleet:lock` with its token, the sorted set `fleet:starting` (young, or past its TTL) |
| `tick[d]` | a call of `dispatchFleet` on instance d: what it has read (`running`, `claimable`), what it still starts (`todo`, `pool`), the machine just made |
| `wk[m]`, `fresh` | the machine: off, booting, idle, running its row, hung; within the boot grace of the reaper |
| `reap` | `reapZombieMachines`: candidates left after each read, reads that failed, who claimed since |
| `toStop` | rows that `fail_exhausted_scan_jobs` returned, for `recovery.ts` to stop |
| `extra`, `overrun`, `faults` | history: machines outside the accounting of a tick; a lock that ran out under its tick; faults so far |

`TakeLock`, `Snapshot`, `Count` (with its two degraded forms), then rounds of
`Reuse` or `Burst` with `Note`, then `Unlock`. `AnyQueued`, `NoneProcessing` and
`Direct` are the fallback. `BurstRepeated` is a create whose answer is lost and
that `fly-machines.ts` repeats. Time is abstract: whatever has a TTL may run out,
and running out under somebody who still needs it is a fault. Left out: the
hourly spend cap (off unless configured), the mode without Redis, a pinned image,
the other callers of start and stop, two reapers at once (`fleet:reaplock`).

### RepoStatus

| Variables | Code |
|---|---|
| `row[s]`, `pc[s]`, `new[s]` | a scan: its job, its pipeline's next step, `namesToCreate` and then `ctx.newDepsToPopulate` |
| `dep[d]`, `elsewhere`, `direct` | `dependencies.status`; new rows that another project has inserted and not populated; the project's direct dependencies that are not removed |
| `repo` | `status`, `extraction_step`, `ast_parsed_at` of `project_repositories` |
| `msg`, `hand` | batches QStash holds, with tries; the populate handler and `populateDependenciesInFlight` |
| `con`, `notify`, `canc`, `look` | a request that connects, a recovery request, a cancel, a read of the import status, between two statements |
| `committed`, `dropped`, `lost` | history: finalized scans; new rows in no batch, or in one that was given up; a writer of the status was lost |

`ReadKnown`, `Insert` and `Publish` are apart because others insert in between,
and because whatever ends the stage between the last two (`StageThrows`, `Crash`)
leaves rows that no later scan takes for new. A scan finds the packages
`Wants[s]`, of which `Direct[s]` are direct: `Insert` inserts all that are new and
keeps only the direct ones for the queue. `InsertThrows` leaves the chunks before
the one that failed. The row of a package is shared: another project inserts it
(`ElsewhereInserts`) and populates it in time or never. `ConnectCheck`,
`ConnectRepo` and `ConnectQueue` are the route that connects a repository, the
first time or again; it may die before its upsert and before its insert. `Failed`
gives a message back to QStash until `MaxTries`; `TimesOut` is QStash giving up on
a handler that is still at work. Left out: versions, scores and policies a batch
writes, the trees it backfills, a second backend, and the loss of a single status
write.

### Billing

| Variables | Code |
|---|---|
| `org` | the row of `organization_billing`: balance, enabled, `auto_recharge_in_progress`, since when |
| `debits`, `credits` | rows of `billing_transactions`, by idempotency key and by payment intent |
| `task[t]` | `recordMeterEvent` with the recharge attempt it sets off, or a PUT that enables |
| `pi[p]`, `event[p]`, `failed` | at Stripe: invoice and payment intent, `payment_intent.succeeded`, `invoice.payment_failed` |
| `hook[h]` | a run of the webhook handler |
| `now` | minutes; `createTopUpInvoice` derives its keys from the minute, so a payment intent is named by its minute |
| `stolen`, `lost` | history: the flag of a charging task was cleared by another; a payment whose event met a fault the release does not cover |

`CheckKey`, `Deduct` (`deduct_balance`), `DeductTransient` are the meter event;
`Read` to `Lock` decide on a recharge; `Invoice` to `Disable` are the charge and
its failure; `Claim`, `Credit`, `ClearFlag`, `HandlerThrows`, `Release`,
`ClaimKept` the webhook. `Unnamed` is its early return without organization or
purpose: it is answered 200 and keeps its claim, and any payment may meet it,
since a failed stamp of the metadata and a failed look-up of the invoice are both
swallowed. A meter event that `recordMeterEvent` refuses, gives up or that dies
with its backend ends in `failed` (`Fail`), any other in `end`. `SmartRetry` is
Stripe trying the card of an invoice that was not voided again. Left out: manual
top-ups, payment methods, mail, the PUT that disables.

### TaskAgent

| Variables | Code |
|---|---|
| `row` | the target's row in `project_security_fixes`; `run` is run_id, `prior` is `prior_status`, `approved` and `started` the time stamps |
| `task` | `aegis_agent_tasks.status`, which the trigger rolls up (`Rollup`) and others write |
| `wk[m]` | a fix worker: setup, loop, mark, task, drain; what it has seen of the thread; how it ends |
| `posted`, `calls` | messages of the user; follow-up requests between save and wake |
| `stop`, `cron` | `cancelTask` and the recovery request between two statements |
| `heard`, `dropped` | history: the newest message replayed by a run that ended on its row; at the last loss |

A message is its number and a time stamp the number of messages posted by then:
the code compares time stamps only to see whether a message is newer. What the
agent and its tools do to the clone is left out; what is kept is how a run may
end, which fences its writes meet, and in which order the row is marked, the task
written and the thread drained (the order differs when the run has thrown). Left
out: acceptance and decline, tasks of several targets, the deterministic fixes
that have no agent.

## 3. Runs

| Run | Instance | States | Shows |
|---|---|---|---|
| `ExtractionRace` | 2 requests of one project, 1 machine, 1 attempt | 818 000 | never two active jobs; nothing reads `completed` without a committed run, but for one exception below |
| `ExtractionLife` | 1 job, 2 attempts, 2 machines, fairness; the first attempt is on the first machine | 411 000 | run ids tell attempts apart; two workers only from the second attempt; every job ends; `JobLease` is kept |
| `DastLife` | a scan and a dry run of the other engine, 2 attempts, 2 chunks, fairness; both requests or both machines | 348 000 | both pointers name whole runs; `completed` has a whole run of the job; every scan ends; `JobLease` is kept by unguarded writes and by the delete |
| `ClaimRace` | 3 jobs of one organization, 2 machines, cap 1, 2 attempts | 190 000 | a row is granted once; the cap is overrun by fewer than the machines |
| `Runs` | 3 scans, 1 dependency, fairness | 346 000 | the reapers take no finding of the visible run, of its predecessor or of a pipeline at work, but for the named ways; a decision holds across rescans but for two windows; what dead runs left is reaped |
| `Billing` | any two of a meter event, the same sent again, and a PUT; 2 webhook runs, 2 minutes, fairness | 293 000 | the balance counts every recorded payment and meter event once, and what is answered as deducted is recorded; one charge at a time unless a flag was cleared; what is paid is credited but for the named losses |
| `Fleet` | 2 dispatchers, 1 warm and 2 burst machines, fleet of 1, 1 job with 2 attempts, 1 fault, fairness | 181 000 | the cap holds and is exceeded by a batch at most; the windows in which the reaper hits a working machine; no queued row waits for ever |
| `RepoStatus` | 2 scans, 2 dependencies, one of them transitive for the first scan, batches of 1, 1 retry, fairness | 535 000 | a status of a scan under way is left; a success is founded; new dependencies are populated |
| `Task` | 2 machines, 2 follow-ups, 1 Stop, 2 faults, fairness | 265 000 | only the worker of a run, a Stop or the cron ends it; successes stand; follow-ups are heard; runs end |
| `CancelStops`, `RunsReaper`, `BillingAck` | smallest instances | | section 5 |

Why the bounds are enough. A race on a row needs two writers: two requests, or two
attempts, or a request and an attempt, with two machines when the attempts
overlap. The cap of an organization needs one more job than cap plus machines
minus one, hence three jobs for a cap of one. A third generation is the first
that `finalize_extraction` reaps, hence three scans. Two chunks are the fewest
with a step between them. Two instances of the backend, a fleet of one and three
machines are the fewest in which two ticks can count the same headroom and in
which the overrun of a batch shows; the second attempt lets recovery requeue what
a hung machine holds. A recharge needs an attempt that finds the flag up and a
clock that ticks once for it to be stuck. Two batches are the fewest of which one
may be lost, and a second scan is what meets the leftovers of the first, or the
rows of another project. Two requests with one key and two deliveries of one event
are the fewest that meet in `Billing`. The
second message is the first that can come after a wake.

Constraints. `run_id` and `attempts` are bounded by `MaxAttempts`, so the runs
need no constraint to be finite; faults, messages, minutes and tries have
constants of their own. Some runs state one to leave out combinations of
independent trouble, and say so in the MC module: `FirstOnM1` and `InOrder`
(`MCExtractionRuns`) break a symmetry, `TwoAtOnce` in `MCBilling` lets any two of
the three requests meet, with two deliveries, `Narrow` in `MCDastWorker` lets two
requests or two machines meet, in `MCFleet` two ticks or three machines only
before the first claim, in `MCRepoStatus` one request between its statements at a
time, two batches only without requests and late pipelines, and the second scan
alone or after the end of the first, in `MCTaskAgent` two of a Stop and the
faults. A state outside is generated and checked by the invariants but not
continued; liveness is judged on the behaviours inside. What the constraints leave
out the theorems of section 4 cover for the invariants, since they know no
constraint. `ClaimRace` uses symmetry of machines: they are interchangeable in
`ClaimCap`, and the run has no liveness property.

Deadlock is checked in `Fleet` (a cron can always tick). In the others everybody
may be done: every request made, every machine off.

Refinement. `JobLease` is the promise of the queue to everything above it. The
mapping forgets machines and heartbeats; `completed`, `failed`, `cancelled` and
`deleted` all map to `settled`. Any writer that revived a settled row, requeued
past the limit, or put two jobs in a slot would break it.

Mutants. Each property has a mutant, an operator beside the definition it alters
(its comment starts with `Mutant`), and TLC finds the property violated under it.

Fairness, and why the code justifies it:

- `BootMachine`, `ClaimJob` (weak): the per-minute dispatch starts machines for
  queued work, and a machine's loop claims until nothing is left.
- `WorkerStep` (weak): a pipeline that is alive goes on; stages and engines have
  timeouts, and the watchdog ends those that do not. Nothing is assumed for a
  machine that has crashed. `StallExit` (weak): the stall handler exits.
- `Age` (weak): the heartbeat of a row nobody pings grows old. A live worker may
  refresh it for ever; it then takes its own steps.
- `CronRecover`, `CronFail` (weak in `DastWorker`, strong in `ExtractionWorker`,
  where the request is a process with a program counter and may skip a failed RPC
  or die, but not for ever), `CronNotify` (weak): QStash fires every five minutes.
- In `ExtractionRuns`, a job that is not over is moved on by one of claim, pipeline
  or recovery, and the orphan reaper runs. A project that is scanned at every
  single tick of the cron would hold its reaper back; the instance's scans end.
- In `Fleet`, ticks, machines, the reaper and recovery go on (weak), what has a
  TTL runs out (weak), and some machine boots and some machine claims (strong):
  a started machine does not lose the race with the reaper every time. Faults
  are finitely many.
- In `RepoStatus`, the request that connects goes on or dies, pipelines or
  recovery in their place, requests and the handler go on, and QStash delivers
  some message (weak). Nothing is assumed of other projects.
- In `Billing`, Stripe delivers each event again for days and `credit_balance`
  does not fail for ever for one payment (strong, for each payment), and a run of
  the handler ends (weak). Nothing is assumed of tasks, which may die anywhere.
- In `TaskAgent`, a pipeline goes on (weak) and its wall clock ends the agent's
  loop however often it is re-entered (strong); a queued row is claimed, a request
  that is not cut off wakes, heartbeats nobody sends age, the cron fires (weak).
- Nothing is assumed of users, cancels, crashes or stalls.

## 4. Proofs

The theorems hold for every value of the constants under the named assumptions of
each module (`QueueAssumption`, `ClaimAssumption`, `RunsAssumption`,
`FleetAssumption`, `RepoAssumption`, `BillingAssumption`, `TaskAssumption`: bounds
are numbers, sets that are counted are finite, `Null` is none of the values it is
told apart from).

| Module | States what a run checks | States more |
|---|---|---|
| `ScanQueueProofs` | | `LeaseGivesQueue`, `LeaseGivesEnds` |
| `ExtractionWorkerProofs` on `ExtractionWorker` | `TypeCorrect`, `OneActive` (`OneActivePerSlot`), `DistinctRuns` (`RunsDistinct`), `SingleWorker` (`SoleWorker`), `HonestCompletion` (`CompletedMeansCommitted`), `Refinement` (`ImplementsJobLease`) | `BoundedAttempts`, `EndsStay` |
| the same on `ExtractionRuns` | `RunsTypeCorrect`, `DistinctPointers` (`PointersDistinct`), `KeepsFindings` (`FindingsKept`), `KeepsDecisions` (`DecisionKept`) | `SelectsLeftovers` |
| `DastWorkerProofs` | `TypeCorrect`, `OneActive` (`OneActivePerSlot`), `DistinctRuns` (`RunsDistinct`), `WholeRuns` (`ActiveRunIsWhole`), `HonestCompletion` (`CompletedMeansInserted`), `Refinement` (`ImplementsJobLease`) | `BoundedAttempts`, `EndsStay` |
| `ClaimCapProofs` | `TypeCorrect`, `BoundedOverrun` (`OverrunBounded`), `Refinement` | |
| `FleetProofs` | `TypeCorrect`, `Capped` (`FleetCapped`), `Bounded` (`OverrunBounded`), `Spares` (`ReaperSpares`) | `OneActive`, `DistinctRuns`, `Refinement`, `BoundedAttempts`, `EndsStay` |
| `BillingProofs` | `TypeCorrect`, `ExactBalance` (`BalanceExact`), `OneCharge` (`SoleCharge`) | `Remembers` |
| `RepoStatusProofs` | `TypeCorrect`, `FoundedReady` (`ReadyIsFounded`) | `NoDepForgotten`, `NeverAbandoned` |
| `TaskAgentProofs` | `TypeCorrect`, `CompletedHasPr` (`CompletedMeansPr`), `OnlyOwnerEnds` (`OwnerEnds`), `StandingSuccess` (`SuccessStands`) | `NoFollowupForgotten` |

The last column holds two kinds of results. `LeaseGivesQueue` and `LeaseGivesEnds`
are about the abstract specification: a row of `scan_jobs` that implements
`JobLease` is claimed at most `MaxAttempts` times, is never queued without an
attempt left (a claim would refuse it for ever), and never leaves a settled status.
The three life cycles on the table get both from their `Refinement`
(`BoundedAttempts`, `EndsStay`) without another induction. The others are the
safety half of a liveness property: whatever has to happen still has somebody who
is going to do it, in every reachable state. A dropped wake or an orphan nobody
selects breaks them at the step where it happens, for any constants; that
whoever is due gets there in the end is what the fairness adds.

| Liveness (TLC) | Safety half (TLAPS) |
|---|---|
| `OrphansReaped` | `LeftoversSelected`: what an ended run has left, outside both pointers, is selected by the reaper |
| `PaidIsCredited` | `NothingForgotten`: a payment is credited, owed, in the hands of a handler, or in `lost` |
| `FollowupHeard` | `FollowupPending`: for an unheard message the row is queued or running, or a request, the cron or a worker is about to wake it |
| `DepsSettle` | `DepsHeld`: a pending dependency is with its pipeline, in a message or with the project that inserted it, or in `dropped` |
| `StatusSettles` | `SomebodyWrites`: behind a status of a scan under way there is a request that connects, a pipeline, a recovery or a cancel that owes its end, or its writer is in `lost` |
| `EveryJobSettles`, `EveryScanSettles`, `QueuedRuns` | `QueueKept`: a queued row has an attempt left |

Each module has an inductive invariant `IInv`; `Init` implies it, each action keeps
it (a lemma per action or group of actions), and the theorems follow. An action
property follows from `IInv` and the step itself.

- **ExtractionWorker**, on the lemmas of `ScanQueueProofs` about each statement on
  the table. `IInv == Typed /\ QueueInv /\ Requests`. `RunsDistinct` is not
  inductive alone: a claim hands out the row's present run_id, so one must know
  that no worker holds it already. `QueueInv` adds `Unclaimed` (a queued row has no
  machine, and every worker of the job has an older run_id), `Claims` (a worker
  never has a newer run_id than its row) and `Budget` (attempts stay within the
  limit, and below it while the row is queued). `Requests` ties the outstanding
  requests to rows: what the cancel has chosen and what the cron has yet to notify
  are rows that were inserted, so an update by id never revives an absent row.
  `HonestCompletion` adds `Verdicts` on top: a worker on its way to `completed` has
  a commit behind it, or a stall wrote the row, or the run has been overtaken, or
  the row is cancelled and the worker knows. For the refinement, each action is
  shown to be the step of `JobLease` its mapping names, or a stutter.
- **DastWorker**, on the same lemmas. `IInv == QInv /\ Batching`. `QInv` is types,
  `QueueInv`, `Leased` (a running row names a machine) and `Requests`; most actions
  write no more of the queue than a status or a heartbeat, by id or not, and one
  lemma (`QuietKeeps`) covers them all. `Batching` follows the findings: a run that
  nobody has claimed yet has none (`Ahead`, which is why the next attempt starts
  from nothing), and a worker has inserted a prefix of its batches while it
  inserts, all of them when it commits or finalizes (`Written`). It is kept
  because `RunsDistinct` gives each execution its own worker.
- **ClaimCap**: `Locks` (a lock is held by one claim, on a row that is queued and
  was a candidate in its snapshot) gives the refinement; `Counted` (the jobs in
  flight of an organization, plus the claims under way that saw room, are fewer
  than the cap plus the machines) gives the overrun.
- **ExtractionRuns**: `Fresh` says that a run whose pipeline has not finalized is
  neither pointer, so a flip never displaces a run by itself. `KeepsFindings`
  needs it at two steps: a flip empties only what is neither pointer afterwards,
  and the pipelines it may cut off are next to a job that is over, since the index
  admits one that is not; the orphan reaper deletes by the runs it selects, or by
  the cascade. `DecisionKept` is a conjunct of `RunsIInv`: at a flip whatever is
  decided and not ignored in the new run is in `Missed`, and no later step opens a
  finding of a run that has finalized. `Swept` (a run that has been reported is
  one of the pointers or has no rows left) gives `SelectsLeftovers`: a completed
  run, which the reaper never selects, has lost its rows to `finalize_extraction`
  when it left the pointers.
- **Fleet**: `LockHeld` (while no lock has run out under its tick, the tick at work
  holds it), `WithinFleet` (machines plus what the tick still starts stay within
  the cap) and `WithinBatches` (machines plus everything that ticks, with or
  without a lock, still owe stay within the cap and a batch for each other
  instance). What ticks owe is a set of pairs (`Owed`), so that the sum is a
  cardinality. For the refinement, `RowsQuieten` and `MachinesQuieten` show that
  everything but submit, claim and requeue is a quiet step of the queue; boots,
  freezes and reaps change a machine and leave its claim or drop it.
- **Billing**: `PaidOnly` (an event exists, is handled or is credited for paid
  intents alone), `Balanced` (the equation), `FlagHeld` (until somebody else takes
  it down, the flag is up for the one that charges), `Answered` (a meter event
  past its RPC and not failed is `Known` to the ledger) and `TaskOK`. `Tracked`
  adds for `Remembers` that a handler about to clear the flag has credited.
- **RepoStatus**: `Links` (the dependencies a scan or a project refers to exist),
  `Reasons` (whoever is about to write `ready` knows of a commit or of a worked-on
  dependency) and `Founded`, the property. `Idle` (a row that nobody has claimed
  has no pipeline) and `HeldInv` (besides `DepsHeld`: what the handler has in
  hand is still in a message or was dropped, and what it is through with is ready
  or failed) give `NoDepForgotten`; `Idle` gives `NeverAbandoned`, in which the
  request that connects owes the end until it has queued a scan (`con`).
- **TaskAgent**: `Owns` (a worker whose machine is on the row has the row's run and
  its prior status: a wake clears the machine, so the fence by machine of
  `terminalUpdate` is one by run, which is `OnlyOwnerEnds`) and `Reasoned` (a worker
  takes its end for a success only if a pull request is on record, and for a failure
  only without an earlier success). `FirstRun` (a first run has approved and seen no
  message) is what `NoFollowupForgotten` needs on top.

Only model-checked: liveness, which is out of the prover's reach
(`EveryJobSettles`, `EveryScanSettles`, `OrphansReaped`, `PaidIsCredited`,
`QueuedRuns`, `StatusSettles`, `DepsSettle`, `FollowupHeard`, `RunSettles`). Every
invariant, action property and refinement of a passing run is a theorem.

## 5. Where the code and its comments disagree

Three have a run in which TLC finds the behaviour.

- `CancelStops` (`extraction-jobs.ts:215`). The machine id is read first and used
  last; by then the machine may run the job of another project, and is stopped.
- `RunsReaper` (`schema.sql:7740`, `:5782`). A scan that fails after it has
  stamped the shared dependency rows takes them along when it is reaped a day
  later, and with them the findings of the visible run.
- `BillingAck` (`stripe-billing.ts`). A payment event that cannot be claimed
  because the database fails is answered as already processed; Stripe does not
  retry, and the payment is never credited.

The models contain further behaviours that a comment excludes, or that nobody
seems to have meant. They have no run of their own; where a property has an
exception or a history variable, they are the reason.

Scans:

- The write that follows a cancel is guarded by machine and run, and a cancel
  changes neither, so the cancelled row becomes `failed`; the comment expects 0
  rows (`depscanner/src/index.ts:93`). A job that completes between the select and
  the update of `cancelExtractionJob` becomes `cancelled` (`extraction-jobs.ts:193`).
- A DAST attempt that recovery has given up writes the row of its successor,
  because the pipeline writes by id (`dast/pipeline.ts:1451`). The Test-login route
  deletes a row that a machine has claimed since (`dast.ts:1251`).
- A cancel that a soft stall overwrites with `failed` is missed by the worker's
  last look, and the job reads `completed` without a committed run: the exception
  in `CompletedMeansCommitted`.
- A pipeline that recovery has failed may finalize while its successor streams,
  and reaps what the successor has streamed so far (`schema.sql:5578`): the
  exception for pipelines at work in `FindingsKept`.
- The dialog says that an ignored finding "survives rescans until you un-ignore it"
  (`IgnoreReasonDialog.tsx:61-62`). It does not when another pipeline has stamped its
  dependency since (`schema.sql:4160`), when a scan in between did not find it
  (`finalize_extraction` carries from the visible run alone), or when the request
  read the visible run before a flip and wrote after it (`scanner-findings.ts:571`):
  the user is answered 200 and the next scan does not carry it. These are `slipped`
  in `DecisionKept`. On a DAST target a scan of the other engine breaks the chain as
  well (`schema.sql:2900`, section 6).
- Two requests with different engines both pass the count of `queue_scan_job`
  (`schema.sql:5504`), and two claims the cap of `claim_scan_job` (`:2798`).

Machines:

- The reaper reads who is busy before it stops, and holds a lock of its own, not
  the one of the dispatcher: it stops a machine that claims in between
  (`fleet-dispatcher.ts:379-389`, `:438`). `recovery.ts:98-104` stops the machine of
  a failed row even if it runs another job by now.
- A create whose answer is lost is repeated: two machines for one.

Status of a repository:

- A populate batch may show `ready` before finalize has written `analyzing`
  (`workers.ts:1891`, `finalize.ts:113-115`), which is then left only by the read of
  the import status; `ready` and `finalizing` are written over `error`, `cancelled` or
  `extracting`. `finalizing`, written when the syntax trees were not parsed, is
  left only by the next scan (`projects.ts:7258`).
- A batch whose dependencies all fail is answered 200 and writes nothing
  (`workers.ts:1909`). A batch that was not queued leaves its dependencies pending:
  no later scan takes them for new (`deps-sync.ts:53`, `:127-131`). So does whatever
  ends the stage between the insert and `callQueuePopulate`: an error of a later
  chunk, of the upsert of the versions, or the time limit (`deps-sync.ts:32`, `:71`,
  `:88-93`).
- New transitive packages are inserted as pending and never queued
  (`deps-sync.ts:53-72` against `:114-118`). A scan of any project that depends on one
  directly takes it for known, and does not queue it either.
- A soft stall leaves the repository `extracting`, as does a recovery request that
  dies after `fail_exhausted_scan_jobs` (`index.ts:144`, `recovery.ts:72`). A request
  that dies between its upsert and the insert of the job leaves it `initializing`
  (`projects.ts:4258`, `:4293`). A clone may write `extracting` after a cancel, and
  a worker that was given up `error` over its successor's `ready`.

Billing:

- The monthly cap can be passed: the sum is taken before the lock, an error counts
  as zero, and only what has been credited is counted (`auto-recharge.ts:99`).
- "Handlers throw ONLY on retryable failures" and return on terminal conditions
  (`billing-stripe-webhooks.ts:76-83`), but an unnamed payment need not be terminal:
  `createTopUpInvoice` swallows a failed stamp of the metadata
  (`stripe-billing.ts:363-383`), and `getInvoiceMetadata` answers an error of Stripe
  as an invoice without metadata (`:467-475`). The handler returns
  (`billing-stripe-webhooks.ts:136-147`, `:155-162`), the event is answered 200 with
  its claim kept, and the payment is not credited: `Unnamed`, a loss of
  `PaidIsCredited`.
- A retry of a deduction that had committed may be told that there is not enough
  credit (`ledger.ts:66-69`).
- Failing attempts, the webhook and the recovery of a stuck flag clear it whoever
  holds it. An attempt in the same minute as one that was paid gets the paid
  invoice back, and its flag stays up until it is stuck.

Tasks:

- A Stop of a claimed resume leaves the row `rejected` and the task `cancelled`
  although the success is said to be restored (`tasks.ts:708-710`,
  `tools.ts:837-842`; `loop.ts:505-509` returns early). So do a setup that throws and
  the cron: the exceptions in `SuccessStands`.
- A throw drains while the row still reads `executing`, so the wake does nothing
  (`fix-worker/src/index.ts:167-174` says otherwise). The crash-wake compares with
  `started_at`, so messages between the approval and the claim of a first run are
  lost (`fix-recovery.ts:122`), and a crash between mark and drain is never seen
  (`fix-recovery.ts:100`: "closes the only path"). A backend that dies between the
  save of a message and its wake loses the wake. These are the losses in
  `FollowupHeard`.
- A worker that was given up refreshes the heartbeat of the run that came after it,
  by id (`fix-worker/src/job-db.ts:83-88`), and may wake the row once that run has
  ended, for a message it may have heard (`:252`): what `OwnerEnds` leaves it.
- `markTaskFromFix` is not fenced, so a worker that was given up writes the task;
  `cancelTask` writes `cancelled` even when its update of the row hit nothing. A Stop
  between the look at the lease and the push does not keep the push from happening
  (`tasks.ts:669-672`), and a crash after the push and before its record leaves a
  pull request of which a resume does not know (`tools.ts:570`).

## 6. Plan

Done: `JobLease`, `ScanQueue`, `ExtractionWorker`, `DastWorker`, `ClaimCap`,
`ExtractionRuns`, `Fleet`, `RepoStatus`, `Billing`, `TaskAgent`, and theorems about
every one. In order of what they are worth:

1. `DastTriage`: decisions on DAST findings, carried by `commit_dast_target_run`
   from the run before, which may be another engine's (`schema.sql:2900`); with
   `DastWorker`'s attempts. Property: an ignored finding found again by its own
   engine stays ignored. Two engines, two rescans, one finding each.
2. Tasks of several targets: the trigger's rollup over rows that end in any order,
   and acceptance and decline (`tasks.ts:653-656` has no guard on the status).
3. `Watchdog`: the two clocks and the hard kill against the disarm at the end of a
   job (`worker-watchdog.ts:118`).
4. Notification dispatch with its retries.
5. The safety half of `RunSettles`: a run under way has a worker, or a heartbeat
   that can grow old.

## 7. Not modelled, and why

Most of the repository's lines are not processes that agree on state: the
frontend, which reads what is written here; request handling over single rows
(authentication, policies, organizations, integrations); pure functions over large
data (reachability, taint, scoring, parsers), whose correctness is a matter of
their data; and network I/O (registries, feeds, model providers), whose failure is
a step of the models wherever somebody waits for it. Logs, progress messages and
the steps of `extraction_step` that no decision depends on are left out, and so is
the reconciliation of a rolled-back generation, which the schema provides for but
no code performs. Clocks: five minutes, 24 hours, the TTLs and the stall limits are
the nondeterministic steps described above.
