------------------------------ MODULE TaskAgent ------------------------------
(***************************************************************************)
(* A task that a user has accepted from Aegis, with one target: its row in *)
(* project_security_fixes, the fix-worker machines that claim the row and  *)
(* run an agent on it, the follow-up messages and the Stop of the user,    *)
(* and the recovery cron of the fix queue                                  *)
(* (fix-worker/src/index.ts, job-db.ts, agent/loop.ts, agent/tools.ts;     *)
(* backend/src/lib/aegis-v3/tasks.ts, routes/fix-recovery.ts; wake_agent_fix,*)
(* claim_fix_job, fail_exhausted_fix_jobs and the trigger                  *)
(* recompute_aegis_task_status in backend/database/schema.sql).            *)
(*                                                                         *)
(* A message is its number, and a time stamp is the number of messages     *)
(* that had been posted by then: all that a comparison of the two is used  *)
(* for is whether a message is newer.                                      *)
(***************************************************************************)
EXTENDS Integers

CONSTANTS Machines,     \* machines of the fix-worker app
          MaxMsgs,      \* bound: follow-ups the user sends
          MaxStops,     \* bound: presses of Stop
          MaxFaults,    \* bound: crashes, lost writes, throws
          Null          \* no machine

ASSUME TaskAssumption ==
  /\ MaxMsgs \in Nat /\ MaxStops \in Nat /\ MaxFaults \in Nat
  /\ Null \notin Machines

VARIABLES
  row,      \* the row of the target
  task,     \* aegis_agent_tasks.status
  wk,       \* wk[m]: the worker on machine m
  posted,   \* user messages in the thread
  calls,    \* follow-up requests that have saved their message and not yet called wake_agent_fix
  stop,     \* cancelTask: the step it takes next
  cron,     \* the recovery request: its step and the row's started_at it read
  stops, faults,
  heard,    \* auxiliary: the newest message replayed by a run that has ended on its own row
  dropped   \* auxiliary: the newest message at the last loss (see the comment at FollowupHeard)

vars == <<row, task, wk, posted, calls, stop, cron, stops, faults, heard, dropped>>

Ended == {"completed", "failed", "rejected"}
Later(a, b) == IF a > b THEN a ELSE b

FreeWorker == [pc |-> "free", run |-> 0, prior |-> "none", amend |-> FALSE,
               seen |-> 0, out |-> "none"]

(* insertAgentFixRow has just stored the row and acceptTask the task. *)
Init ==
  /\ row = [st |-> "approved", machine |-> Null, att |-> 0, stale |-> FALSE, run |-> 0,
            prior |-> "none", approved |-> 0, started |-> 0, pr |-> FALSE]
  /\ task = "working"
  /\ wk = [m \in Machines |-> FreeWorker]
  /\ posted = 0 /\ calls = 0 /\ stop = "idle"
  /\ cron = [pc |-> "idle", started |-> 0]
  /\ stops = 0 /\ faults = 0 /\ heard = 0 /\ dropped = 0

Fault == faults < MaxFaults /\ faults' = faults + 1

-----------------------------------------------------------------------------
(* The row and what the database does on its own.                          *)

(* recompute_aegis_task_status, fired by every write of the row's status: a
   task the user has cancelled keeps its status.                           *)
Rollup(st) == IF task = "cancelled" THEN task
              ELSE IF st = "completed" THEN "completed"
              ELSE IF st \in {"failed", "rejected"} THEN "failed"
              ELSE "working"

SetStatus(st) ==
  /\ row' = [row EXCEPT !.st = st, !.stale = FALSE]
  /\ task' = Rollup(st)

(* Mutant: prior_status is taken after the reset. *)
WokenPriorNew == [row EXCEPT !.st = "approved", !.att = 0, !.machine = Null, !.started = 0,
                             !.approved = posted, !.run = @ + 1, !.prior = "approved"]
(* Mutant: the machine of the last run stays on the row. *)
WokenKeepsMachine == [row EXCEPT !.st = "approved", !.att = 0, !.started = 0,
                                 !.approved = posted, !.run = @ + 1, !.prior = row.st]
(* wake_agent_fix on an ended row; NULL time stamps are 0. *)
Woken == [row EXCEPT !.st = "approved", !.att = 0, !.machine = Null, !.started = 0,
                     !.approved = posted, !.run = @ + 1, !.prior = row.st]

(* A wake does nothing to a row that is queued or running. It also takes the
   cancellation of the task back.                                          *)
Wake == IF row.st \in Ended
        THEN row' = Woken /\ task' = "working"
        ELSE UNCHANGED <<row, task>>

-----------------------------------------------------------------------------
(* The worker.                                                             *)

(* What a run has seen before it reads the thread: maybeRequeueFollowup falls
   back to approved_at, since a first run does not replay.                 *)
(* Mutant: it falls back to started_at. *)
SeenAtStart == posted
SeenAtClaim == row.approved

(* claim_fix_job by a machine that is on, or that a request or the cron has
   started for the queued row (startFixMachine): one that finds no work for a
   minute exits, which nothing else depends on. max_attempts is 1 for an
   agent's row. loadFullRow comes next: what it reads is read here, since only
   five minutes of silence could change it.                                *)
Grant(m) == [row EXCEPT !.st = "executing", !.machine = m, !.stale = FALSE,
                        !.started = posted, !.att = @ + 1]
Claim(m) ==
  /\ wk[m].pc = "free" /\ row.st = "approved" /\ row.att < 1
  /\ row' = Grant(m)
  /\ task' = Rollup("executing")
  /\ wk' = [wk EXCEPT ![m] = [FreeWorker EXCEPT !.pc = "setup", !.run = row.run,
                                                !.prior = row.prior, !.seen = SeenAtClaim]]
  /\ UNCHANGED <<posted, calls, stop, cron, stops, faults, heard, dropped>>

(* The answer of the claim is lost, or loadFullRow fails: the worker goes on
   and leaves the row executing.                                           *)
ClaimLost(m) ==
  /\ wk[m].pc = "free" /\ row.st = "approved" /\ row.att < 1 /\ Fault
  /\ row' = Grant(m)
  /\ task' = Rollup("executing")
  /\ UNCHANGED <<wk, posted, calls, stop, cron, stops, heard, dropped>>

Resumed(m) == wk[m].prior # "none"

(* Token, model, clone and, in a resume, the replay of the thread. A resume
   amends the pull request on record if it is still open; a human may have
   closed it.                                                              *)
SetUp(m) ==
  /\ wk[m].pc = "setup"
  /\ \E open \in BOOLEAN :
       wk' = [wk EXCEPT ![m].pc = "loop", ![m].amend = Resumed(m) /\ row.pr /\ open,
                        ![m].seen = IF Resumed(m) THEN posted ELSE @]
  /\ UNCHANGED <<row, task, posted, calls, stop, cron, stops, faults, heard, dropped>>

(* Any of these throws, through runTaskAgent's caller. *)
SetUpThrows(m) ==
  /\ wk[m].pc = "setup" /\ Fault
  /\ wk' = [wk EXCEPT ![m].pc = "drain", ![m].out = "threw"]
  /\ UNCHANGED <<row, task, posted, calls, stop, cron, stops, heard, dropped>>

LeaseHeld(m) == row.machine = m /\ row.st = "executing"

(* isJobCancelled between two steps: the run ends without a word. *)
SeeCancel(m) ==
  /\ wk[m].pc = "loop"
  /\ row.st = "rejected" \/ row.machine # m
  /\ wk' = [wk EXCEPT ![m] = FreeWorker]
  /\ UNCHANGED <<row, task, posted, calls, stop, cron, stops, faults, heard, dropped>>

(* open_pull_request: the lease, the push, the lease again, and on to
   markCompleted. With nothing to push, an error of GitHub or a lease that is
   lost the agent stays in its loop.                                       *)
Push(m) ==
  /\ wk[m].pc = "loop" /\ LeaseHeld(m)
  /\ wk' = [wk EXCEPT ![m].pc = "mark", ![m].out = "pr"]
  /\ UNCHANGED <<row, task, posted, calls, stop, cron, stops, faults, heard, dropped>>

(* Whether an end without a pull request of its own is a success: the one
   that is open, or the earlier success, stands.                           *)
(* Mutant: completed is taken at its word. *)
MayAnswerAny(m) == TRUE
MayAnswer(m) == wk[m].amend \/ wk[m].prior = "completed"

(* finalizeFailure restores an earlier success, which is an answer here. *)
(* Mutant: finalizeFailure does not look at the prior status. *)
MayFailAny(m) == TRUE
MayFail(m) == wk[m].prior # "completed"

(* finish_task, the natural stop and the always-terminal end of runTaskAgent. *)
Finish(m) ==
  /\ wk[m].pc = "loop"
  /\ \/ MayAnswer(m) /\ wk' = [wk EXCEPT ![m].pc = "mark", ![m].out = "answered"]
     \/ MayFail(m) /\ wk' = [wk EXCEPT ![m].pc = "mark", ![m].out = "failed"]
  /\ UNCHANGED <<row, task, posted, calls, stop, cron, stops, faults, heard, dropped>>

(* terminalUpdate, fenced by the machine alone. *)
Mark(m) ==
  /\ wk[m].pc = "mark"
  /\ IF row.machine = m
     THEN LET st == IF wk[m].out \in {"pr", "answered"} THEN "completed" ELSE "failed" IN
          /\ row' = [row EXCEPT !.st = st, !.stale = FALSE, !.pr = @ \/ wk[m].out = "pr"]
          /\ task' = Rollup(st)
          /\ heard' = IF Resumed(m) /\ wk[m].out # "threw" THEN Later(heard, wk[m].seen) ELSE heard
          /\ dropped' = IF wk[m].out = "threw" THEN posted ELSE dropped
     ELSE UNCHANGED <<row, task, heard, dropped>>
  /\ wk' = [wk EXCEPT ![m].pc = "task"]
  /\ UNCHANGED <<posted, calls, stop, cron, stops, faults>>

(* The error of the update is not looked at. *)
MarkLost(m) ==
  /\ wk[m].pc = "mark" /\ Fault
  /\ wk' = [wk EXCEPT ![m].pc = "task"]
  /\ UNCHANGED <<row, task, posted, calls, stop, cron, stops, heard, dropped>>

(* markTaskFromFix writes the task whoever the row belongs to by now. *)
WriteTask(m) ==
  /\ wk[m].pc = "task"
  /\ task' = IF wk[m].out \in {"pr", "answered"} THEN "completed" ELSE "failed"
  /\ wk' = IF wk[m].out = "threw" THEN [wk EXCEPT ![m] = FreeWorker]
           ELSE [wk EXCEPT ![m].pc = "drain"]
  /\ UNCHANGED <<row, posted, calls, stop, cron, stops, faults, heard, dropped>>

(* Has the user written something that the run has not seen? *)
Newer(m) == posted > wk[m].seen

(* A throw is drained in the inner finally, before the outer catch marks the row. *)
AfterDrain(m) == IF wk[m].out = "threw" THEN [wk EXCEPT ![m].pc = "mark"]
                 ELSE [wk EXCEPT ![m] = FreeWorker]

(* maybeRequeueFollowup. Its two statements are one step: messages only grow
   more, and wake_agent_fix looks at the row itself.                       *)
Drain(m) ==
  /\ wk[m].pc = "drain"
  /\ IF Newer(m) THEN Wake ELSE UNCHANGED <<row, task>>
  /\ wk' = AfterDrain(m)
  /\ UNCHANGED <<posted, calls, stop, cron, stops, faults, heard, dropped>>

(* Of a run that has marked its row and not yet drained it nobody takes over
   the drain: the cron looks at executing rows only.                       *)
Crash(m) ==
  /\ wk[m].pc # "free" /\ Fault
  /\ dropped' = IF wk[m].pc \in {"task", "drain"} /\ row.machine = m /\ row.st \in Ended
                THEN posted ELSE dropped
  /\ wk' = [wk EXCEPT ![m] = FreeWorker]
  /\ UNCHANGED <<row, task, posted, calls, stop, cron, stops, heard>>

(* The row's heartbeat turns five minutes old: nobody is left to ping it ... *)
Alive == \E m \in Machines : wk[m].pc # "free" /\ wk[m].run = row.run
HeartbeatAges ==
  /\ row.st = "executing" /\ ~row.stale /\ ~Alive
  /\ row' = [row EXCEPT !.stale = TRUE]
  /\ UNCHANGED <<task, wk, posted, calls, stop, cron, stops, faults, heard, dropped>>

(* ... or the pings of its worker fail. *)
HeartbeatLost ==
  /\ row.st = "executing" /\ ~row.stale /\ Alive /\ Fault
  /\ row' = [row EXCEPT !.stale = TRUE]
  /\ UNCHANGED <<task, wk, posted, calls, stop, cron, stops, heard, dropped>>

(* sendHeartbeat is by id: a worker whose run is over refreshes the next one's row. *)
Heartbeat(m) ==
  /\ wk[m].pc # "free" /\ row.stale
  /\ row' = [row EXCEPT !.stale = FALSE]
  /\ UNCHANGED <<task, wk, posted, calls, stop, cron, stops, faults, heard, dropped>>

-----------------------------------------------------------------------------
(* The user.                                                               *)

(* sendTaskFollowup: save the message, then wake; two statements of a request. *)
Post ==
  /\ posted < MaxMsgs
  /\ posted' = posted + 1 /\ calls' = calls + 1
  /\ UNCHANGED <<row, task, wk, stop, cron, stops, faults, heard, dropped>>

CallWake ==
  /\ calls > 0
  /\ Wake
  /\ calls' = calls - 1
  /\ UNCHANGED <<wk, posted, stop, cron, stops, faults, heard, dropped>>

(* The backend dies in between, or the call fails. *)
CallLost ==
  /\ calls > 0 /\ Fault
  /\ calls' = calls - 1 /\ dropped' = posted
  /\ UNCHANGED <<row, task, wk, posted, stop, cron, stops, heard>>

(* cancelTask: choose by what the row is ... *)
StopRead ==
  /\ stop = "idle" /\ stops < MaxStops
  /\ row.st \in {"approved", "executing"}
  /\ stop' = IF row.st # "executing" /\ row.prior = "completed" THEN "restore" ELSE "reject"
  /\ stops' = stops + 1
  /\ UNCHANGED <<row, task, wk, posted, calls, cron, faults, heard, dropped>>

(* ... then write if it still is ... *)
StopRestore ==
  /\ stop = "restore"
  /\ IF row.st = "approved" THEN SetStatus("completed") /\ dropped' = posted
     ELSE UNCHANGED <<row, task, dropped>>
  /\ stop' = "idle"
  /\ UNCHANGED <<wk, posted, calls, cron, stops, faults, heard>>

StopReject ==
  /\ stop = "reject"
  /\ IF row.st \in {"approved", "executing"} THEN SetStatus("rejected") /\ dropped' = posted
     ELSE UNCHANGED <<row, task, dropped>>
  /\ stop' = "task"
  /\ UNCHANGED <<wk, posted, calls, cron, stops, faults, heard>>

(* ... and the task in any case. *)
StopTask ==
  /\ stop = "task"
  /\ task' = "cancelled" /\ stop' = "idle"
  /\ UNCHANGED <<row, wk, posted, calls, cron, stops, faults, heard, dropped>>

StopLost ==
  /\ stop # "idle" /\ Fault
  /\ stop' = "idle"
  /\ UNCHANGED <<row, task, wk, posted, calls, cron, stops, heard, dropped>>

-----------------------------------------------------------------------------
(* The recovery request. recover_stuck_fix_jobs finds no row with an attempt
   left among the agents' rows.                                            *)

(* fail_exhausted_fix_jobs *)
(* Mutant: attempts > max_attempts. *)
ExhaustedMore == row.st = "executing" /\ row.stale /\ row.att > 1
Exhausted == row.st = "executing" /\ row.stale /\ row.att >= 1

CronFail ==
  /\ cron.pc = "idle" /\ Exhausted
  /\ SetStatus("failed")
  /\ cron' = [pc |-> "wake", started |-> row.started]
  /\ dropped' = Later(dropped, row.started)
  /\ UNCHANGED <<wk, posted, calls, stop, stops, faults, heard>>

(* Wake it if there is a message newer than its start (one step, as Drain). *)
CronWake ==
  /\ cron.pc = "wake"
  /\ IF posted > cron.started THEN Wake ELSE UNCHANGED <<row, task>>
  /\ cron' = [pc |-> "idle", started |-> 0]
  /\ UNCHANGED <<wk, posted, calls, stop, stops, faults, heard, dropped>>

CronLost ==
  /\ cron.pc # "idle" /\ Fault
  /\ cron' = [pc |-> "idle", started |-> 0]
  /\ dropped' = posted
  /\ UNCHANGED <<row, task, wk, posted, calls, stop, stops, heard>>

-----------------------------------------------------------------------------
Pipeline(m) == \/ SetUp(m) \/ SetUpThrows(m)
               \/ SeeCancel(m) \/ Push(m) \/ Finish(m)
               \/ Mark(m) \/ MarkLost(m) \/ WriteTask(m) \/ Drain(m)

Worker(m) == Claim(m) \/ ClaimLost(m) \/ Pipeline(m) \/ Heartbeat(m) \/ Crash(m)

User == Post \/ CallWake \/ CallLost \/ StopRead \/ StopRestore \/ StopReject \/ StopTask \/ StopLost

Cron == CronFail \/ CronWake \/ CronLost

Next == (\E m \in Machines : Worker(m)) \/ User \/ Cron \/ HeartbeatAges \/ HeartbeatLost

(* A pipeline that is alive goes on, and its wall clock ends the agent's loop
   however often it goes back into it; a queued row gets a machine (the
   requests boot one, the cron does for whatever is left) and a machine
   claims; a request that is not cut off finishes; heartbeats that nobody
   sends grow old and the cron fires every five minutes.                   *)
Fairness ==
  /\ \A m \in Machines : WF_vars(Pipeline(m)) /\ SF_vars(Finish(m) \/ SeeCancel(m))
  /\ WF_vars(\E m \in Machines : Claim(m))
  /\ WF_vars(CallWake) /\ WF_vars(HeartbeatAges)
  /\ WF_vars(CronFail) /\ WF_vars(CronWake)

Spec == Init /\ [][Next]_vars /\ Fairness

-----------------------------------------------------------------------------
WorkerPcs == {"free", "setup", "loop", "mark", "task", "drain"}
Priors == Ended \cup {"none"}

(* The row, the workers, the requests and the counters keep their types; the
   prior status a wake records is that of an ended run, and a row is never
   claimed twice without a wake in between.                                *)
TypeOK ==
  /\ row \in [st : Ended \cup {"approved", "executing"}, machine : Machines \cup {Null},
              att : 0..1, stale : BOOLEAN, run : Nat, prior : Priors,
              approved : Nat, started : Nat, pr : BOOLEAN]
  /\ task \in {"working", "completed", "failed", "cancelled"}
  /\ wk \in [Machines -> [pc : WorkerPcs, run : Nat, prior : Priors, amend : BOOLEAN, seen : Nat,
                          out : {"none", "pr", "answered", "failed", "threw"}]]
  /\ posted \in Nat /\ calls \in Nat /\ heard \in Nat /\ dropped \in Nat
  /\ stop \in {"idle", "restore", "reject", "task"}
  /\ cron \in [pc : {"idle", "wake"}, started : Nat]
  /\ stops \in Nat /\ faults \in Nat

(* A row that reads completed has a pull request on record, through any
   sequence of resumes, restores, stops and crashes: neither an answer nor
   the restoring of an earlier success invents one (finalizeAnswered,
   finalizeFailure, the restore of cancelTask).                            *)
CompletedMeansPr == row.st = "completed" => row.pr

(* A queued or running row is ended by a worker of that very run, a Stop or
   the cron. A worker that was given up, and whose row a wake has handed to a
   later run, may run for as long as it likes and ends like any other, but
   all it can then do to the row is to refresh its heartbeat by id
   (Heartbeat) and, in its drain, to wake it once the later run has ended,
   for a message that run may have heard. terminalUpdate is fenced by the
   machine alone, so this needs that no machine is left on a row when a run
   of it is over and another begins.                                       *)
Marked(m) == wk[m].pc = "mark" /\ wk'[m].pc = "task" /\ row.machine = m

OwnerEnds ==
  [][/\ row.st \in {"approved", "executing"} /\ row'.st \in Ended =>
          \/ \E m \in Machines : Marked(m) /\ wk[m].run = row.run
          \/ stop \in {"restore", "reject"} /\ stop' # stop
          \/ cron.pc = "idle" /\ cron'.pc = "wake"
     /\ \A m \in Machines :
          wk[m].pc # "free" /\ wk[m].run # row.run /\ wk'[m] # wk[m] /\ row' # row =>
          wk[m].pc = "drain" /\ row.st \in Ended /\ row' = Woken]_vars

(* A success is not undone by a follow-up that comes to nothing: an agent that
   ends its resume restores it (finalizeFailure). Three ends do not restore:
   a Stop of a resume that has been claimed, a setup that throws (the outer
   catch of processJob), and the cron (fail_exhausted_fix_jobs).           *)
SuccessStands ==
  [][row.prior = "completed" /\ row.st \in {"approved", "executing"}
       /\ row'.st \in {"failed", "rejected"} =>
       \/ stop = "reject" /\ stop' = "task"
       \/ cron.pc = "idle" /\ cron'.pc = "wake"
       \/ \E m \in Machines : wk[m].out = "threw" /\ wk[m].pc = "mark" /\ wk'[m].pc = "task"]_vars

(* A message is heard: a run that replayed it ends on its own row. But for
   the losses where dropped is set, which are the ones the code has: the
   user stops the run; a setup throws, since its drain comes while the row is
   still executing and the wake does nothing; a machine dies between its mark
   and its drain; the cron gives up a run, for what was posted before its
   start; the cron or the request dies before its wake.                    *)
FollowupHeard ==
  \A n \in 1..MaxMsgs : (posted >= n) ~> (heard >= n \/ dropped >= n)

(* A queued or running row ends, whatever crashes (fail_exhausted_fix_jobs,
   the boots of the cron).                                                 *)
RunSettles == (row.st \in {"approved", "executing"}) ~> (row.st \in Ended)
=============================================================================
