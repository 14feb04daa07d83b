-------------------------------- MODULE Fleet --------------------------------
(***************************************************************************)
(* The autoscaler of the extraction machines (fleet-dispatcher.ts): ticks  *)
(* under a Redis lock that start machines for queued rows, the direct      *)
(* fallback and the stops of the recovery route, the reaper of zombie      *)
(* machines, and the machines that claim and run the rows of ScanQueue.    *)
(*                                                                         *)
(* Time is abstract: a lock, a starting entry, the boot grace or a         *)
(* heartbeat may run out at any moment; running out too early (a tick      *)
(* slower than its lock, a machine slower than its grace), a crash, a hang *)
(* and an answer that fails or is lost are faults, MaxFaults in all.       *)
(* The hourly spend cap is left out: unless it is configured it is off.    *)
(***************************************************************************)
EXTENDS ScanQueue, FiniteSetsExt

CONSTANTS
  Dispatchers,   \* backend instances, one tick each at a time
  Warm,          \* machines that stop and are started again; the others are
                 \* burst machines: created, and destroyed when they exit
  MaxFleet,      \* FLY_MAX_FLEET
  Batch,         \* FLEET_BATCH_PER_TICK
  MaxFaults      \* bound on faults

ASSUME FleetAssumption ==
  /\ Warm \subseteq Machines /\ IsFiniteSet(Machines) /\ IsFiniteSet(Jobs)
  /\ MaxFleet \in Nat \ {0} /\ Batch \in Nat \ {0} /\ MaxFaults \in Nat
  /\ Null \notin Dispatchers /\ IsFiniteSet(Dispatchers) /\ Dispatchers # {}

VARIABLES
  lock,      \* the tick whose token is in fleet:lock
  starting,  \* the sorted set fleet:starting: young, or past its TTL
  fresh,     \* machines within the boot grace of the reaper
  tick,      \* tick[d]: the dispatchFleet call of instance d
  reap,      \* reapZombieMachines, at most one at a time (fleet:reaplock)
  toStop,    \* machines of rows that fail_exhausted_scan_jobs returned
  extra,     \* history: machines made outside the accounting of a tick
  overrun,   \* history: a lock ran out while its tick was at work
  faults     \* how many faults there have been

control == <<lock, tick>>
history == <<extra, overrun>>
vars == <<row, wk, lock, starting, fresh, tick, reap, toStop, extra, overrun, faults>>

NoTick == [pc |-> "idle", running |-> {}, claimable |-> 0, todo |-> 0, pool |-> {},
           made |-> Null, error |-> FALSE]
NoReap == [pc |-> "idle", cand |-> {}, blind |-> 0, late |-> {}]

Live(d) == tick[d].pc \in {"snapshot", "count", "provision", "again", "note", "unlock"}
On      == {m \in Machines : wk[m].pc # "off"}

TypeOK ==
  /\ row \in [Jobs -> RowType] /\ wk \in [Machines -> WorkerType({"boot", "run", "hung"})]
  /\ lock \in Dispatchers \cup {Null}
  /\ starting \in [Machines -> {"no", "young", "old"}]
  /\ fresh \subseteq On /\ toStop \subseteq Machines
  /\ tick \in [Dispatchers ->
       [pc : {"idle", "snapshot", "count", "provision", "again", "note", "unlock",
              "queued?", "processing?", "direct"},
        running : SUBSET Machines, claimable : Nat, todo : 0..Batch, pool : SUBSET Warm,
        made : Machines \cup {Null}, error : BOOLEAN]]
  /\ reap \in [pc : {"idle", "running", "beating", "starting", "stop"},
               cand : SUBSET Machines, blind : 0..2, late : SUBSET Machines]
  /\ extra \subseteq On /\ overrun \in BOOLEAN /\ faults \in 0..MaxFaults

Init ==
  /\ QueueInit
  /\ lock = Null /\ starting = [m \in Machines |-> "no"] /\ fresh = {}
  /\ tick = [d \in Dispatchers |-> NoTick] /\ reap = NoReap /\ toStop = {}
  /\ extra = {} /\ overrun = FALSE /\ faults = 0

-----------------------------------------------------------------------------
Fault   == faults < MaxFaults /\ faults' = faults + 1
NoFault == UNCHANGED faults


At(d, pc)  == tick[d].pc = pc
Step(d, r) == tick' = [tick EXCEPT ![d] = r]

(* The next round of the provision loop, or its end.                        *)
Round(t) == [t EXCEPT !.pc = IF t.todo > 0 THEN "provision" ELSE "unlock"]

TurnOn(m)  == wk' = [wk EXCEPT ![m] = IF @.pc = "off" THEN Resting("boot") ELSE @]
TurnOff(m) == PowerOff(m) /\ fresh' = fresh \ {m} /\ extra' = extra \ {m}

(* Burst machines get a new id each: an id is used again only once nobody   *)
(* remembers it, and a create fails when there is none.                     *)
NewId(m) ==
  /\ m \notin Warm \cup reap.cand \cup toStop /\ m \notin On
  /\ starting[m] = "no"
  /\ \A j \in Jobs : row[j].machine = m => row[j].status \in Terminal /\ row[j].stale
  /\ \A d \in Dispatchers : m # tick[d].made /\ m \notin tick[d].running

-----------------------------------------------------------------------------
(* Requests, and what the machines do on their own.                         *)
Submit(j) ==
  /\ row[j].status = "absent" /\ SlotFree(j)
  /\ InsertRow(j)
  /\ UNCHANGED <<wk, control, starting, fresh, reap, toStop, history, faults>>

Booted(m) ==
  /\ wk[m].pc = "boot"
  /\ Goto(m, "idle")
  /\ UNCHANGED <<row, control, starting, fresh, reap, toStop, history, faults>>

Late(m) == reap' = IF m \in reap.cand THEN [reap EXCEPT !.late = @ \cup {m}] ELSE reap

ClaimJob(m) ==
  /\ Claim(m, "run")
  /\ Late(m)
  /\ UNCHANGED <<control, starting, fresh, toStop, history, faults>>

(* Completed or failed is the same here; the write is guarded by the claim. *)
Finish(m) ==
  /\ wk[m].pc = "run"
  /\ SetStatusOwned(wk[m].job, m, wk[m].run, "completed")
  /\ Release(m)
  /\ UNCHANGED <<control, starting, fresh, reap, toStop, history, faults>>

Exit(m) ==
  /\ IdleExit(m)
  /\ fresh' = fresh \ {m} /\ extra' = extra \ {m}
  /\ UNCHANGED <<control, starting, reap, toStop, overrun, faults>>

Crash(m) ==
  /\ m \in On /\ Fault
  /\ TurnOff(m)
  /\ UNCHANGED <<row, control, starting, reap, toStop, overrun>>

(* The process stands still, before its first claim, between two or in one. *)
Hang(m) ==
  /\ m \in On /\ wk[m].pc # "hung" /\ Fault
  /\ wk' = [wk EXCEPT ![m] = Resting("hung")]
  /\ UNCHANGED <<row, control, starting, fresh, reap, toStop, history>>

Ping(m) ==
  /\ Heartbeat(m)
  /\ row' # row
  /\ Late(m)
  /\ UNCHANGED <<control, starting, fresh, toStop, history, faults>>

-----------------------------------------------------------------------------
(* Clocks.                                                                  *)
Settling(m) == m \in Machines /\ wk[m].pc \in {"boot", "idle"}

Attended(j) ==
  LET m == row[j].machine IN
  Settling(m) \/ (m # Null /\ wk[m].job = j /\ wk[m].run = row[j].run)

(* Five minutes without a heartbeat; a settled row ages too.                *)
Ages(j) ==
  /\ row[j].machine # Null /\ ~row[j].stale
  /\ row' = [row EXCEPT ![j].stale = TRUE]
  /\ IF Attended(j) THEN Fault ELSE NoFault
  /\ UNCHANGED <<wk, control, starting, fresh, reap, toStop, history>>

StartingAges(m) ==
  /\ starting[m] = "young"
  /\ starting' = [starting EXCEPT ![m] = "old"]
  /\ IF Settling(m) THEN Fault ELSE NoFault
  /\ UNCHANGED <<row, wk, control, fresh, reap, toStop, history>>

GraceEnds(m) ==
  /\ m \in fresh
  /\ fresh' = fresh \ {m}
  /\ IF Settling(m) THEN Fault ELSE NoFault
  /\ UNCHANGED <<row, wk, control, starting, reap, toStop, history>>

(* The TTL of the lock; a tick that is still at work goes on without it.    *)
LockExpires ==
  /\ lock # Null
  /\ lock' = Null
  /\ IF Live(lock) THEN Fault /\ overrun' = TRUE ELSE NoFault /\ UNCHANGED overrun
  /\ UNCHANGED <<row, wk, starting, fresh, tick, reap, toStop, extra>>
-----------------------------------------------------------------------------
(* dispatchFleet.  The lock is taken with NX.  Mutant: without NX.          *)
LockFreeAlways(d) == d \in Dispatchers

LockFree(d) == lock = Null

TakeLock(d) ==
  /\ At(d, "idle") /\ LockFree(d)
  /\ lock' = d
  /\ Step(d, [NoTick EXCEPT !.pc = "snapshot"])
  /\ UNCHANGED <<row, wk, starting, fresh, reap, toStop, history, faults>>

(* Redis fails, before or after the SET took effect: nothing is started,    *)
(* and the recovery route falls back.                                       *)
LockError(d) ==
  /\ At(d, "idle") /\ Fault
  /\ lock' \in {lock, IF lock = Null THEN d ELSE lock}
  /\ Step(d, [NoTick EXCEPT !.pc = "queued?"])
  /\ UNCHANGED <<row, wk, starting, fresh, reap, toStop, history>>

RunningIds == {row[j].machine : j \in {k \in Jobs : row[k].status = "processing"}} \ {Null}

(* The claimable rows of all organizations together, one pair for each.     *)
ClaimableOf(o) ==
  Min({Cardinality({j \in Jobs : OrgOf[j] = o /\ row[j].status = "queued"}),
       Max({0, MaxPerOrg - InFlight(o)})})
Backlog ==
  Cardinality({p \in {OrgOf[j] : j \in Jobs} \X (1..Cardinality(Jobs)) :
                 p[2] <= ClaimableOf(p[1])})

Snapshot(d) ==
  /\ At(d, "snapshot")
  /\ \/ /\ Step(d, [tick[d] EXCEPT !.pc = "count", !.running = RunningIds,
                                   !.claimable = Backlog])
        /\ NoFault
     \/ Step(d, [NoTick EXCEPT !.pc = "unlock", !.error = TRUE]) /\ Fault
  /\ UNCHANGED <<row, wk, lock, starting, fresh, reap, toStop, history>>

(* startN: the headroom of the fleet above everything in flight.            *)
(* Mutants: no clamp at zero; only machines with a job are in flight.       *)
TodoUnclamped(d, inflight) ==
  Min({Min({MaxFleet, Cardinality(tick[d].running) + tick[d].claimable}) - inflight, Batch})

TodoIgnoresFly(d, inflight) ==
  Max({0, Min({MaxFleet - Cardinality(tick[d].running), tick[d].claimable, Batch})})

Todo(d, inflight) ==
  LET desired == Min({MaxFleet, Cardinality(tick[d].running) + tick[d].claimable})
  IN  Max({0, Min({desired - inflight, Batch})})

(* Entries past their TTL are removed first.  Mutant: they are not.         *)
PruneNone == starting

Prune == [m \in Machines |-> IF starting[m] = "old" THEN "no" ELSE starting[m]]

(* The pool is what is stopped, not what is stopping still.                 *)
Counted(d, inflight) ==
  \E pool \in SUBSET (Warm \ On) :
    Step(d, Round([tick[d] EXCEPT !.todo = Todo(d, Cardinality(inflight)), !.pool = pool,
                                  !.running = {}, !.claimable = 0]))

Count(d) ==
  /\ At(d, "count")
  /\ starting' = Prune
  /\ Counted(d, tick[d].running \cup On \cup {m \in Machines : starting'[m] # "no"})
  /\ UNCHANGED <<row, wk, lock, fresh, reap, toStop, history, faults>>

(* Redis fails: only running and listed machines count.                     *)
CountNoRedis(d) ==
  /\ At(d, "count") /\ Fault
  /\ starting' \in {starting, Prune}
  /\ Counted(d, tick[d].running \cup On)
  /\ UNCHANGED <<row, wk, lock, fresh, reap, toStop, history>>

(* Fly fails: no pool, and no machine to take the image of a new one from   *)
(* (FLY_DEPSCANNER_IMAGE is unset in normal operation).                     *)
CountNoFly(d) ==
  /\ At(d, "count") /\ Fault
  /\ starting' = Prune
  /\ Step(d, [NoTick EXCEPT !.pc = "unlock"])
  /\ UNCHANGED <<row, wk, lock, fresh, reap, toStop, history>>

(* One round: a stopped machine of the list is started, even if it has been *)
(* on for a while, or a burst machine is created.                           *)
Reuse(d, m) ==
  /\ At(d, "provision") /\ m \in tick[d].pool
  /\ TurnOn(m)
  /\ Step(d, [tick[d] EXCEPT !.pc = "note", !.made = m, !.pool = @ \ {m}, !.todo = @ - 1])
  /\ UNCHANGED <<row, lock, starting, fresh, reap, toStop, history, faults>>

Burst(d, m) ==
  /\ At(d, "provision") \/ At(d, "again")
  /\ tick[d].pool = {} /\ NewId(m)
  /\ TurnOn(m) /\ fresh' = fresh \cup {m}
  /\ Step(d, [tick[d] EXCEPT !.pc = "note", !.made = m, !.todo = @ - 1])
  /\ UNCHANGED <<row, lock, starting, reap, toStop, history, faults>>

(* The answer to a create is lost and the create repeated: two machines.    *)
BurstRepeated(d, m) ==
  /\ At(d, "provision") /\ tick[d].pool = {} /\ NewId(m) /\ Fault
  /\ TurnOn(m) /\ fresh' = fresh \cup {m}
  /\ extra' = extra \cup {m}
  /\ Step(d, [tick[d] EXCEPT !.pc = "again"])
  /\ UNCHANGED <<row, lock, starting, reap, toStop, overrun>>

OutOfIds(d) == tick[d].pool = {} /\ ~\E m \in Machines : NewId(m)

(* The round fails, or seems to; a 429 ends the loop.                       *)
ProvisionFails(d) ==
  /\ At(d, "provision") \/ At(d, "again")
  /\ IF OutOfIds(d) THEN NoFault ELSE Fault
  /\ \E pool \in {tick[d].pool \ {m} : m \in tick[d].pool} \cup {tick[d].pool},
        todo \in {tick[d].todo - 1, 0} :
       Step(d, Round([tick[d] EXCEPT !.pool = pool, !.todo = todo]))
  /\ UNCHANGED <<row, wk, lock, starting, fresh, reap, toStop, history>>

StartedUnseen(d, m) ==
  /\ At(d, "provision") \/ At(d, "again")
  /\ Fault
  /\ \/ m \in tick[d].pool /\ UNCHANGED fresh
     \/ tick[d].pool = {} /\ NewId(m) /\ fresh' = fresh \cup {m}
  /\ TurnOn(m)
  /\ Step(d, Round([tick[d] EXCEPT !.pool = @ \ {m}, !.todo = @ - 1]))
  /\ UNCHANGED <<row, lock, starting, reap, toStop, history>>

Note(d) ==
  /\ At(d, "note")
  /\ \/ starting' = [starting EXCEPT ![tick[d].made] = "young"] /\ NoFault
     \/ UNCHANGED starting /\ Fault
  /\ Step(d, Round([tick[d] EXCEPT !.made = Null]))
  /\ UNCHANGED <<row, wk, lock, fresh, reap, toStop, history>>

(* The lock is deleted if it still holds the token of this tick.            *)
Unlock(d) ==
  /\ At(d, "unlock")
  /\ \/ lock' = (IF lock = d THEN Null ELSE lock) /\ NoFault
     \/ UNCHANGED lock /\ Fault
  /\ Step(d, [NoTick EXCEPT !.pc = IF tick[d].error THEN "queued?" ELSE "idle"])
  /\ UNCHANGED <<row, wk, starting, fresh, reap, toStop, history>>

BackendDies(d) ==
  /\ ~At(d, "idle") /\ Fault
  /\ Step(d, NoTick)
  /\ UNCHANGED <<row, wk, lock, starting, fresh, reap, toStop, history>>

-----------------------------------------------------------------------------
(* directProvisionFallback, after a tick of the recovery route that failed  *)
(* (a tick of anybody else ends here): work queued, nothing processing.     *)
Some(s) == \E j \in Jobs : row[j].status = s

AnyQueued(d) ==
  /\ At(d, "queued?")
  /\ \E pc \in {IF Some("queued") THEN "processing?" ELSE "idle", "idle"} :
       Step(d, [NoTick EXCEPT !.pc = pc])
  /\ UNCHANGED <<row, wk, lock, starting, fresh, reap, toStop, history, faults>>

NoneProcessing(d) ==
  /\ At(d, "processing?")
  /\ Step(d, [NoTick EXCEPT !.pc = IF Some("processing") THEN "idle" ELSE "direct"])
  /\ UNCHANGED <<row, wk, lock, starting, fresh, reap, toStop, history, faults>>

Direct(d, m) ==
  /\ At(d, "direct") /\ NewId(m)
  /\ TurnOn(m) /\ fresh' = fresh \cup {m}
  /\ extra' = extra \cup {m}
  /\ Step(d, NoTick)
  /\ UNCHANGED <<row, lock, starting, reap, toStop, overrun, faults>>

DirectFails(d) ==
  /\ At(d, "direct")
  /\ Step(d, NoTick)
  /\ UNCHANGED <<row, wk, lock, starting, fresh, reap, toStop, history, faults>>

-----------------------------------------------------------------------------
(* The rest of the recovery route.  fail_exhausted_scan_jobs returns whole  *)
(* rows, and the machine of each is stopped.                                *)
Recover ==
  /\ Recoverable # {}
  /\ RecoverStuck
  /\ UNCHANGED <<wk, control, starting, fresh, reap, toStop, history, faults>>

Fail ==
  /\ Exhausted # {}
  /\ FailExhausted
  /\ toStop' = toStop \cup {row[j].machine : j \in Exhausted}
  /\ UNCHANGED <<wk, control, starting, fresh, reap, history, faults>>

StopFailed(m) ==
  /\ m \in toStop
  /\ toStop' = toStop \ {m}
  /\ \/ TurnOff(m) /\ NoFault
     \/ UNCHANGED <<wk, fresh, extra>> /\ Fault
  /\ UNCHANGED <<row, control, starting, reap, overrun>>

-----------------------------------------------------------------------------
(* reapZombieMachines: list the started machines, then take away those that *)
(* are running, heartbeating and starting; a read that fails takes nothing  *)
(* away.                                                                    *)
ReapGoto(pc, cand) == [reap EXCEPT !.pc = pc, !.cand = cand, !.late = @ \cap cand]

ReapList ==
  /\ reap.pc = "idle"
  /\ \E booting \in SUBSET {m \in On : wk[m].pc = "boot"} :
       LET cand == {m \in On : wk[m].pc # "boot"} \cup booting
       IN  cand # {} /\ reap' = [NoReap EXCEPT !.pc = "running", !.cand = cand]
  /\ UNCHANGED <<row, wk, control, starting, fresh, toStop, history, faults>>

ReapRead(pc, next, ids) ==
  /\ reap.pc = pc
  /\ \/ reap' = [ReapGoto(next, reap.cand \ ids) EXCEPT !.late = {}] /\ NoFault
     \/ reap' = [ReapGoto(next, reap.cand) EXCEPT !.blind = @ + 1] /\ Fault
  /\ UNCHANGED <<row, wk, control, starting, fresh, toStop, history>>

(* Mutant: the comparison the wrong way round.                              *)
SilentIds == {row[j].machine : j \in {k \in Jobs : row[k].stale}}

BeatingIds == {row[j].machine : j \in {k \in Jobs : ~row[k].stale}}

ReapRunning == ReapRead("running", "beating", RunningIds)
ReapBeating == ReapRead("beating", "starting", BeatingIds)

ReapStarting ==
  /\ reap.pc = "starting"
  /\ \/ reap' = ReapGoto("stop", {m \in reap.cand : starting[m] = "no"}) /\ NoFault
     \/ reap' = ReapGoto("stop", reap.cand) /\ Fault
  /\ UNCHANGED <<row, wk, control, starting, fresh, toStop, history>>

(* Machines within the boot grace are passed over; a stop may fail.         *)
ReapNext(m) == IF reap.cand = {m} THEN NoReap ELSE ReapGoto("stop", reap.cand \ {m})

ReapStop(m) ==
  /\ reap.pc = "stop" /\ m \in reap.cand
  /\ reap' = ReapNext(m)
  /\ \/ m \notin fresh /\ TurnOff(m) /\ NoFault
     \/ m \in fresh /\ UNCHANGED <<wk, fresh, extra>> /\ NoFault
     \/ UNCHANGED <<wk, fresh, extra>> /\ Fault
  /\ UNCHANGED <<row, control, starting, toStop, overrun>>

(* Nothing is left to stop, or the instance dies.                           *)
ReapEnds ==
  /\ reap.pc # "idle"
  /\ \/ reap.pc = "stop" /\ reap.cand = {} /\ NoFault
     \/ Fault
  /\ reap' = NoReap
  /\ UNCHANGED <<row, wk, control, starting, fresh, toStop, history>>

-----------------------------------------------------------------------------
TickStep(d) ==
  \/ TakeLock(d) \/ Snapshot(d) \/ Count(d)
  \/ \E m \in Machines : Reuse(d, m) \/ Burst(d, m) \/ Direct(d, m)
  \/ ProvisionFails(d) \/ DirectFails(d) \/ Note(d) \/ Unlock(d)
  \/ AnyQueued(d) \/ NoneProcessing(d)

TickFault(d) ==
  \/ LockError(d) \/ CountNoRedis(d) \/ CountNoFly(d)
  \/ \E m \in Machines : BurstRepeated(d, m) \/ StartedUnseen(d, m)
  \/ BackendDies(d)

MachineStep(m) == Booted(m) \/ ClaimJob(m) \/ Finish(m) \/ Exit(m)

ReapStep ==
  \/ ReapList \/ ReapRunning \/ ReapBeating \/ ReapStarting \/ ReapEnds
  \/ \E m \in Machines : ReapStop(m)

RecoveryStep == Recover \/ Fail \/ \E m \in Machines : StopFailed(m)

Next ==
  \/ \E d \in Dispatchers : TickStep(d) \/ TickFault(d)
  \/ \E m \in Machines :
       \/ MachineStep(m) \/ Crash(m) \/ Hang(m) \/ Ping(m)
       \/ StartingAges(m) \/ GraceEnds(m)
  \/ \E j \in Jobs : Submit(j) \/ Ages(j)
  \/ LockExpires \/ ReapStep \/ RecoveryStep

Spec == Init /\ [][Next]_vars

(* The crons come every minute, machines run, what is to run out does, and  *)
(* a started machine does not lose the race with the reaper each time.      *)
(* Nothing is assumed of users, and faults are finitely many.               *)
Fairness ==
  /\ \A d \in Dispatchers : WF_vars(TickStep(d))
  /\ \A m \in Machines :
       /\ WF_vars(MachineStep(m)) /\ WF_vars(StartingAges(m)) /\ WF_vars(GraceEnds(m))
  /\ SF_vars(\E m \in Machines : Booted(m)) /\ SF_vars(\E m \in Machines : ClaimJob(m))
  /\ \A j \in Jobs : WF_vars(Ages(j))
  /\ WF_vars(LockExpires) /\ WF_vars(ReapStep) /\ WF_vars(RecoveryStep)

FairSpec == Spec /\ Fairness

-----------------------------------------------------------------------------
(* Properties.                                                              *)

(* Holds its claim and can prove it: running, owner of the row, heartbeat   *)
(* within five minutes.                                                     *)
Working(m) ==
  /\ Busy(m)
  /\ LET r == row[wk[m].job]
     IN  r.status = "processing" /\ OwnedBy(wk[m].job, m, wk[m].run) /\ ~r.stale

(* FLY_MAX_FLEET is kept across instances, whatever fails, but for the      *)
(* machines of the fallback and of repeated creates, as long as no lock     *)
(* runs out under a tick.                                                   *)
FleetCapped == ~overrun => Cardinality(On \ extra) <= MaxFleet

(* After that, each other instance adds one batch at most.                  *)
OverrunBounded ==
  Cardinality(On \ extra) <= MaxFleet + (Cardinality(Dispatchers) - 1) * Batch

(* The reaper stops a working machine only if it claimed, or was cut off    *)
(* and came back, after the last read that could have shown it, or both     *)
(* reads of scan_jobs failed: one of them covers for the other.             *)
ReaperSpares ==
  [][\A m \in reap.cand \ reap'.cand :
       Working(m) /\ wk'[m].pc = "off" => m \in reap.late \/ reap.blind = 2]_vars

(* A queued row gets a machine in the end: dead starting entries, hung      *)
(* machines, lost locks and full fleets all give way.                       *)
QueuedRuns == \A j \in Jobs : row[j].status = "queued" ~> row[j].status # "queued"
=============================================================================
