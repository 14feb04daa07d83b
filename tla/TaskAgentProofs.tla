--------------------------- MODULE TaskAgentProofs ---------------------------
(***************************************************************************)
(* One row, many runs: for any number of machines, follow-ups, stops and   *)
(* faults.                                                                 *)
(***************************************************************************)
EXTENDS TaskAgent, TLAPS

RowType == [st : Ended \cup {"approved", "executing"}, machine : Machines \cup {Null},
            att : 0..1, stale : BOOLEAN, run : Nat, prior : Priors,
            approved : Nat, started : Nat, pr : BOOLEAN]
WorkerType == [pc : WorkerPcs, run : Nat, prior : Priors, amend : BOOLEAN, seen : Nat,
               out : {"none", "pr", "answered", "failed", "threw"}]
CronType == [pc : {"idle", "wake"}, started : Nat]

RowTyped == row \in RowType /\ task \in {"working", "completed", "failed", "cancelled"}
WorkersTyped == wk \in [Machines -> WorkerType]
CountersTyped ==
  /\ posted \in Nat /\ calls \in Nat /\ heard \in Nat /\ dropped \in Nat
  /\ stop \in {"idle", "restore", "reject", "task"}
  /\ cron \in CronType
  /\ stops \in Nat /\ faults \in Nat

(* A queued row belongs to no machine, and what calls itself a success has  *)
(* its pull request.                                                        *)
RowOK ==
  /\ row.st = "approved" => row.machine = Null
  /\ row.st = "completed" \/ row.prior = "completed" \/ stop = "restore" => row.pr

(* A worker named by the row is on the row's run: this is what makes the    *)
(* fence by machine a fence by run.                                         *)
Owns(m) ==
  wk[m].pc # "free" /\ row.machine = m => wk[m].run = row.run /\ wk[m].prior = row.prior

(* A worker takes an end for a success, or for a failure, with reason.      *)
Reasoned(m) ==
  /\ wk[m].amend \/ wk[m].prior = "completed" => row.pr
  /\ wk[m].pc = "mark" /\ wk[m].out = "answered" => row.pr
  /\ wk[m].pc = "mark" => wk[m].out # "none"
  /\ wk[m].pc = "mark" /\ wk[m].out = "failed" => wk[m].prior # "completed"

WorkersOK == \A m \in Machines : Owns(m) /\ Reasoned(m)

IInv == RowTyped /\ WorkersTyped /\ CountersTyped /\ RowOK /\ WorkersOK

LEMMA TypeParts == TypeOK <=> RowTyped /\ WorkersTyped /\ CountersTyped
BY DEF TypeOK, RowTyped, WorkersTyped, CountersTyped, RowType, WorkerType, CronType

-----------------------------------------------------------------------------
(* The writes of the row that several actions share.                        *)

(* The trigger keeps the types of the task.                                 *)
LEMMA RollupType ==
  ASSUME RowTyped, NEW st
  PROVE  Rollup(st) \in {"working", "completed", "failed", "cancelled"}
BY DEF RowTyped, Rollup

(* A wake, on a row that has ended or not.                                  *)
LEMMA WakeKeeps ==
  ASSUME RowTyped, CountersTyped, RowOK, Wake, UNCHANGED stop
  PROVE  /\ RowTyped' /\ RowOK'
         /\ row' = row \/ row'.machine = Null
         /\ row'.pr = row.pr
<1>1. CASE row.st \in Ended
  <2>1. row' = Woken /\ task' = "working"
    BY <1>1 DEF Wake
  <2>2. row.st \in Priors
    BY <1>1 DEF Priors
  <2>3. /\ row.run + 1 \in Nat /\ posted \in Nat /\ 0 \in 0..1
        /\ row = [st |-> row.st, machine |-> row.machine, att |-> row.att, stale |-> row.stale,
                  run |-> row.run, prior |-> row.prior, approved |-> row.approved,
                  started |-> row.started, pr |-> row.pr]
        /\ row.stale \in BOOLEAN /\ row.pr \in BOOLEAN
    BY DEF RowTyped, RowType, CountersTyped
  <2>5. row' = [st |-> "approved", machine |-> Null, att |-> 0, stale |-> row.stale,
                run |-> row.run + 1, prior |-> row.st, approved |-> posted,
                started |-> 0, pr |-> row.pr]
    BY <2>1, <2>3 DEF Woken
  <2>6. row' \in RowType
    BY <2>2, <2>3, <2>5 DEF RowType
  <2>4. /\ row'.st = "approved" /\ row'.machine = Null /\ row'.pr = row.pr
        /\ row'.prior = row.st
    BY <2>5
  <2> QED BY <2>1, <2>6, <2>4 DEF RowTyped, RowOK
<1>2. CASE row.st \notin Ended
  BY <1>2 DEF Wake, RowTyped, RowOK
<1> QED BY <1>1, <1>2

(* A claim gives the row to its machine.                                    *)
LEMMA GrantKeeps ==
  ASSUME RowTyped, CountersTyped, RowOK, UNCHANGED stop,
         NEW m \in Machines, row.att < 1,
         row' = Grant(m), task' = Rollup("executing")
  PROVE  /\ RowTyped' /\ RowOK'
         /\ row'.machine = m /\ row'.run = row.run /\ row'.prior = row.prior
         /\ row'.pr = row.pr
<1>0. row.att + 1 \in 0..1
  BY DEF RowTyped, RowType
<1>1. row' \in RowType
  BY <1>0 DEF RowTyped, RowType, CountersTyped, Grant
<1>2. /\ row'.st = "executing" /\ row'.machine = m /\ row'.pr = row.pr
      /\ row'.run = row.run /\ row'.prior = row.prior
  BY DEF RowTyped, RowType, Grant
<1>3. task' \in {"working", "completed", "failed", "cancelled"}
  BY RollupType
<1> QED BY <1>1, <1>2, <1>3 DEF RowTyped, RowOK

(* A write of the status leaves the machine and the run alone.              *)
LEMMA SetStatusKeeps ==
  ASSUME RowTyped, RowOK, NEW st \in Ended, SetStatus(st),
         st = "completed" => row.pr, stop' # "restore" \/ stop' = stop
  PROVE  /\ RowTyped' /\ RowOK'
         /\ row'.machine = row.machine /\ row'.run = row.run
         /\ row'.prior = row.prior /\ row'.pr = row.pr
<1>1. row' = [row EXCEPT !.st = st, !.stale = FALSE] /\ task' = Rollup(st)
  BY DEF SetStatus
<1>2. row' \in RowType
  BY <1>1 DEF RowTyped, RowType
<1>3. /\ row'.st = st /\ row'.machine = row.machine /\ row'.run = row.run
      /\ row'.prior = row.prior /\ row'.pr = row.pr
  BY <1>1 DEF RowTyped, RowType
<1>4. task' \in {"working", "completed", "failed", "cancelled"}
  BY <1>1, RollupType
<1> QED BY <1>2, <1>3, <1>4 DEF RowTyped, RowOK, Ended

(* Whatever the row does, workers that stand still stay in order as long as *)
(* the row is not given to one of them and keeps its pull request.          *)
LEMMA WorkersStay ==
  ASSUME WorkersTyped, WorkersOK, UNCHANGED wk, row.pr => row'.pr,
         \/ row'.machine = Null
         \/ row'.machine = row.machine /\ row'.run = row.run /\ row'.prior = row.prior
  PROVE  WorkersTyped' /\ WorkersOK'
BY TaskAssumption DEF WorkersTyped, WorkersOK, Owns, Reasoned

(* A step of one worker: the others stay in order.                          *)
LEMMA OneMoves ==
  ASSUME WorkersTyped, WorkersOK, NEW m \in Machines, NEW w \in WorkerType,
         wk' = [wk EXCEPT ![m] = w], row.pr => row'.pr,
         \/ row'.machine \in {m, Null}
         \/ row'.machine = row.machine /\ row'.run = row.run /\ row'.prior = row.prior,
         Owns(m)', Reasoned(m)'
  PROVE  WorkersTyped' /\ WorkersOK'
<1>1. WorkersTyped'
  BY DEF WorkersTyped
<1>2. ASSUME NEW n \in Machines PROVE Owns(n)' /\ Reasoned(n)'
  <2>1. CASE n = m
    BY <2>1
  <2>2. CASE n # m
    <3>1. wk'[n] = wk[n]
      BY <2>2 DEF WorkersTyped
    <3>2. Owns(n) /\ Reasoned(n)
      BY DEF WorkersOK
    <3> QED BY <2>2, <3>1, <3>2, TaskAssumption DEF Owns, Reasoned
  <2> QED BY <2>1, <2>2
<1> QED BY <1>1, <1>2 DEF WorkersOK

LEMMA FreeWorkerType == FreeWorker \in WorkerType
BY DEF FreeWorker, WorkerType, WorkerPcs, Priors

-----------------------------------------------------------------------------
(* The inductive invariant.                                                 *)

LEMMA InitIInv == Init => IInv
<1> SUFFICES ASSUME Init PROVE IInv
  OBVIOUS
<1>1. RowTyped
  BY DEF Init, RowTyped, RowType, Priors
<1>2. WorkersTyped
  BY FreeWorkerType DEF Init, WorkersTyped
<1>3. CountersTyped
  BY DEF Init, CountersTyped, CronType
<1>4. RowOK
  BY DEF Init, RowOK
<1>5. WorkersOK
  BY DEF Init, WorkersOK, Owns, Reasoned, FreeWorker
<1> QED BY <1>1, <1>2, <1>3, <1>4, <1>5 DEF IInv

(* Steps of a worker.                                                       *)
LEMMA ClaimStep ==
  ASSUME IInv, NEW m \in Machines, Claim(m)
  PROVE  IInv'
<1> DEFINE w == [FreeWorker EXCEPT !.pc = "setup", !.run = row.run, !.prior = row.prior,
                                   !.seen = SeenAtClaim]
<1>1. /\ row.att < 1 /\ row' = Grant(m) /\ task' = Rollup("executing")
      /\ wk' = [wk EXCEPT ![m] = w]
      /\ UNCHANGED <<posted, calls, stop, cron, stops, faults, heard, dropped>>
  BY DEF Claim
<1>2. /\ RowTyped' /\ RowOK' /\ row'.machine = m /\ row'.run = row.run
      /\ row'.prior = row.prior /\ row'.pr = row.pr
  BY <1>1, GrantKeeps DEF IInv
<1>3. w = [pc |-> "setup", run |-> row.run, prior |-> row.prior, amend |-> FALSE,
          seen |-> row.approved, out |-> "none"]
  <2>1. ASSUME NEW r, r = w
        PROVE  r = [pc |-> "setup", run |-> row.run, prior |-> row.prior, amend |-> FALSE,
                    seen |-> row.approved, out |-> "none"]
    BY <2>1 DEF FreeWorker, SeenAtClaim
  <2> QED BY <2>1
<1> HIDE DEF w
<1>4. w \in WorkerType
  <2>1. row.run \in Nat /\ row.prior \in Priors /\ row.approved \in Nat
    BY DEF IInv, RowTyped, RowType
  <2> QED BY <1>3, <2>1 DEF WorkerType, WorkerPcs
<1>5. wk'[m] = w
  BY <1>1 DEF IInv, WorkersTyped
<1>6. Owns(m)' /\ Reasoned(m)'
  BY <1>2, <1>3, <1>5 DEF Owns, Reasoned, IInv, RowOK
<1>7. WorkersTyped' /\ WorkersOK'
  BY <1>1, <1>2, <1>4, <1>6, OneMoves DEF IInv
<1> QED BY <1>1, <1>2, <1>7 DEF IInv, CountersTyped

LEMMA ClaimLostStep ==
  ASSUME IInv, NEW m \in Machines, ClaimLost(m)
  PROVE  IInv'
<1>1. /\ wk[m].pc = "free" /\ row.att < 1 /\ row' = Grant(m) /\ task' = Rollup("executing")
      /\ wk' = wk /\ faults' = faults + 1
      /\ UNCHANGED <<posted, calls, stop, cron, stops, heard, dropped>>
  BY DEF ClaimLost, Fault
<1>2. /\ RowTyped' /\ RowOK' /\ row'.machine = m /\ row'.pr = row.pr
  BY <1>1, GrantKeeps DEF IInv
<1>3. wk[m] \in WorkerType /\ wk' = [wk EXCEPT ![m] = wk[m]]
  BY <1>1 DEF IInv, WorkersTyped
<1>4. Owns(m)' /\ Reasoned(m)'
  BY <1>1, <1>2 DEF Owns, Reasoned, IInv, WorkersOK
<1>5. WorkersTyped' /\ WorkersOK'
  BY <1>2, <1>3, <1>4, OneMoves DEF IInv
<1> QED BY <1>1, <1>2, <1>5 DEF IInv, CountersTyped

(* A step of a worker that leaves the row alone.                            *)
LEMMA OwnStep ==
  ASSUME IInv, NEW m \in Machines, NEW w \in WorkerType,
         wk' = [wk EXCEPT ![m] = w],
         w.pc # "free" => wk[m].pc # "free" /\ w.run = wk[m].run /\ w.prior = wk[m].prior,
         w.amend \/ w.prior = "completed" => row.pr,
         w.pc = "mark" => /\ w.out # "none"
                          /\ w.out = "answered" => row.pr
                          /\ w.out = "failed" => w.prior # "completed",
         UNCHANGED <<row, stop>>, RowTyped', CountersTyped'
  PROVE  IInv'
<1>1. wk'[m] = w
  BY DEF IInv, WorkersTyped
<1>2. Owns(m)
  BY DEF IInv, WorkersOK
<1>3. Owns(m)' /\ Reasoned(m)'
  BY <1>1, <1>2 DEF Owns, Reasoned
<1>4. WorkersTyped' /\ WorkersOK'
  BY <1>3, OneMoves DEF IInv
<1> QED BY <1>4 DEF IInv, RowOK

LEMMA SetUpStep ==
  ASSUME IInv, NEW m \in Machines, SetUp(m)
  PROVE  IInv'
<1>1. PICK open \in BOOLEAN :
        wk' = [wk EXCEPT ![m].pc = "loop", ![m].amend = Resumed(m) /\ row.pr /\ open,
                         ![m].seen = IF Resumed(m) THEN posted ELSE @]
  BY DEF SetUp
<1> DEFINE w == [wk[m] EXCEPT !.pc = "loop", !.amend = Resumed(m) /\ row.pr /\ open,
                              !.seen = IF Resumed(m) THEN posted ELSE @]
<1>2. wk[m] \in WorkerType /\ wk[m].pc = "setup"
  BY DEF IInv, WorkersTyped, SetUp
<1>3. wk' = [wk EXCEPT ![m] = w]
  BY <1>1 DEF IInv, WorkersTyped
<1>4. (IF Resumed(m) THEN posted ELSE wk[m].seen) \in Nat
  BY <1>2 DEF IInv, CountersTyped, WorkerType
<1>5. w \in WorkerType
  BY <1>2, <1>4 DEF WorkerType, WorkerPcs
<1>6. /\ w.pc = "loop" /\ w.run = wk[m].run /\ w.prior = wk[m].prior
      /\ w.amend => row.pr
  BY <1>2 DEF WorkerType
<1>7. wk[m].prior = "completed" => row.pr
  BY DEF IInv, WorkersOK, Reasoned
<1>8. UNCHANGED <<row, task, posted, calls, stop, cron, stops, faults, heard, dropped>>
  BY DEF SetUp
<1> HIDE DEF w
<1>9. RowTyped' /\ CountersTyped'
  BY <1>8 DEF IInv, RowTyped, CountersTyped
<1> QED BY <1>2, <1>3, <1>5, <1>6, <1>7, <1>8, <1>9, OwnStep

(* A worker goes on to pc with the end out.                                 *)
LEMMA OnStep ==
  ASSUME IInv, NEW m \in Machines, NEW pc \in WorkerPcs \ {"free"},
         NEW out \in {"none", "pr", "answered", "failed", "threw"},
         wk[m].pc # "free",
         wk' = [wk EXCEPT ![m].pc = pc, ![m].out = out],
         pc = "mark" => /\ out # "none"
                        /\ out = "answered" => row.pr
                        /\ out = "failed" => wk[m].prior # "completed",
         UNCHANGED <<row, stop>>, RowTyped', CountersTyped'
  PROVE  IInv'
<1> DEFINE w == [wk[m] EXCEPT !.pc = pc, !.out = out]
<1>1. wk[m] \in WorkerType
  BY DEF IInv, WorkersTyped
<1>2. wk' = [wk EXCEPT ![m] = w]
  BY DEF IInv, WorkersTyped
<1>3. w \in WorkerType
  BY <1>1 DEF WorkerType
<1>4. /\ w.pc = pc /\ w.out = out /\ w.run = wk[m].run /\ w.prior = wk[m].prior
      /\ w.amend = wk[m].amend
  BY <1>1 DEF WorkerType
<1>5. wk[m].amend \/ wk[m].prior = "completed" => row.pr
  BY DEF IInv, WorkersOK, Reasoned
<1> HIDE DEF w
<1> QED BY <1>2, <1>3, <1>4, <1>5, OwnStep

(* A worker gives up, and the row stays.                                    *)
LEMMA FreeStep ==
  ASSUME IInv, NEW m \in Machines, wk' = [wk EXCEPT ![m] = FreeWorker],
         UNCHANGED <<row, stop>>, RowTyped', CountersTyped'
  PROVE  IInv'
<1>1. FreeWorker.pc = "free" /\ FreeWorker.amend = FALSE /\ FreeWorker.prior = "none"
  BY DEF FreeWorker
<1> QED BY <1>1, FreeWorkerType, OwnStep

LEMMA MarkStep ==
  ASSUME IInv, NEW m \in Machines, Mark(m)
  PROVE  IInv'
<1> DEFINE w == [wk[m] EXCEPT !.pc = "task"]
<1>1. /\ wk[m] \in WorkerType /\ wk[m].pc = "mark"
      /\ UNCHANGED <<posted, calls, stop, cron, stops, faults>>
  BY DEF IInv, WorkersTyped, Mark
<1>2. wk' = [wk EXCEPT ![m] = w]
  BY DEF IInv, WorkersTyped, Mark
<1>3. w \in WorkerType
  BY <1>1 DEF WorkerType, WorkerPcs
<1>4. w.pc = "task" /\ w.run = wk[m].run /\ w.prior = wk[m].prior /\ w.amend = wk[m].amend
  BY <1>1 DEF WorkerType
<1> HIDE DEF w
<1>5. Owns(m) /\ Reasoned(m)
  BY DEF IInv, WorkersOK
<1>6. /\ RowTyped' /\ RowOK' /\ CountersTyped' /\ (row.pr => row'.pr)
      /\ row'.machine = row.machine /\ row'.run = row.run /\ row'.prior = row.prior
  <2>1. CASE row.machine = m
    <3> DEFINE st == IF wk[m].out \in {"pr", "answered"} THEN "completed" ELSE "failed"
    <3>1. /\ row' = [row EXCEPT !.st = st, !.stale = FALSE, !.pr = @ \/ wk[m].out = "pr"]
          /\ task' = Rollup(st)
          /\ heard' = IF Resumed(m) /\ wk[m].out # "threw" THEN Later(heard, wk[m].seen) ELSE heard
          /\ dropped' = IF wk[m].out = "threw" THEN posted ELSE dropped
      BY <2>1 DEF Mark
    <3>2. st \in Ended /\ (st = "completed" => wk[m].out \in {"pr", "answered"})
      BY DEF Ended
    <3> HIDE DEF st
    <3>3. row' \in RowType
      BY <3>1, <3>2 DEF IInv, RowTyped, RowType
    <3>4. /\ row'.st = st /\ row'.machine = row.machine /\ row'.run = row.run
          /\ row'.prior = row.prior /\ row'.pr = (row.pr \/ wk[m].out = "pr")
      BY <3>1 DEF IInv, RowTyped, RowType
    <3>5. task' \in {"working", "completed", "failed", "cancelled"}
      BY <3>1, RollupType DEF IInv
    <3>6. st = "completed" => row'.pr
      BY <1>1, <1>5, <3>2, <3>4 DEF Reasoned
    <3>7. RowOK'
      BY <1>1, <3>2, <3>4, <3>6 DEF RowOK, IInv, Ended
    <3>8. heard' \in Nat /\ dropped' \in Nat
      BY <1>1, <3>1 DEF IInv, CountersTyped, WorkerType, Later
    <3> QED BY <1>1, <3>3, <3>4, <3>5, <3>7, <3>8 DEF IInv, CountersTyped, RowTyped
  <2>2. CASE row.machine # m
    <3>1. UNCHANGED <<row, task, heard, dropped>>
      BY <2>2 DEF Mark
    <3> QED BY <1>1, <3>1 DEF IInv, RowTyped, RowOK, CountersTyped
  <2> QED BY <2>1, <2>2
<1>7. wk'[m] = w
  BY <1>2 DEF IInv, WorkersTyped
<1>8. Owns(m)' /\ Reasoned(m)'
  BY <1>1, <1>4, <1>5, <1>6, <1>7 DEF Owns, Reasoned
<1>9. WorkersTyped' /\ WorkersOK'
  BY <1>2, <1>3, <1>6, <1>8, OneMoves DEF IInv
<1> QED BY <1>6, <1>9 DEF IInv

LEMMA WriteTaskStep ==
  ASSUME IInv, NEW m \in Machines, WriteTask(m)
  PROVE  IInv'
<1>1. /\ wk[m].pc = "task" /\ UNCHANGED <<row, stop>> /\ RowTyped' /\ CountersTyped'
  BY DEF WriteTask, IInv, RowTyped, CountersTyped
<1>2. CASE wk[m].out = "threw"
  BY <1>1, <1>2, FreeStep DEF WriteTask
<1>3. CASE wk[m].out # "threw"
  <2>1. wk[m] \in WorkerType
    BY DEF IInv, WorkersTyped
  <2>2. wk' = [wk EXCEPT ![m].pc = "drain", ![m].out = wk[m].out]
    BY <1>3, <2>1 DEF WriteTask, IInv, WorkersTyped, WorkerType
  <2> QED BY <1>1, <2>1, <2>2, OnStep DEF WorkerType, WorkerPcs
<1> QED BY <1>2, <1>3

LEMMA DrainStep ==
  ASSUME IInv, NEW m \in Machines, Drain(m)
  PROVE  IInv'
<1>1. /\ wk[m] \in WorkerType /\ wk[m].pc = "drain" /\ wk' = AfterDrain(m)
      /\ UNCHANGED <<posted, calls, stop, cron, stops, faults, heard, dropped>>
  BY DEF IInv, WorkersTyped, Drain
<1>2. /\ RowTyped' /\ RowOK' /\ row'.pr = row.pr
      /\ row' = row \/ row'.machine = Null
  <2>1. CASE Newer(m)
    BY <1>1, <2>1, WakeKeeps DEF Drain, IInv
  <2>2. CASE ~Newer(m)
    BY <1>1, <2>2 DEF Drain, IInv, RowTyped, RowOK
  <2> QED BY <2>1, <2>2
<1>3. Owns(m) /\ Reasoned(m)
  BY DEF IInv, WorkersOK
<1>4. CASE wk[m].out = "threw"
  <2> DEFINE w == [wk[m] EXCEPT !.pc = "mark"]
  <2>1. wk' = [wk EXCEPT ![m] = w]
    BY <1>1, <1>4 DEF IInv, WorkersTyped, AfterDrain
  <2>2. w \in WorkerType
    BY <1>1 DEF WorkerType, WorkerPcs
  <2>3. /\ w.pc = "mark" /\ w.out = "threw" /\ w.run = wk[m].run /\ w.prior = wk[m].prior
        /\ w.amend = wk[m].amend
    BY <1>1, <1>4 DEF WorkerType
  <2> HIDE DEF w
  <2>4. wk'[m] = w
    BY <2>1 DEF IInv, WorkersTyped
  <2>5. Owns(m)' /\ Reasoned(m)'
    BY <1>1, <1>2, <1>3, <2>3, <2>4, TaskAssumption DEF Owns, Reasoned
  <2>6. WorkersTyped' /\ WorkersOK'
    BY <1>2, <2>1, <2>2, <2>5, OneMoves DEF IInv
  <2> QED BY <1>1, <1>2, <2>6 DEF IInv, CountersTyped
<1>5. CASE wk[m].out # "threw"
  <2>1. wk' = [wk EXCEPT ![m] = FreeWorker] /\ wk'[m] = FreeWorker
    BY <1>1, <1>5 DEF IInv, WorkersTyped, AfterDrain
  <2>2. Owns(m)' /\ Reasoned(m)'
    BY <2>1 DEF Owns, Reasoned, FreeWorker
  <2>3. WorkersTyped' /\ WorkersOK'
    BY <1>2, <2>1, <2>2, FreeWorkerType, OneMoves DEF IInv
  <2> QED BY <1>1, <1>2, <2>3 DEF IInv, CountersTyped
<1> QED BY <1>4, <1>5

LEMMA PipelineStep ==
  ASSUME IInv, NEW m \in Machines, Pipeline(m)
  PROVE  IInv'
<1>1. CASE SetUp(m)
  BY <1>1, SetUpStep
<1>2. CASE SetUpThrows(m)
  <2>1. /\ wk[m].pc = "setup" /\ UNCHANGED <<row, stop>> /\ RowTyped' /\ CountersTyped'
        /\ wk' = [wk EXCEPT ![m].pc = "drain", ![m].out = "threw"]
    BY <1>2 DEF SetUpThrows, Fault, IInv, RowTyped, CountersTyped
  <2> QED BY <2>1, OnStep DEF WorkerPcs
<1>3. CASE SeeCancel(m)
  <2>1. /\ UNCHANGED <<row, stop>> /\ RowTyped' /\ CountersTyped'
        /\ wk' = [wk EXCEPT ![m] = FreeWorker]
    BY <1>3 DEF SeeCancel, IInv, RowTyped, CountersTyped
  <2> QED BY <2>1, FreeStep
<1>4. CASE Push(m)
  <2>1. /\ wk[m].pc = "loop" /\ UNCHANGED <<row, stop>> /\ RowTyped' /\ CountersTyped'
        /\ wk' = [wk EXCEPT ![m].pc = "mark", ![m].out = "pr"]
    BY <1>4 DEF Push, IInv, RowTyped, CountersTyped
  <2> QED BY <2>1, OnStep DEF WorkerPcs
<1>5. CASE Finish(m)
  <2>1. wk[m].pc = "loop" /\ UNCHANGED <<row, stop>> /\ RowTyped' /\ CountersTyped'
    BY <1>5 DEF Finish, IInv, RowTyped, CountersTyped
  <2>2. CASE MayAnswer(m) /\ wk' = [wk EXCEPT ![m].pc = "mark", ![m].out = "answered"]
    <3>1. row.pr
      BY <2>2 DEF MayAnswer, IInv, WorkersOK, Reasoned
    <3> QED BY <2>1, <2>2, <3>1, OnStep DEF WorkerPcs
  <2>3. CASE MayFail(m) /\ wk' = [wk EXCEPT ![m].pc = "mark", ![m].out = "failed"]
    BY <2>1, <2>3, OnStep DEF WorkerPcs, MayFail
  <2> QED BY <1>5, <2>2, <2>3 DEF Finish
<1>6. CASE Mark(m)
  BY <1>6, MarkStep
<1>7. CASE MarkLost(m)
  <2>1. /\ wk[m].pc = "mark" /\ UNCHANGED <<row, stop>> /\ RowTyped' /\ CountersTyped'
    BY <1>7 DEF MarkLost, Fault, IInv, RowTyped, CountersTyped
  <2>2. wk[m].out \in {"none", "pr", "answered", "failed", "threw"}
    BY DEF IInv, WorkersTyped, WorkerType
  <2>3. wk' = [wk EXCEPT ![m].pc = "task", ![m].out = wk[m].out]
    BY <1>7 DEF MarkLost, IInv, WorkersTyped, WorkerType
  <2> QED BY <2>1, <2>2, <2>3, OnStep DEF WorkerPcs
<1>8. CASE WriteTask(m)
  BY <1>8, WriteTaskStep
<1>9. CASE Drain(m)
  BY <1>9, DrainStep
<1> QED BY <1>1, <1>2, <1>3, <1>4, <1>5, <1>6, <1>7, <1>8, <1>9 DEF Pipeline

(* A step of nobody's worker.                                               *)
LEMMA RowStep ==
  ASSUME IInv, UNCHANGED wk, RowTyped', RowOK', CountersTyped', row.pr => row'.pr,
         \/ row'.machine = Null
         \/ row'.machine = row.machine /\ row'.run = row.run /\ row'.prior = row.prior
  PROVE  IInv'
BY WorkersStay DEF IInv

LEMMA WorkerStep ==
  ASSUME IInv, NEW m \in Machines, Worker(m)
  PROVE  IInv'
<1>1. CASE Claim(m)
  BY <1>1, ClaimStep
<1>2. CASE ClaimLost(m)
  BY <1>2, ClaimLostStep
<1>3. CASE Pipeline(m)
  BY <1>3, PipelineStep
<1>4. CASE Heartbeat(m)
  <2>1. /\ row' = [row EXCEPT !.stale = FALSE]
        /\ UNCHANGED <<task, wk, posted, calls, stop, cron, stops, faults, heard, dropped>>
    BY <1>4 DEF Heartbeat
  <2>2. /\ row' \in RowType /\ row'.st = row.st /\ row'.machine = row.machine
        /\ row'.run = row.run /\ row'.prior = row.prior /\ row'.pr = row.pr
    BY <2>1 DEF IInv, RowTyped, RowType
  <2>3. RowTyped' /\ RowOK' /\ CountersTyped'
    BY <2>1, <2>2 DEF IInv, RowTyped, RowOK, CountersTyped
  <2> QED BY <2>1, <2>2, <2>3, RowStep
<1>5. CASE Crash(m)
  <2>1. /\ UNCHANGED <<row, stop>> /\ RowTyped'
        /\ wk' = [wk EXCEPT ![m] = FreeWorker]
    BY <1>5 DEF Crash, Fault, IInv, RowTyped
  <2>2. CountersTyped'
    BY <1>5 DEF Crash, Fault, IInv, CountersTyped
  <2> QED BY <2>1, <2>2, FreeStep
<1> QED BY <1>1, <1>2, <1>3, <1>4, <1>5 DEF Worker

LEMMA UserStep ==
  ASSUME IInv, User
  PROVE  IInv'
<1>1. CASE Post
  <2>1. UNCHANGED <<row, task, wk, stop>> /\ CountersTyped'
    BY <1>1 DEF Post, IInv, CountersTyped
  <2> QED BY <2>1, RowStep DEF IInv, RowTyped, RowOK
<1>2. CASE CallWake
  <2>1. UNCHANGED <<wk, stop>> /\ CountersTyped' /\ Wake
    BY <1>2 DEF CallWake, IInv, CountersTyped
  <2>2. /\ RowTyped' /\ RowOK' /\ row'.pr = row.pr
        /\ row' = row \/ row'.machine = Null
    BY <2>1, WakeKeeps DEF IInv
  <2> QED BY <2>1, <2>2, RowStep
<1>3. CASE CallLost
  <2>1. UNCHANGED <<row, task, wk, stop>> /\ CountersTyped'
    BY <1>3 DEF CallLost, Fault, IInv, CountersTyped
  <2> QED BY <2>1, RowStep DEF IInv, RowTyped, RowOK
<1>4. CASE StopRead
  <2>1. UNCHANGED <<row, task, wk>> /\ CountersTyped'
    BY <1>4 DEF StopRead, IInv, CountersTyped
  <2>2. stop' = "restore" => row.pr
    BY <1>4 DEF StopRead, IInv, RowOK
  <2> QED BY <2>1, <2>2, RowStep DEF IInv, RowTyped, RowOK
<1>5. CASE StopRestore
  <2>1. UNCHANGED wk /\ stop' = "idle" /\ CountersTyped' /\ row.pr
    BY <1>5 DEF StopRestore, IInv, CountersTyped, RowOK
  <2>2. CASE row.st = "approved"
    <3>1. SetStatus("completed")
      BY <1>5, <2>2 DEF StopRestore
    <3>2. /\ RowTyped' /\ RowOK' /\ row'.machine = row.machine /\ row'.run = row.run
          /\ row'.prior = row.prior /\ row'.pr = row.pr
      BY <2>1, <3>1, SetStatusKeeps DEF IInv, Ended
    <3> QED BY <2>1, <3>2, RowStep
  <2>3. CASE row.st # "approved"
    <3>1. UNCHANGED <<row, task>>
      BY <1>5, <2>3 DEF StopRestore
    <3> QED BY <2>1, <3>1, RowStep DEF IInv, RowTyped, RowOK
  <2> QED BY <2>2, <2>3
<1>6. CASE StopReject
  <2>1. UNCHANGED wk /\ stop' = "task" /\ CountersTyped'
    BY <1>6 DEF StopReject, IInv, CountersTyped
  <2>2. CASE row.st \in {"approved", "executing"}
    <3>1. SetStatus("rejected")
      BY <1>6, <2>2 DEF StopReject
    <3>2. /\ RowTyped' /\ RowOK' /\ row'.machine = row.machine /\ row'.run = row.run
          /\ row'.prior = row.prior /\ row'.pr = row.pr
      BY <2>1, <3>1, SetStatusKeeps DEF IInv, Ended
    <3> QED BY <2>1, <3>2, RowStep
  <2>3. CASE row.st \notin {"approved", "executing"}
    <3>1. UNCHANGED <<row, task>>
      BY <1>6, <2>3 DEF StopReject
    <3> QED BY <2>1, <3>1, RowStep DEF IInv, RowTyped, RowOK
  <2> QED BY <2>2, <2>3
<1>7. CASE StopTask
  <2>1. UNCHANGED <<row, wk>> /\ task' = "cancelled" /\ stop' = "idle" /\ CountersTyped'
    BY <1>7 DEF StopTask, IInv, CountersTyped
  <2> QED BY <2>1, RowStep DEF IInv, RowTyped, RowOK
<1>8. CASE StopLost
  <2>1. UNCHANGED <<row, task, wk>> /\ stop' = "idle" /\ CountersTyped'
    BY <1>8 DEF StopLost, Fault, IInv, CountersTyped
  <2> QED BY <2>1, RowStep DEF IInv, RowTyped, RowOK
<1> QED BY <1>1, <1>2, <1>3, <1>4, <1>5, <1>6, <1>7, <1>8 DEF User

LEMMA CronStep ==
  ASSUME IInv, Cron
  PROVE  IInv'
<1>1. CASE CronFail
  <2>1. /\ UNCHANGED <<wk, stop>> /\ SetStatus("failed")
        /\ cron' = [pc |-> "wake", started |-> row.started]
    BY <1>1 DEF CronFail
  <2>2. row.started \in Nat
    BY DEF IInv, RowTyped, RowType
  <2>3. CountersTyped'
    BY <1>1, <2>1, <2>2 DEF CronFail, IInv, CountersTyped, CronType, Later
  <2>4. /\ RowTyped' /\ RowOK' /\ row'.machine = row.machine /\ row'.run = row.run
        /\ row'.prior = row.prior /\ row'.pr = row.pr
    BY <2>1, SetStatusKeeps DEF IInv, Ended
  <2> QED BY <2>1, <2>3, <2>4, RowStep
<1>2. CASE CronWake
  <2>1. UNCHANGED <<wk, stop>> /\ CountersTyped'
    BY <1>2 DEF CronWake, IInv, CountersTyped, CronType
  <2>2. CASE posted > cron.started
    <3>1. /\ RowTyped' /\ RowOK' /\ row'.pr = row.pr
          /\ row' = row \/ row'.machine = Null
      BY <1>2, <2>1, <2>2, WakeKeeps DEF CronWake, IInv
    <3> QED BY <2>1, <3>1, RowStep
  <2>3. CASE ~(posted > cron.started)
    BY <1>2, <2>1, <2>3, RowStep DEF CronWake, IInv, RowTyped, RowOK
  <2> QED BY <2>2, <2>3
<1>3. CASE CronLost
  <2>1. UNCHANGED <<row, task, wk, stop>> /\ CountersTyped'
    BY <1>3 DEF CronLost, Fault, IInv, CountersTyped, CronType
  <2> QED BY <2>1, RowStep DEF IInv, RowTyped, RowOK
<1> QED BY <1>1, <1>2, <1>3 DEF Cron

LEMMA AgesStep ==
  ASSUME IInv, HeartbeatAges \/ HeartbeatLost
  PROVE  IInv'
<1>1. /\ row' = [row EXCEPT !.stale = TRUE]
      /\ UNCHANGED <<task, wk, posted, calls, stop, cron, stops, heard, dropped>>
      /\ faults' \in Nat
  BY DEF HeartbeatAges, HeartbeatLost, Fault, IInv, CountersTyped
<1>2. /\ row' \in RowType /\ row'.st = row.st /\ row'.machine = row.machine
      /\ row'.run = row.run /\ row'.prior = row.prior /\ row'.pr = row.pr
  BY <1>1 DEF IInv, RowTyped, RowType
<1>3. RowTyped' /\ RowOK' /\ CountersTyped'
  BY <1>1, <1>2 DEF IInv, RowTyped, RowOK, CountersTyped
<1> QED BY <1>1, <1>2, <1>3, RowStep

LEMMA StepIInv == IInv /\ [Next]_vars => IInv'
<1> SUFFICES ASSUME IInv, [Next]_vars PROVE IInv'
  OBVIOUS
<1>1. CASE \E m \in Machines : Worker(m)
  BY <1>1, WorkerStep
<1>2. CASE User
  BY <1>2, UserStep
<1>3. CASE Cron
  BY <1>3, CronStep
<1>4. CASE HeartbeatAges \/ HeartbeatLost
  BY <1>4, AgesStep
<1>5. CASE UNCHANGED vars
  BY <1>5, RowStep DEF vars, IInv, RowTyped, RowOK, CountersTyped
<1> QED BY <1>1, <1>2, <1>3, <1>4, <1>5 DEF Next

LEMMA Invariance == Spec => []IInv
BY InitIInv, StepIInv, PTL DEF Spec

-----------------------------------------------------------------------------
(* A task keeps its types.                                                  *)
THEOREM TypeCorrect == Spec => []TypeOK
<1>1. IInv => TypeOK
  BY TypeParts DEF IInv
<1> QED BY <1>1, Invariance, PTL

(* A row that reads completed has a pull request on record (RowOK).         *)
THEOREM CompletedHasPr == Spec => []CompletedMeansPr
<1>1. IInv => CompletedMeansPr
  BY DEF IInv, RowOK, CompletedMeansPr
<1> QED BY <1>1, Invariance, PTL

(* The terminal write is the only one by which a worker ends a run, and its *)
(* fence by machine is one by run (Owns).                                   *)
LEMMA WorkerEnds ==
  ASSUME IInv, NEW m \in Machines, Worker(m),
         row.st \in {"approved", "executing"}, row'.st \in Ended
  PROVE  Marked(m) /\ wk[m].run = row.run
<1>1. Mark(m)
  BY DEF Worker, Claim, ClaimLost, Grant, Heartbeat, Crash, Pipeline, SetUp, SetUpThrows, SeeCancel,
         Push, Finish, MarkLost, WriteTask, Drain, Wake, Woken, Ended, IInv, RowTyped, RowType
<1>2. row.machine = m /\ wk[m].pc = "mark" /\ wk'[m].pc = "task"
  BY <1>1 DEF Mark, Ended, IInv, WorkersTyped, WorkerType
<1> QED BY <1>2 DEF Marked, IInv, WorkersOK, Owns

(* Of the steps of a worker on another run than the row's, only its drain   *)
(* changes the row.                                                         *)
LEMMA StrangerWakes ==
  ASSUME IInv, NEW n \in Machines, Worker(n), NEW m \in Machines,
         wk[m].pc # "free", wk[m].run # row.run, wk'[m] # wk[m], row' # row
  PROVE  wk[m].pc = "drain" /\ row.st \in Ended /\ row' = Woken
<1>1. n = m
  <2>1. ASSUME n # m PROVE wk'[m] = wk[m]
    BY <2>1 DEF IInv, WorkersTyped, Worker, Claim, ClaimLost, Heartbeat, Crash, Pipeline,
       SetUp, SetUpThrows, SeeCancel, Push, Finish, Mark, MarkLost, WriteTask, Drain, AfterDrain
  <2> QED BY <2>1
<1>2. ~Mark(m)
  BY DEF Mark, IInv, WorkersOK, Owns
<1>3. Drain(m)
  BY <1>1, <1>2 DEF Worker, Claim, ClaimLost, Heartbeat, Crash, Pipeline, SetUp, SetUpThrows,
     SeeCancel, Push, Finish, MarkLost, WriteTask
<1> QED BY <1>3 DEF Drain, Wake

THEOREM OnlyOwnerEnds == Spec => OwnerEnds
<1> DEFINE ByWho ==
      \/ \E m \in Machines : Marked(m) /\ wk[m].run = row.run
      \/ stop \in {"restore", "reject"} /\ stop' # stop
      \/ cron.pc = "idle" /\ cron'.pc = "wake"
<1>1. ASSUME IInv, Next, row.st \in {"approved", "executing"}, row'.st \in Ended
      PROVE  ByWho
  <2>1. CASE \E m \in Machines : Worker(m)
    BY <1>1, <2>1, WorkerEnds
  <2>2. CASE User
    BY <1>1, <2>2 DEF User, Post, CallWake, CallLost, StopRead, StopRestore, StopReject, StopTask,
       StopLost, Wake, Woken, Ended
  <2>3. CASE Cron
    BY <1>1, <2>3 DEF Cron, CronFail, CronWake, CronLost, Wake, Woken, Ended
  <2>4. CASE HeartbeatAges \/ HeartbeatLost
    BY <1>1, <2>4 DEF HeartbeatAges, HeartbeatLost, Ended, IInv, RowTyped, RowType
  <2> QED BY <1>1, <2>1, <2>2, <2>3, <2>4 DEF Next
<1>2. ASSUME IInv, Next, NEW m \in Machines,
             wk[m].pc # "free", wk[m].run # row.run, wk'[m] # wk[m], row' # row
      PROVE  wk[m].pc = "drain" /\ row.st \in Ended /\ row' = Woken
  <2>1. ASSUME UNCHANGED wk PROVE FALSE
    BY <1>2, <2>1
  <2>2. \E n \in Machines : Worker(n)
    BY <1>2, <2>1 DEF Next, User, Post, CallWake, CallLost, StopRead, StopRestore, StopReject,
       StopTask, StopLost, Cron, CronFail, CronWake, CronLost, HeartbeatAges, HeartbeatLost
  <2> QED BY <1>2, <2>2, StrangerWakes
<1>3. IInv /\ [Next]_vars =>
        [/\ row.st \in {"approved", "executing"} /\ row'.st \in Ended => ByWho
         /\ \A m \in Machines :
              wk[m].pc # "free" /\ wk[m].run # row.run /\ wk'[m] # wk[m] /\ row' # row =>
              wk[m].pc = "drain" /\ row.st \in Ended /\ row' = Woken]_vars
  BY <1>1, <1>2 DEF vars
<1> QED BY <1>3, Invariance, PTL DEF Spec, OwnerEnds

(* A resume of a success ends a failure only by the three ends that do not  *)
(* restore it.                                                              *)
THEOREM StandingSuccess == Spec => SuccessStands
<1> DEFINE Undone ==
      row.prior = "completed" /\ row.st \in {"approved", "executing"}
        /\ row'.st \in {"failed", "rejected"} =>
        \/ stop = "reject" /\ stop' = "task"
        \/ cron.pc = "idle" /\ cron'.pc = "wake"
        \/ \E m \in Machines : wk[m].out = "threw" /\ wk[m].pc = "mark" /\ wk'[m].pc = "task"
<1>1. ASSUME IInv, [Next]_vars PROVE [Undone]_vars
  <2> SUFFICES ASSUME Next, row.prior = "completed", row.st \in {"approved", "executing"},
                      row'.st \in {"failed", "rejected"}
               PROVE  Undone
    BY <1>1
  <2>1. row.st \notin Ended /\ row \in RowType
    BY <1>1 DEF Ended, IInv, RowTyped
  <2>2. row'.st # row.st
    BY <2>1 DEF Ended
  <2>3. ASSUME NEW m \in Machines, Worker(m) PROVE Undone
    <3>1. ~Claim(m) /\ ~ClaimLost(m)
      BY <2>1 DEF Claim, ClaimLost, Grant, RowType
    <3>2. ~Heartbeat(m) /\ ~Crash(m)
      BY <2>1, <2>2 DEF Heartbeat, Crash, RowType
    <3>3. Pipeline(m)
      BY <2>3, <3>1, <3>2 DEF Worker
    <3>4. Mark(m)
      BY <2>1, <2>2, <3>3 DEF Pipeline, SetUp, SetUpThrows, SeeCancel, Push, Finish, MarkLost,
         WriteTask, Drain, Wake
    <3>5. wk[m].pc = "mark" /\ wk'[m].pc = "task" /\ row.machine = m
      BY <1>1, <2>2, <3>4 DEF Mark, IInv, WorkersTyped, WorkerType
    <3>6. Owns(m) /\ Reasoned(m)
      BY <1>1 DEF IInv, WorkersOK
    <3>7. wk[m].out \notin {"pr", "answered"}
      BY <2>1, <3>4, <3>5 DEF Mark, RowType
    <3>8. wk[m].out \in {"none", "pr", "answered", "failed", "threw"}
      BY <1>1 DEF IInv, WorkersTyped, WorkerType
    <3>9. wk[m].out = "threw"
      BY <3>5, <3>6, <3>7, <3>8 DEF Owns, Reasoned
    <3> QED BY <3>5, <3>9
  <2>4. CASE User
    <3>1. StopReject
      BY <2>1, <2>2, <2>4 DEF User, Post, CallWake, CallLost, StopRead, StopRestore, StopTask,
         StopLost, Wake, SetStatus, RowType
    <3> QED BY <3>1 DEF StopReject
  <2>5. CASE Cron
    <3>1. CronFail
      BY <2>1, <2>2, <2>5 DEF Cron, CronWake, CronLost, Wake
    <3> QED BY <3>1 DEF CronFail
  <2>6. CASE HeartbeatAges \/ HeartbeatLost
    BY <2>1, <2>2, <2>6 DEF HeartbeatAges, HeartbeatLost, RowType
  <2> QED BY <2>3, <2>4, <2>5, <2>6 DEF Next
<1> QED BY <1>1, Invariance, PTL DEF Spec, SuccessStands
-----------------------------------------------------------------------------
(* Follow-ups: what FollowupHeard says of the states in between.            *)

(* A worker that has marked its own row will drain a message it has not     *)
(* seen.                                                                    *)
Carries(m) ==
  /\ wk[m].pc \in {"task", "drain"} /\ wk[m].out # "threw"
  /\ row.machine = m /\ Newer(m)

(* As long as a message is neither heard nor lost, somebody still owes it a *)
(* run: the row is queued or running, a request is about to wake it, the    *)
(* cron is, or the worker of the last run has yet to drain.                 *)
FollowupPending ==
  posted > heard /\ posted > dropped =>
    \/ row.st \in {"approved", "executing"}
    \/ calls > 0
    \/ cron.pc = "wake" /\ posted > cron.started
    \/ \E m \in Machines : Carries(m)

(* A first run has seen nothing, so that its end never passes for a replay. *)
FirstRun ==
  /\ row.prior = "none" => row.approved = 0
  /\ \A m \in Machines : wk[m].prior = "none" => wk[m].seen = 0

LEMMA FirstRunInit == Init => FirstRun
BY DEF Init, FirstRun, FreeWorker

(* Every step leaves the two fields of the row alone or is a wake.          *)
LEMMA RowPrior ==
  ASSUME IInv, [Next]_vars
  PROVE  \/ row'.prior # "none"
         \/ row'.prior = row.prior /\ row'.approved = row.approved
<1>1. row \in RowType
  BY DEF IInv, RowTyped
<1>2. Wake => \/ row'.prior # "none"
              \/ row'.prior = row.prior /\ row'.approved = row.approved
  BY <1>1 DEF Wake, Woken, RowType, Ended
<1>3. ASSUME NEW st, SetStatus(st)
      PROVE  row'.prior = row.prior /\ row'.approved = row.approved
  BY <1>1, <1>3 DEF SetStatus, RowType
<1>4. ASSUME NEW m \in Machines, Worker(m)
      PROVE  \/ row'.prior # "none"
             \/ row'.prior = row.prior /\ row'.approved = row.approved
  BY <1>1, <1>2, <1>4 DEF Worker, Claim, ClaimLost, Grant, Heartbeat, Crash, Pipeline, SetUp,
     SetUpThrows, SeeCancel, Push, Finish, Mark, MarkLost, WriteTask, Drain, RowType
<1>5. CASE User
  BY <1>2, <1>3, <1>5 DEF User, Post, CallWake, CallLost, StopRead, StopRestore, StopReject,
     StopTask, StopLost
<1>6. CASE Cron
  BY <1>2, <1>3, <1>6 DEF Cron, CronFail, CronWake, CronLost
<1>7. CASE HeartbeatAges \/ HeartbeatLost
  BY <1>1, <1>7 DEF HeartbeatAges, HeartbeatLost, RowType
<1> QED BY <1>4, <1>5, <1>6, <1>7 DEF Next, vars

LEMMA WorkerPrior ==
  ASSUME IInv, FirstRun, NEW m \in Machines, Worker(m), NEW n \in Machines,
         wk'[n].prior = "none"
  PROVE  wk'[n].seen = 0
<1>1. wk \in [Machines -> WorkerType] /\ row \in RowType
  BY DEF IInv, WorkersTyped, RowTyped
<1>2. CASE Claim(m)
  <2>1. CASE n = m
    <3>1. wk'[n] = [FreeWorker EXCEPT !.pc = "setup", !.run = row.run, !.prior = row.prior,
                                      !.seen = row.approved]
      BY <1>1, <1>2, <2>1 DEF Claim, SeenAtClaim
    <3>2. wk'[n].prior = row.prior /\ wk'[n].seen = row.approved
      BY <3>1 DEF FreeWorker
    <3> QED BY <3>2 DEF FirstRun
  <2>2. CASE n # m
    BY <1>1, <1>2, <2>2 DEF Claim, FirstRun
  <2> QED BY <2>1, <2>2
<1>3. CASE SetUp(m)
  <2>1. CASE n = m
    BY <1>1, <1>3, <2>1 DEF SetUp, FirstRun, Resumed, WorkerType
  <2>2. CASE n # m
    BY <1>1, <1>3, <2>2 DEF SetUp, FirstRun
  <2> QED BY <2>1, <2>2
<1>4. CASE Worker(m) /\ ~Claim(m) /\ ~SetUp(m)
  <2>1. \/ wk'[n].prior = wk[n].prior /\ wk'[n].seen = wk[n].seen
        \/ wk'[n] = FreeWorker
    BY <1>1, <1>4 DEF Worker, ClaimLost, Heartbeat, Crash, Pipeline, SetUpThrows, SeeCancel,
       Push, Finish, Mark, MarkLost, WriteTask, Drain, AfterDrain, WorkerType
  <2> QED BY <2>1 DEF FirstRun, FreeWorker
<1> QED BY <1>2, <1>3, <1>4

LEMMA FirstRunNext == IInv /\ FirstRun /\ [Next]_vars => FirstRun'
<1> SUFFICES ASSUME IInv, FirstRun, [Next]_vars PROVE FirstRun'
  OBVIOUS
<1>1. row'.prior = "none" => row'.approved = 0
  BY RowPrior DEF FirstRun
<1>2. ASSUME NEW n \in Machines, wk'[n].prior = "none" PROVE wk'[n].seen = 0
  <2>1. CASE \E m \in Machines : Worker(m)
    BY <1>2, <2>1, WorkerPrior
  <2>2. CASE UNCHANGED wk
    BY <1>2, <2>2 DEF FirstRun
  <2> QED BY <2>1, <2>2 DEF Next, vars, User, Post, CallWake, CallLost, StopRead, StopRestore,
             StopReject, StopTask, StopLost, Cron, CronFail, CronWake, CronLost, HeartbeatAges,
             HeartbeatLost
<1> QED BY <1>1, <1>2 DEF FirstRun

(* A wake leaves a row that is queued or running.                           *)
LEMMA WakeOpens ==
  ASSUME IInv, Wake
  PROVE  row'.st \in {"approved", "executing"}
BY DEF IInv, RowTyped, RowType, Wake, Woken, Ended

(* Whoever else moves, the debt of a worker stands, and so do the others.   *)
LEMMA OwedStays ==
  ASSUME IInv, FollowupPending,
         row'.st = row.st, row'.machine = row.machine,
         UNCHANGED <<posted, heard, dropped>>,
         calls' = calls, cron' = cron,
         \A m \in Machines : Carries(m) =>
           \/ row.st \in {"approved", "executing"}
           \/ wk'[m].pc \in {"task", "drain"} /\ wk'[m].out = wk[m].out
              /\ wk'[m].seen = wk[m].seen
  PROVE  FollowupPending'
BY DEF FollowupPending, Carries, Newer

LEMMA MarkPending ==
  ASSUME IInv, FirstRun, FollowupPending, NEW m \in Machines, Mark(m)
  PROVE  FollowupPending'
<1>1. /\ wk[m] \in WorkerType /\ wk[m].pc = "mark" /\ row \in RowType
      /\ wk' = [wk EXCEPT ![m].pc = "task"]
      /\ UNCHANGED <<posted, calls, cron>>
      /\ posted \in Nat /\ heard \in Nat /\ dropped \in Nat
  BY DEF Mark, IInv, WorkersTyped, RowTyped, CountersTyped
<1>2. /\ wk'[m].pc = "task" /\ wk'[m].out = wk[m].out /\ wk'[m].seen = wk[m].seen
      /\ \A n \in Machines \ {m} : wk'[n] = wk[n]
  BY <1>1 DEF IInv, WorkersTyped, WorkerType
<1>3. CASE row.machine # m
  <2>1. UNCHANGED <<row, heard, dropped>>
    BY <1>3 DEF Mark
  <2> QED BY <1>1, <1>2, <2>1, OwedStays DEF Carries
<1>4. CASE row.machine = m /\ wk[m].out = "threw"
  BY <1>1, <1>4 DEF Mark, FollowupPending
<1>5. CASE row.machine = m /\ wk[m].out # "threw" /\ Newer(m)
  <2>1. row'.machine = m
    BY <1>1, <1>5 DEF Mark, RowType
  <2>2. Carries(m)'
    BY <1>1, <1>2, <1>5, <2>1 DEF Carries, Newer
  <2> QED BY <2>2 DEF FollowupPending
<1>6. CASE row.machine = m /\ wk[m].out # "threw" /\ ~Newer(m)
  <2>1. posted <= wk[m].seen /\ wk[m].seen \in Nat
    BY <1>1, <1>6 DEF Newer, WorkerType
  <2>2. CASE Resumed(m)
    <3>1. heard' = Later(heard, wk[m].seen)
      BY <1>6, <2>2 DEF Mark
    <3> QED BY <1>1, <2>1, <3>1 DEF Later, FollowupPending
  <2>3. CASE ~Resumed(m)
    <3>1. wk[m].seen = 0 /\ heard' = heard
      BY <1>6, <2>3 DEF Resumed, FirstRun, Mark
    <3> QED BY <1>1, <2>1, <3>1 DEF FollowupPending
  <2> QED BY <2>2, <2>3
<1> QED BY <1>3, <1>4, <1>5, <1>6

LEMMA WorkerPending ==
  ASSUME IInv, FirstRun, FollowupPending, NEW m \in Machines, Worker(m)
  PROVE  FollowupPending'
<1>1. wk \in [Machines -> WorkerType] /\ row \in RowType
  BY DEF IInv, WorkersTyped, RowTyped
<1>2. CASE Claim(m) \/ ClaimLost(m)
  <2>1. row'.st = "executing"
    BY <1>1, <1>2 DEF Claim, ClaimLost, Grant, RowType
  <2> QED BY <2>1 DEF FollowupPending
<1>3. CASE SetUp(m) \/ SetUpThrows(m) \/ SeeCancel(m) \/ Push(m) \/ Finish(m) \/ MarkLost(m)
  <2>1. /\ UNCHANGED <<row, posted, heard, dropped, calls, cron>>
        /\ wk[m].pc \notin {"task", "drain"}
        /\ \A n \in Machines \ {m} : wk'[n] = wk[n]
    BY <1>1, <1>3 DEF SetUp, SetUpThrows, SeeCancel, Push, Finish, MarkLost
  <2> QED BY <2>1, OwedStays DEF Carries
<1>4. CASE Mark(m)
  BY <1>4, MarkPending
<1>5. CASE WriteTask(m)
  <2>1. /\ UNCHANGED <<row, posted, heard, dropped, calls, cron>>
        /\ \A n \in Machines \ {m} : wk'[n] = wk[n]
    BY <1>1, <1>5 DEF WriteTask
  <2>2. wk[m].out # "threw" =>
          wk'[m].pc = "drain" /\ wk'[m].out = wk[m].out /\ wk'[m].seen = wk[m].seen
    BY <1>1, <1>5 DEF WriteTask, WorkerType
  <2> QED BY <2>1, <2>2, OwedStays DEF Carries
<1>6. CASE Drain(m)
  <2>1. CASE Newer(m)
    BY <1>6, <2>1, WakeOpens DEF Drain, FollowupPending
  <2>2. CASE ~Newer(m)
    <3>1. /\ UNCHANGED <<row, posted, heard, dropped, calls, cron>>
          /\ \A n \in Machines \ {m} : wk'[n] = wk[n]
      BY <1>1, <1>6, <2>2 DEF Drain, AfterDrain
    <3> QED BY <2>2, <3>1, OwedStays DEF Carries
  <2> QED BY <2>1, <2>2
<1>7. CASE Crash(m)
  <2>1. UNCHANGED <<row, posted, heard, calls, cron>>
    BY <1>7 DEF Crash
  <2>2. CASE wk[m].pc \in {"task", "drain"} /\ row.machine = m /\ row.st \in Ended
    <3>1. dropped' = posted /\ posted \in Nat
      BY <1>7, <2>2 DEF Crash, IInv, CountersTyped
    <3> QED BY <2>1, <3>1 DEF FollowupPending
  <2>3. CASE ~(wk[m].pc \in {"task", "drain"} /\ row.machine = m /\ row.st \in Ended)
    <3>1. dropped' = dropped /\ \A n \in Machines \ {m} : wk'[n] = wk[n]
      BY <1>1, <1>7, <2>3 DEF Crash
    <3>2. Carries(m) => row.st \in {"approved", "executing"}
      BY <1>1, <2>3 DEF Carries, RowType
    <3> QED BY <2>1, <3>1, <3>2, OwedStays DEF Carries
  <2> QED BY <2>2, <2>3
<1>8. CASE Heartbeat(m)
  <2>1. row'.st = row.st /\ row'.machine = row.machine
    BY <1>1, <1>8 DEF Heartbeat, RowType
  <2> QED BY <1>8, <2>1, OwedStays DEF Heartbeat, Carries
<1> QED BY <1>2, <1>3, <1>4, <1>5, <1>6, <1>7, <1>8 DEF Worker, Pipeline

LEMMA UserPending ==
  ASSUME IInv, FollowupPending, User
  PROVE  FollowupPending'
<1>1. posted \in Nat /\ dropped \in Nat /\ heard \in Nat /\ calls \in Nat
  BY DEF IInv, CountersTyped
<1>2. CASE Post
  BY <1>1, <1>2 DEF Post, FollowupPending
<1>3. CASE CallWake
  BY <1>3, WakeOpens DEF CallWake, FollowupPending
<1>4. CASE CallLost
  BY <1>1, <1>4 DEF CallLost, FollowupPending
<1>5. CASE StopRead \/ StopTask \/ StopLost
  BY <1>5, OwedStays DEF StopRead, StopTask, StopLost, Carries
<1>6. CASE StopRestore \/ StopReject
  <2>1. CASE dropped' = posted /\ posted' = posted
    BY <1>1, <2>1 DEF FollowupPending
  <2>2. CASE UNCHANGED <<row, dropped>>
    BY <1>6, <2>2, OwedStays DEF StopRestore, StopReject, Carries
  <2> QED BY <1>6, <2>1, <2>2 DEF StopRestore, StopReject
<1> QED BY <1>2, <1>3, <1>4, <1>5, <1>6 DEF User

LEMMA CronPending ==
  ASSUME IInv, FollowupPending, Cron
  PROVE  FollowupPending'
<1>1. /\ posted \in Nat /\ dropped \in Nat /\ heard \in Nat /\ calls \in Nat
      /\ row.started \in Nat
  BY DEF IInv, CountersTyped, RowTyped, RowType
<1>2. CASE CronFail
  <2>1. /\ cron'.pc = "wake" /\ cron'.started = row.started
        /\ dropped' = Later(dropped, row.started) /\ posted' = posted
    BY <1>2 DEF CronFail
  <2>2. posted > dropped' => posted > row.started
    BY <1>1, <2>1 DEF Later
  <2> QED BY <2>1, <2>2 DEF FollowupPending
<1>3. CASE CronWake
  <2>1. CASE posted > cron.started
    BY <1>3, <2>1, WakeOpens DEF CronWake, FollowupPending
  <2>2. CASE ~(posted > cron.started)
    BY <1>3, <2>2 DEF CronWake, FollowupPending, Carries, Newer
  <2> QED BY <2>1, <2>2
<1>4. CASE CronLost
  BY <1>1, <1>4 DEF CronLost, FollowupPending
<1> QED BY <1>2, <1>3, <1>4 DEF Cron

(* No follow-up is forgotten: until a run has heard it or one of the losses *)
(* of FollowupHeard has taken it, some part of the system is on its way to  *)
(* wake the row, although the request, the drain of the last worker, Stop   *)
(* and the cron all look at the row at different moments.                   *)
THEOREM NoFollowupForgotten == Spec => []FollowupPending
<1>1. Init => FollowupPending
  BY DEF Init, FollowupPending
<1>2. ASSUME IInv, FirstRun, FollowupPending, [Next]_vars PROVE FollowupPending'
  <2>1. CASE HeartbeatAges \/ HeartbeatLost
    <3>1. row'.st = row.st /\ row'.machine = row.machine
      BY <1>2, <2>1 DEF HeartbeatAges, HeartbeatLost, IInv, RowTyped, RowType
    <3> QED BY <1>2, <2>1, <3>1, OwedStays DEF HeartbeatAges, HeartbeatLost, Carries
  <2>2. CASE UNCHANGED vars
    BY <1>2, <2>2, OwedStays DEF vars, Carries
  <2> QED BY <1>2, <2>1, <2>2, WorkerPending, UserPending, CronPending DEF Next
<1> QED BY <1>1, <1>2, Invariance, FirstRunInit, FirstRunNext, PTL DEF Spec
=============================================================================
