------------------------------ MODULE RepoStatus ------------------------------
(***************************************************************************)
(* What a project shows of its scans: project_repositories.status and      *)
(* extraction_step, which nobody owns.  The request that connects the      *)
(* repository, the pipeline, the populate batches it has queued, the       *)
(* cancel request, the recovery cron and the read of the import status all *)
(* write them by project, each as a statement of its own, and none of them *)
(* asks who has written before.                                            *)
(*                                                                         *)
(* One project.  Its dependencies are rows that other projects share.  A   *)
(* job has one attempt; its claim and heartbeat are in ExtractionWorker.   *)
(* A write is lost here only where the code looks at its result.           *)
(***************************************************************************)
EXTENDS Naturals, FiniteSets

CONSTANTS
  Scans,       \* the extraction jobs of the project
  Deps,        \* rows of the table dependencies
  Wants,       \* Wants[s]: the dependencies that scan s finds
  Direct,      \* Direct[s]: those of them that are not transitive
  BatchSize,   \* BATCH_SIZE of queuePopulateDependencyBatch
  MaxTries,    \* retries of a QStash message
  Null

ASSUME RepoAssumption ==
  /\ Wants \in [Scans -> SUBSET Deps] /\ IsFiniteSet(Deps)
  /\ \A s \in Scans : Direct[s] \subseteq Wants[s]
  /\ BatchSize \in Nat \ {0} /\ MaxTries \in Nat
  /\ Null \notin Scans /\ Null \notin Deps

VARIABLES
  row,         \* row[s]: scan_jobs.status
  pc,          \* pc[s]: the step the worker of scan s takes next
  new,         \* new[s]: namesToCreate, and then ctx.newDepsToPopulate
  dep,         \* dep[d]: dependencies.status
  elsewhere,   \* the new rows of another project, which it has yet to populate
  direct,      \* the direct dependencies of the project that are not removed
  repo,        \* the row of project_repositories
  committed,   \* the scans whose finalize_extraction has succeeded
  msg,         \* populate batches that QStash holds
  hand,        \* the populate-dependencies handler: one in the process
  con,         \* the request that connects: before its upsert, before its insert
  notify,      \* failed rows the recovery request still has to write about
  canc,        \* the scan whose cancel has yet to write the repository
  look,        \* GET import-status
  dropped,     \* history: new rows in no batch, or in one that QStash gave up
  lost         \* history: since the last clone a writer of the status was lost

vars == <<row, pc, new, dep, elsewhere, direct, repo, committed, msg, hand, con,
          notify, canc, look, dropped, lost>>

worker  == <<row, pc, new>>
deps    == <<dep, elsewhere>>
queue   == <<msg, hand>>
clients == <<con, notify, canc, look>>

Active  == {"queued", "processing"}
NoBatch == [deps |-> {}, left |-> {}, now |-> Null, good |-> FALSE, pc |-> "idle"]
NoLook  == [pc |-> "idle", ast |-> FALSE]

Message(D) == [deps |-> D, tries |-> 0, out |-> FALSE]

TypeOK ==
  /\ row \in [Scans -> Active \cup {"absent", "completed", "failed", "cancelled"}]
  /\ pc \in [Scans -> {"off", "start", "clone", "sbom", "read", "insert", "publish",
                       "upsert", "scan", "finalize", "mark", "write", "post", "told",
                       "done", "throw", "fail"}]
  /\ new \in [Scans -> SUBSET Deps]
  /\ dep \in [Deps -> {"absent", "pending", "analyzing", "ready", "error"}]
  /\ elsewhere \cup direct \subseteq {d \in Deps : dep[d] # "absent"}
  /\ repo \in [status : {"initializing", "extracting", "analyzing", "finalizing",
                         "ready", "error", "cancelled"},
               step : {"none", "working", "completed"}, ast : BOOLEAN]
  /\ committed \subseteq Scans
  /\ msg \subseteq [deps : SUBSET Deps, tries : 0..MaxTries, out : BOOLEAN]
  /\ \A m \in msg : Cardinality(m.deps) \in 1..BatchSize
  /\ hand \in [deps : SUBSET Deps, left : SUBSET Deps, now : Deps \cup {Null},
               good : BOOLEAN, pc : {"idle", "run", "write", "reply"}]
  /\ con \in {"no", "upsert", "queue"}
  /\ notify \subseteq Scans /\ canc \in Scans \cup {Null}
  /\ look \in [pc : {"idle", "deps", "write"}, ast : BOOLEAN]
  /\ dropped \subseteq Deps /\ lost \in BOOLEAN

(* The repository has been upserted for the first time; some packages are   *)
(* known already.                                                           *)
Init ==
  /\ row = [s \in Scans |-> "absent"] /\ pc = [s \in Scans |-> "off"]
  /\ new = [s \in Scans |-> {}]
  /\ dep \in [Deps -> {"absent", "ready"}] /\ elsewhere = {} /\ direct = {}
  /\ repo = [status |-> "initializing", step |-> "working", ast |-> FALSE]
  /\ committed = {} /\ msg = {} /\ hand = NoBatch
  /\ con = "queue" /\ notify = {} /\ canc = Null /\ look = NoLook
  /\ dropped = {} /\ lost = FALSE

-----------------------------------------------------------------------------
SetRow(s, v) == row' = [row EXCEPT ![s] = v]
Goto(s, p)   == pc' = [pc EXCEPT ![s] = p]
Show(status, step) == repo' = [repo EXCEPT !.status = status, !.step = step]

(* A writer that works for a row which is over has nobody behind it.        *)
Zombie(s) == row[s] # "processing"

NoneActive == \A s \in Scans : row[s] \notin Active

(* POST of the repository, the first time or again: no job is active; the   *)
(* upsert; then queue a scan, or report that it failed.                     *)
ConnectCheck ==
  /\ con = "no" /\ NoneActive
  /\ con' = "upsert"
  /\ UNCHANGED <<worker, deps, direct, repo, committed, queue, notify, canc, look, dropped, lost>>

ConnectRepo ==
  /\ con = "upsert"
  /\ Show("initializing", "working")
  /\ con' = "queue"
  /\ UNCHANGED <<worker, deps, direct, committed, queue, notify, canc, look, dropped, lost>>

ConnectQueue ==
  /\ con = "queue"
  /\ \/ \E s \in Scans : NoneActive /\ row[s] = "absent" /\ SetRow(s, "queued")
        /\ UNCHANGED repo
     \/ repo' = [repo EXCEPT !.status = "error"] /\ UNCHANGED row
  /\ con' = "no"
  /\ UNCHANGED <<pc, new, deps, direct, committed, queue, notify, canc, look, dropped, lost>>

ConnectDies ==
  /\ con # "no"
  /\ con' = "no" /\ lost' = (lost \/ con = "queue")
  /\ UNCHANGED <<worker, deps, direct, repo, committed, queue, notify, canc, look, dropped>>

(* A resync, a commit or the schedule; the status is left as it is.         *)
Rescan(s) ==
  /\ row[s] = "absent" /\ NoneActive
  /\ SetRow(s, "queued")
  /\ UNCHANGED <<pc, new, deps, direct, repo, committed, queue, clients, dropped, lost>>

Claim(s) ==
  /\ row[s] = "queued"
  /\ SetRow(s, "processing") /\ Goto(s, "start")
  /\ UNCHANGED <<new, deps, direct, repo, committed, queue, clients, dropped, lost>>

-----------------------------------------------------------------------------
(* The pipeline.  A look at the row between two stages; one that fails      *)
(* answers with what was known.                                             *)
LookAtRow(s, here, next) ==
  /\ pc[s] = here
  /\ \E c \in {row[s] = "cancelled", FALSE} : Goto(s, IF c THEN "told" ELSE next)
  /\ UNCHANGED <<row, new, deps, direct, repo, committed, queue, clients, dropped, lost>>

Start(s) == LookAtRow(s, "start", "clone")
Sbom(s)  == LookAtRow(s, "sbom", "read")
Stages(s) == LookAtRow(s, "scan", "finalize")

Clone(s) ==
  /\ pc[s] = "clone"
  /\ Show("extracting", "working")
  /\ lost' = Zombie(s)
  /\ Goto(s, "sbom")
  /\ UNCHANGED <<row, new, deps, direct, committed, queue, clients, dropped>>

(* updateStep without a status.                                             *)
NoteStep(s) ==
  /\ repo' = [repo EXCEPT !.step = "working"]
  /\ lost' = (lost \/ Zombie(s))

(* doDepsSync: which packages are known, the transitive ones too.  A read   *)
(* that fails knows none of its packages, and the insert meets them.        *)
ReadKnown(s) ==
  /\ pc[s] = "read"
  /\ NoteStep(s)
  /\ \E F \in {{}, Wants[s]} :
       new' = [new EXCEPT ![s] = {d \in Wants[s] : dep[d] = "absent" \/ d \in F}]
  /\ Goto(s, "insert")
  /\ UNCHANGED <<row, deps, direct, committed, queue, clients, dropped>>

(* The others are inserted.  Only the direct ones among them are kept for   *)
(* the queue: a transitive one stays pending, and every later scan knows    *)
(* it.                                                                      *)
Insert(s) ==
  /\ pc[s] = "insert" /\ \A d \in new[s] : dep[d] = "absent"
  /\ dep' = [d \in Deps |-> IF d \in new[s] THEN "pending" ELSE dep[d]]
  /\ new' = [new EXCEPT ![s] = @ \cap Direct[s]]
  /\ dropped' = dropped \cup (new[s] \ Direct[s])
  /\ Goto(s, IF new'[s] = {} THEN "upsert" ELSE "publish")
  /\ UNCHANGED <<row, elsewhere, direct, repo, committed, queue, clients, lost>>

(* A chunk fails, by the unique index if somebody has inserted a package of *)
(* it since, and the stage throws; the chunks before it stay.               *)
InsertThrows(s) ==
  /\ pc[s] = "insert"
  /\ \E D \in SUBSET {d \in new[s] : dep[d] = "absent"} :
       /\ dep' = [d \in Deps |-> IF d \in D THEN "pending" ELSE dep[d]]
       /\ dropped' = dropped \cup D
  /\ Goto(s, "throw")
  /\ UNCHANGED <<row, new, elsewhere, direct, repo, committed, queue, clients, lost>>

(* Mutant: batches with one dependency too many.                            *)
BatchesOneMore(D) ==
  {P \in SUBSET {B \in SUBSET D : Cardinality(B) \in 1..(BatchSize + 1)} :
     /\ UNION P = D
     /\ \A B, C \in P : B = C \/ B \cap C = {}
     /\ Cardinality({B \in P : Cardinality(B) < BatchSize + 1}) <= 1}

(* Full batches, and the rest.                                              *)
Batches(D) ==
  {P \in SUBSET {B \in SUBSET D : Cardinality(B) \in 1..BatchSize} :
     /\ UNION P = D
     /\ \A B, C \in P : B = C \/ B \cap C = {}
     /\ Cardinality({B \in P : Cardinality(B) < BatchSize}) <= 1}

(* callQueuePopulate: any of the batches, or all, may fail to be queued;    *)
(* the pipeline goes on.                                                    *)
Publish(s) ==
  /\ pc[s] = "publish"
  /\ \E P \in Batches(new[s]) : \E Q \in SUBSET P :
       /\ msg' = msg \cup {Message(B) : B \in Q}
       /\ dropped' = dropped \cup UNION (P \ Q)
  /\ Goto(s, "upsert")
  /\ UNCHANGED <<row, new, deps, direct, repo, committed, hand, clients, lost>>

Upsert(s) ==
  /\ pc[s] = "upsert"
  /\ direct' = direct \cup Direct[s]
  /\ Goto(s, "scan")
  /\ UNCHANGED <<row, new, deps, repo, committed, queue, clients, dropped, lost>>

(* finalize_extraction also removes what this run has not seen.             *)
FinalizeRpc(s) ==
  /\ pc[s] = "finalize"
  /\ NoteStep(s)
  /\ committed' = committed \cup {s}
  /\ direct' = Direct[s]
  /\ Goto(s, "mark")
  /\ UNCHANGED <<row, new, deps, queue, clients, dropped>>

(* Only a scan without new dependencies marks its job before the status.    *)
Mark(s) ==
  /\ pc[s] = "mark"
  /\ \/ new[s] = {} /\ row[s] = "processing" /\ SetRow(s, "completed")
     \/ UNCHANGED row
  /\ Goto(s, "write")
  /\ UNCHANGED <<new, deps, direct, repo, committed, queue, clients, dropped, lost>>

(* The status last; ast_parsed_at if the syntax trees were parsed.          *)
Write(s) ==
  /\ pc[s] = "write"
  /\ \E ast \in {repo.ast, TRUE} :
       repo' = [status |-> IF new[s] = {} THEN "ready" ELSE "analyzing",
                step |-> "completed", ast |-> ast]
  /\ Goto(s, "post")
  /\ UNCHANGED <<row, new, deps, direct, committed, queue, clients, dropped, lost>>

(* A stage throws or is out of time: setError, then the catch block of the  *)
(* worker.  After the insert nobody queues what was inserted.  A body that  *)
(* goes on when its time is up is one that throws later.                    *)
StageThrows(s) ==
  /\ pc[s] \in {"clone", "sbom", "read", "publish", "upsert", "scan", "finalize"}
  /\ dropped' = IF pc[s] = "publish" THEN dropped \cup new[s] ELSE dropped
  /\ Goto(s, "throw")
  /\ UNCHANGED <<row, new, deps, direct, repo, committed, queue, clients, lost>>

(* Mutant: the error of finalize_extraction is a warning.                   *)
SetErrorGoesOn(s) ==
  /\ pc[s] = "throw"
  /\ Goto(s, "write")
  /\ UNCHANGED <<row, new, deps, direct, repo, committed, queue, clients, dropped, lost>>

SetError(s) ==
  /\ pc[s] = "throw"
  /\ Show("error", "none")
  /\ Goto(s, "fail")
  /\ UNCHANGED <<row, new, deps, direct, committed, queue, clients, dropped, lost>>

(* processExtractionJob: one more look, then the write under the claim,     *)
(* which recovery and cancel leave in place; it may fail.                   *)
Post(s) ==
  /\ pc[s] \in {"post", "told"}
  /\ \E c \in {row[s] = "cancelled", pc[s] = "told"} : Goto(s, IF c THEN "fail" ELSE "done")
  /\ UNCHANGED <<row, new, deps, direct, repo, committed, queue, clients, dropped, lost>>

Finish(s) ==
  /\ pc[s] \in {"done", "fail"}
  /\ SetRow(s, IF pc[s] = "done" THEN "completed" ELSE "failed") \/ UNCHANGED row
  /\ Goto(s, "off")
  /\ UNCHANGED <<new, deps, direct, repo, committed, queue, clients, dropped, lost>>

-----------------------------------------------------------------------------
(* The machine is gone: a crash, a stop, the hard kill of the watchdog.     *)
(* What it had inserted and not yet queued, nobody queues again.            *)
Crash(s) ==
  /\ pc[s] # "off"
  /\ Goto(s, "off")
  /\ lost' = (lost \/ (Zombie(s) /\ pc[s] \notin {"start", "post", "told", "done", "fail"}))
  /\ dropped' = IF pc[s] = "publish" THEN dropped \cup new[s] ELSE dropped
  /\ UNCHANGED <<row, new, deps, direct, repo, committed, queue, clients>>

(* The soft stall writes the job, not the repository; the machine is gone   *)
(* within ten seconds, in which the pipeline may go on.                     *)
SoftStall(s) ==
  /\ pc[s] # "off" /\ row[s] # "failed"
  /\ SetRow(s, "failed")
  /\ lost' = TRUE
  /\ UNCHANGED <<pc, new, deps, direct, repo, committed, queue, clients, dropped>>

(* Mutant: the statement returns nothing to write about.                    *)
FailExhaustedSilent(s) ==
  /\ row[s] = "processing"
  /\ SetRow(s, "failed")
  /\ UNCHANGED <<pc, new, deps, direct, repo, committed, queue, clients, dropped, lost>>

(* The recovery cron: a worker that is dead, or silent for five minutes.    *)
FailExhausted(s) ==
  /\ row[s] = "processing"
  /\ SetRow(s, "failed")
  /\ notify' = notify \cup {s}
  /\ UNCHANGED <<pc, new, deps, direct, repo, committed, queue, con, canc, look, dropped, lost>>

Notify(s) ==
  /\ s \in notify
  /\ Show("error", "none")
  /\ notify' = notify \ {s}
  /\ UNCHANGED <<worker, deps, direct, committed, queue, con, canc, look, dropped, lost>>

NotifyDies ==
  /\ notify # {}
  /\ notify' = {} /\ lost' = TRUE
  /\ UNCHANGED <<worker, deps, direct, repo, committed, queue, con, canc, look, dropped>>

(* cancelExtractionJob: the row, then the repository.                       *)
CancelRow(s) ==
  /\ canc = Null /\ row[s] \in Active
  /\ SetRow(s, "cancelled")
  /\ canc' = s
  /\ UNCHANGED <<pc, new, deps, direct, repo, committed, queue, con, notify, look, dropped, lost>>

CancelRepo ==
  /\ canc # Null
  /\ Show("cancelled", "none")
  /\ canc' = Null
  /\ UNCHANGED <<worker, deps, direct, committed, queue, con, notify, look, dropped, lost>>

CancelDies ==
  /\ canc # Null
  /\ canc' = Null /\ lost' = TRUE
  /\ UNCHANGED <<worker, deps, direct, repo, committed, queue, con, notify, look, dropped>>

-----------------------------------------------------------------------------
(* Another project inserts a package and populates it, in time or never;    *)
(* its work on the row counts as one step.                                  *)
ElsewhereInserts(d) ==
  /\ dep[d] = "absent"
  /\ dep' = [dep EXCEPT ![d] = "pending"]
  /\ elsewhere' = elsewhere \cup {d}
  /\ UNCHANGED <<worker, direct, repo, committed, queue, clients, dropped, lost>>

ElsewherePopulates(d) ==
  /\ d \in elsewhere
  /\ \E v \in {"ready", "error"} : dep' = [dep EXCEPT ![d] = v]
  /\ elsewhere' = elsewhere \ {d}
  /\ UNCHANGED <<worker, direct, repo, committed, queue, clients, dropped, lost>>

(* Populate batches.                                                        *)
(* A delivery that fails is repeated until QStash gives the message up.     *)
Failed(m) ==
  /\ msg' = (msg \ {m}) \cup (IF m.tries < MaxTries
                               THEN {[m EXCEPT !.tries = @ + 1, !.out = FALSE]} ELSE {})
  /\ dropped' = IF m.tries < MaxTries THEN dropped ELSE dropped \cup m.deps

Deliver(m) ==
  /\ m \in msg /\ ~m.out /\ hand = NoBatch
  /\ msg' = (msg \ {m}) \cup {[m EXCEPT !.out = TRUE]}
  /\ hand' = [NoBatch EXCEPT !.pc = "run", !.deps = m.deps, !.left = m.deps]
  /\ UNCHANGED <<worker, deps, direct, repo, committed, clients, dropped, lost>>

(* Mutant: the busy endpoint answers 200.                                   *)
BusyAcked(m) ==
  /\ m \in msg /\ ~m.out /\ hand # NoBatch
  /\ msg' = msg \ {m}
  /\ UNCHANGED <<worker, deps, direct, repo, committed, hand, clients, dropped, lost>>

(* populateDependenciesInFlight: 503, and QStash comes again.               *)
Busy(m) ==
  /\ m \in msg /\ ~m.out /\ hand # NoBatch
  /\ Failed(m)
  /\ UNCHANGED <<worker, deps, direct, repo, committed, hand, clients, lost>>

(* QStash waits no longer for a handler that is still at work.              *)
TimesOut(m) ==
  /\ m \in msg /\ m.out
  /\ Failed(m)
  /\ UNCHANGED <<worker, deps, direct, repo, committed, hand, clients, lost>>

(* populateSingleDependency, from the first write to the last.              *)
Populate(d) ==
  /\ hand.pc = "run" /\ hand.now = Null /\ d \in hand.left
  /\ dep' = [dep EXCEPT ![d] = "analyzing"]
  /\ hand' = [hand EXCEPT !.now = d, !.left = @ \ {d}]
  /\ UNCHANGED <<worker, elsewhere, direct, repo, committed, msg, clients, dropped, lost>>

Populated ==
  /\ hand.now # Null
  /\ \E ok \in BOOLEAN :
       /\ dep' = [dep EXCEPT ![hand.now] = IF ok THEN "ready" ELSE "error"]
       /\ hand' = [hand EXCEPT !.now = Null, !.good = @ \/ ok]
  /\ UNCHANGED <<worker, elsewhere, direct, repo, committed, msg, clients, dropped, lost>>

(* With one success the policies are evaluated, which may throw.            *)
Evaluate ==
  /\ hand.pc = "run" /\ hand.now = Null /\ hand.left = {}
  /\ \E next \in {"reply"} \cup (IF hand.good THEN {"write"} ELSE {}) :
       hand' = [hand EXCEPT !.pc = next]
  /\ UNCHANGED <<worker, deps, direct, repo, committed, msg, clients, dropped, lost>>

BatchReady ==
  /\ hand.pc = "write"
  /\ Show("ready", "completed")
  /\ hand' = [hand EXCEPT !.pc = "reply"]
  /\ UNCHANGED <<worker, deps, direct, committed, msg, clients, dropped, lost>>

(* 200 even if every dependency has failed.  A reply nobody waits for is    *)
(* not heard.                                                               *)
Reply ==
  /\ hand.pc = "reply"
  /\ msg' = {m \in msg : ~(m.out /\ m.deps = hand.deps)}
  /\ hand' = NoBatch
  /\ UNCHANGED <<worker, deps, direct, repo, committed, clients, dropped, lost>>

(* The process dies, and the flag with it; QStash sees a failed delivery.   *)
BatchDies ==
  /\ hand # NoBatch
  /\ hand' = NoBatch
  /\ \/ \E m \in msg : m.out /\ Failed(m)
     \/ ~(\E m \in msg : m.out) /\ UNCHANGED <<msg, dropped>>
  /\ UNCHANGED <<worker, deps, direct, repo, committed, clients, lost>>

-----------------------------------------------------------------------------
(* GET import-status: the repository, the statuses of the dependencies, and *)
(* if all are ready, a write.                                               *)
LookRepo ==
  /\ look.pc = "idle"
  /\ look' = [pc |-> "deps", ast |-> repo.ast]
  /\ UNCHANGED <<worker, deps, direct, repo, committed, queue, con, notify, canc, dropped, lost>>

AllReady == direct # {} /\ \A d \in direct : dep[d] = "ready"

LookDeps ==
  /\ look.pc = "deps"
  /\ look' = IF AllReady THEN [look EXCEPT !.pc = "write"] ELSE NoLook
  /\ UNCHANGED <<worker, deps, direct, repo, committed, queue, con, notify, canc, dropped, lost>>

LookWrite ==
  /\ look.pc = "write"
  /\ IF look.ast THEN Show("ready", "completed") ELSE Show("finalizing", repo.step)
  /\ look' = NoLook
  /\ UNCHANGED <<worker, deps, direct, committed, queue, con, notify, canc, dropped, lost>>

-----------------------------------------------------------------------------
Pipeline(s) ==
  \/ Start(s) \/ Clone(s) \/ Sbom(s) \/ ReadKnown(s) \/ Insert(s) \/ InsertThrows(s)
  \/ Publish(s) \/ Upsert(s) \/ Stages(s) \/ FinalizeRpc(s) \/ Mark(s) \/ Write(s)
  \/ StageThrows(s) \/ SetError(s) \/ Post(s) \/ Finish(s) \/ Crash(s)

Handler == \E d \in Deps : Populate(d)
             \/ Populated \/ Evaluate \/ BatchReady \/ Reply \/ BatchDies

Next ==
  \/ \E s \in Scans :
       \/ Rescan(s) \/ Claim(s) \/ Pipeline(s) \/ SoftStall(s)
       \/ FailExhausted(s) \/ Notify(s) \/ CancelRow(s)
  \/ ConnectCheck \/ ConnectRepo \/ ConnectQueue \/ ConnectDies
  \/ NotifyDies \/ CancelRepo \/ CancelDies
  \/ \E d \in Deps : ElsewhereInserts(d) \/ ElsewherePopulates(d)
  \/ \E m \in msg : Deliver(m) \/ Busy(m) \/ TimesOut(m)
  \/ Handler
  \/ LookRepo \/ LookDeps \/ LookWrite

Spec == Init /\ [][Next]_vars

(* A request that connects goes on or dies, machines are dispatched for     *)
(* queued jobs, pipelines end or recovery ends their jobs, requests and     *)
(* handlers go on, QStash delivers.  Nothing is assumed of users or of      *)
(* other projects.                                                          *)
Fairness ==
  /\ WF_vars(ConnectRepo \/ ConnectQueue \/ ConnectDies)
  /\ \A s \in Scans :
       /\ WF_vars(Claim(s) \/ Pipeline(s) \/ FailExhausted(s))
       /\ WF_vars(Notify(s))
  /\ WF_vars(CancelRepo)
  /\ WF_vars(Handler) /\ WF_vars(\E m \in msg : Deliver(m))

FairSpec == Spec /\ Fairness

-----------------------------------------------------------------------------
(* Properties.                                                              *)

(* isExtractionOngoing of the frontend.                                     *)
Ongoing ==
  /\ repo.status \in {"initializing", "extracting", "analyzing", "finalizing"}
  /\ ~(repo.status = "analyzing" /\ repo.step = "completed")

(* A project does not show a scan for ever, whatever crashes: the pipeline, *)
(* or recovery in its place, writes an end.  The exceptions: the writer     *)
(* itself was lost (a soft stall; a connect, cancel or recovery request     *)
(* that died between its two writes; a pipeline that goes on after its job  *)
(* was over), and 'finalizing', which waits for a parse that nobody repeats.*)
StatusSettles == Ongoing ~> ~Ongoing \/ lost \/ repo.status = "finalizing"

(* The worker's verdict comes after the commit: 'analyzing' means that a    *)
(* run is visible, and 'ready' without one comes from the populate batches  *)
(* or the import status, after a dependency was worked on.                  *)
ReadyIsFounded ==
  committed = {} =>
    /\ repo.status # "analyzing"
    /\ repo.status = "ready" => \E d \in Deps : dep[d] \notin {"absent", "pending"}

(* Whatever the handler and QStash do, a new dependency is populated.  The  *)
(* exceptions, none of which a later scan repairs, since it takes the row   *)
(* for known: a transitive dependency, which is never queued; a stage or a  *)
(* machine that ended between the insert and the queue; a batch that could  *)
(* not be queued or that QStash gave up; and a row that waits for the       *)
(* project that has inserted it.                                            *)
DepsSettle ==
  \A d \in Deps :
    dep[d] \in {"pending", "analyzing"}
      ~> dep[d] \in {"ready", "error"} \/ d \in dropped \/ d \in elsewhere

=============================================================================
