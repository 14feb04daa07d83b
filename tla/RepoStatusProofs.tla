-------------------------- MODULE RepoStatusProofs --------------------------
(***************************************************************************)
(* What a project shows, for any scans, dependencies, batches and retries. *)
(***************************************************************************)
EXTENDS RepoStatus, FiniteSetTheorems, TLAPS

Statuses == {"initializing", "extracting", "analyzing", "finalizing", "ready", "error",
             "cancelled"}
DepStates == {"absent", "pending", "analyzing", "ready", "error"}
Pcs == {"off", "start", "clone", "sbom", "read", "insert", "publish", "upsert", "scan",
        "finalize", "mark", "write", "post", "told", "done", "throw", "fail"}
MsgType == [deps : SUBSET Deps, tries : 0..MaxTries, out : BOOLEAN]

RowsTyped ==
  /\ row \in [Scans -> Active \cup {"absent", "completed", "failed", "cancelled"}]
  /\ pc \in [Scans -> Pcs]
  /\ new \in [Scans -> SUBSET Deps]
DepsTyped ==
  dep \in [Deps -> DepStates] /\ elsewhere \subseteq Deps /\ direct \subseteq Deps
RepoTyped ==
  repo \in [status : Statuses, step : {"none", "working", "completed"}, ast : BOOLEAN]
MsgTyped == msg \subseteq MsgType /\ \A m \in msg : Cardinality(m.deps) \in 1..BatchSize
HandTyped ==
  hand \in [deps : SUBSET Deps, left : SUBSET Deps, now : Deps \cup {Null},
            good : BOOLEAN, pc : {"idle", "run", "write", "reply"}]
RestTyped ==
  /\ committed \subseteq Scans /\ con \in {"no", "upsert", "queue"}
  /\ notify \subseteq Scans /\ canc \in Scans \cup {Null}
  /\ look \in [pc : {"idle", "deps", "write"}, ast : BOOLEAN]
  /\ dropped \subseteq Deps /\ lost \in BOOLEAN

Typed == RowsTyped /\ DepsTyped /\ RepoTyped /\ MsgTyped /\ HandTyped /\ RestTyped

(* doDepsSync links a scan to rows that exist: the ones it has read and the *)
(* ones it has inserted.                                                    *)
Present(D) == \A d \in D : dep[d] # "absent"
Linked(s) ==
  /\ pc[s] = "insert" => Present(Wants[s] \ new[s])
  /\ pc[s] \in {"publish", "upsert", "scan", "finalize"} => Present(Wants[s])
Links == Present(elsewhere) /\ Present(direct) /\ \A s \in Scans : Linked(s)

(* Somebody has worked on a dependency; the writers of ready other than the *)
(* pipeline know that, and the pipeline knows of its commit.                *)
Worked == \E d \in Deps : dep[d] \notin {"absent", "pending"}
Reasons ==
  /\ \A s \in Scans : pc[s] \in {"mark", "write"} => s \in committed
  /\ hand.good \/ hand.pc = "write" \/ look.pc = "write" => Worked
Founded == committed = {} => repo.status # "analyzing" /\ (repo.status = "ready" => Worked)

IInv == Typed /\ Links /\ Reasons /\ Founded

LEMMA TypeParts == IInv => TypeOK
BY DEF IInv, Typed, RowsTyped, DepsTyped, RepoTyped, MsgTyped, HandTyped, RestTyped, Links,
       Present, Statuses, DepStates, Pcs, MsgType, TypeOK

-----------------------------------------------------------------------------
(* The table of dependencies only grows, and work on it stays.              *)
Grows ==
  /\ dep' \in [Deps -> DepStates]
  /\ \A d \in Deps : dep[d] # "absent" => dep'[d] # "absent"
  /\ Worked => Worked'

LEMMA SameGrows == ASSUME DepsTyped, UNCHANGED dep PROVE Grows
BY DEF DepsTyped, Grows, Worked

LEMMA PresentStays ==
  ASSUME Grows, NEW D \in SUBSET Deps, Present(D)
  PROVE  \A d \in D : dep'[d] # "absent"
BY DEF Grows, Present

(* A step that leaves a scan's pipeline or takes it past the links.         *)
LEMMA LinkedStays ==
  ASSUME RowsTyped, Grows, NEW s \in Scans, Linked(s),
         new'[s] = new[s],
         \/ pc'[s] = pc[s]
         \/ pc'[s] \notin {"insert", "publish", "upsert", "scan", "finalize"}
         \/ pc[s] \in {"publish", "upsert", "scan"} /\ pc'[s] \in {"upsert", "scan", "finalize"}
  PROVE  Linked(s)'
<1>1. Wants[s] \in SUBSET Deps /\ Wants[s] \ new[s] \in SUBSET Deps
  BY RepoAssumption
<1> QED BY <1>1, PresentStays DEF Linked, Present

(* A step of one pipeline: the others stay where they are.                  *)
LEMMA PcMoves ==
  ASSUME RowsTyped, NEW s \in Scans, NEW p \in Pcs, Goto(s, p)
  PROVE  /\ pc' \in [Scans -> Pcs] /\ pc'[s] = p
         /\ \A t \in Scans \ {s} : pc'[t] = pc[t]
BY DEF RowsTyped, Goto

LEMMA RowMoves ==
  ASSUME RowsTyped, NEW s \in Scans,
         NEW v \in Active \cup {"absent", "completed", "failed", "cancelled"}, SetRow(s, v)
  PROVE  row' \in [Scans -> Active \cup {"absent", "completed", "failed", "cancelled"}]
BY DEF RowsTyped, SetRow

LEMMA ShowMoves ==
  ASSUME RepoTyped, NEW st \in Statuses, NEW step \in {"none", "working", "completed"},
         Show(st, step)
  PROVE  RepoTyped' /\ repo'.status = st
BY DEF RepoTyped, Show

LEMMA InitIInv == Init => IInv
<1> SUFFICES ASSUME Init PROVE IInv
  OBVIOUS
<1>1. RowsTyped /\ DepsTyped /\ RepoTyped /\ RestTyped
  BY DEF Init, RowsTyped, DepsTyped, RepoTyped, RestTyped, Pcs, DepStates, Statuses, NoLook
<1>2. MsgTyped /\ HandTyped
  BY DEF Init, MsgTyped, HandTyped, NoBatch
<1>3. Links /\ Reasons /\ Founded
  BY DEF Init, Links, Linked, Present, Reasons, Founded, NoBatch, NoLook
<1> QED BY <1>1, <1>2, <1>3 DEF IInv, Typed

-----------------------------------------------------------------------------
(* Steps of a pipeline.                                                     *)

RowStatuses == Active \cup {"absent", "completed", "failed", "cancelled"}

(* A step that moves one pipeline, leaves the dependencies and the other    *)
(* writers alone, and says of the rest that it is in order.                 *)
LEMMA PipeStep ==
  ASSUME IInv, NEW s \in Scans, NEW p \in Pcs, Goto(s, p),
         \/ p \notin {"insert", "publish", "upsert", "scan", "finalize"}
         \/ pc[s] \in {"publish", "upsert", "scan"} /\ p \in {"upsert", "scan", "finalize"},
         p \in {"mark", "write"} => s \in committed',
         UNCHANGED <<new, dep, elsewhere, hand, look>>,
         row' \in [Scans -> RowStatuses],
         direct' \subseteq Deps, Present(direct'),
         committed \subseteq committed',
         RepoTyped', MsgTyped', RestTyped', Founded'
  PROVE  IInv'
<1>1. RowsTyped /\ Links /\ Reasons /\ HandTyped
  BY DEF IInv, Typed
<1>2. /\ pc' \in [Scans -> Pcs] /\ pc'[s] = p
      /\ \A t \in Scans \ {s} : pc'[t] = pc[t]
  BY <1>1, PcMoves
<1>3. Grows
  BY SameGrows DEF IInv, Typed
<1>4. \A t \in Scans : Linked(t)'
  BY <1>1, <1>2, <1>3, LinkedStays DEF Links
<1>5. Links'
  BY <1>1, <1>4 DEF Links, Present
<1>6. Reasons'
  BY <1>1, <1>2 DEF Reasons, Worked
<1>7. RowsTyped' /\ DepsTyped' /\ HandTyped'
  BY <1>1, <1>2 DEF RowsTyped, DepsTyped, HandTyped, IInv, Typed, RowStatuses
<1> QED BY <1>5, <1>6, <1>7 DEF IInv, Typed

LEMMA LookAtRowStep ==
  ASSUME IInv, NEW s \in Scans, NEW here \in Pcs, NEW next \in Pcs,
         LookAtRow(s, here, next),
         \/ next \notin {"insert", "publish", "upsert", "scan", "finalize"}
         \/ here = "scan" /\ next = "finalize",
         next \notin {"mark", "write"}
  PROVE  IInv'
<1>1. /\ pc[s] = here
      /\ UNCHANGED <<row, new, dep, elsewhere, direct, repo, committed, queue, clients,
                     dropped, lost>>
  BY DEF LookAtRow, deps
<1>2. UNCHANGED <<msg, hand, con, notify, canc, look>>
  BY <1>1 DEF deps, queue, clients
<1>3. PICK p \in {"told", next} : Goto(s, p)
  BY DEF LookAtRow
<1>4. p \in Pcs
  BY DEF Pcs
<1>5. /\ row' \in [Scans -> RowStatuses] /\ direct' \subseteq Deps /\ Present(direct')
      /\ RepoTyped' /\ MsgTyped' /\ RestTyped' /\ Founded'
  BY <1>1, <1>2 DEF IInv, Typed, RowsTyped, DepsTyped, RepoTyped, MsgTyped, RestTyped, Founded,
     Worked, Links, RowStatuses
<1> QED BY <1>1, <1>2, <1>3, <1>4, <1>5, PipeStep

LEMMA CloneStep == ASSUME IInv, NEW s \in Scans, Clone(s) PROVE IInv'
<1>1. /\ Goto(s, "sbom") /\ Show("extracting", "working") /\ lost' = Zombie(s)
      /\ UNCHANGED <<row, new, dep, elsewhere, direct, committed, msg, hand, con, notify,
                     canc, look, dropped>>
  BY DEF Clone, deps, queue, clients
<1>2. RepoTyped' /\ repo'.status = "extracting"
  BY <1>1, ShowMoves DEF IInv, Typed, Statuses
<1>3. /\ row' \in [Scans -> RowStatuses] /\ direct' \subseteq Deps /\ Present(direct')
      /\ MsgTyped' /\ RestTyped' /\ Founded'
  BY <1>1, <1>2 DEF IInv, Typed, RowsTyped, DepsTyped, MsgTyped, RestTyped, Founded,
     Links, RowStatuses, Zombie
<1> QED BY <1>1, <1>2, <1>3, PipeStep DEF Pcs

LEMMA NoteStepKeeps ==
  ASSUME IInv, NEW s \in Scans, NoteStep(s)
  PROVE  RepoTyped' /\ repo'.status = repo.status /\ lost' \in BOOLEAN
BY DEF IInv, Typed, RepoTyped, RestTyped, NoteStep, Zombie

LEMMA ReadKnownStep == ASSUME IInv, NEW s \in Scans, ReadKnown(s) PROVE IInv'
<1>1. /\ Goto(s, "insert") /\ NoteStep(s)
      /\ UNCHANGED <<row, dep, elsewhere, direct, committed, msg, hand, con, notify, canc,
                     look, dropped>>
  BY DEF ReadKnown, deps, queue, clients
<1>2. RowsTyped /\ DepsTyped /\ Links /\ Reasons /\ Wants[s] \subseteq Deps
  BY RepoAssumption DEF IInv, Typed
<1>3. /\ pc' \in [Scans -> Pcs] /\ pc'[s] = "insert"
      /\ \A t \in Scans \ {s} : pc'[t] = pc[t]
  BY <1>1, <1>2, PcMoves DEF Pcs
<1>4. PICK F \in {{}, Wants[s]} :
        /\ new' \in [Scans -> SUBSET Deps]
        /\ new'[s] = {d \in Wants[s] : dep[d] = "absent" \/ d \in F}
        /\ \A t \in Scans \ {s} : new'[t] = new[t]
  BY <1>2 DEF RowsTyped, ReadKnown
<1>5. \A t \in Scans : Linked(t)'
  <2>1. Linked(s)'
    BY <1>1, <1>2, <1>3, <1>4 DEF Linked, Present
  <2>2. ASSUME NEW t \in Scans \ {s} PROVE Linked(t)'
    BY <1>1, <1>2, <1>3, <1>4 DEF Links, Linked, Present
  <2> QED BY <2>1, <2>2
<1>6. Links'
  BY <1>1, <1>2, <1>5 DEF Links, Present
<1>7. Reasons'
  BY <1>1, <1>2, <1>3 DEF Reasons, Worked
<1>8. RepoTyped' /\ repo'.status = repo.status /\ lost' \in BOOLEAN
  BY <1>1, NoteStepKeeps
<1>9. RowsTyped' /\ DepsTyped' /\ MsgTyped' /\ HandTyped' /\ RestTyped' /\ Founded'
  BY <1>1, <1>3, <1>4, <1>8 DEF IInv, Typed, RowsTyped, DepsTyped, MsgTyped, HandTyped,
     RestTyped, Founded, Worked
<1> QED BY <1>6, <1>7, <1>8, <1>9 DEF IInv, Typed

(* Rows that are inserted: the table grows.                                 *)
LEMMA InsertGrows ==
  ASSUME IInv, NEW D \in SUBSET Deps, \A d \in D : dep[d] = "absent",
         dep' = [d \in Deps |-> IF d \in D THEN "pending" ELSE dep[d]]
  PROVE  Grows /\ \A d \in Deps : dep'[d] = IF d \in D THEN "pending" ELSE dep[d]
<1>1. dep' \in [Deps -> DepStates]
  BY DEF IInv, Typed, DepsTyped, DepStates
<1>2. \A d \in Deps : dep'[d] = IF d \in D THEN "pending" ELSE dep[d]
  OBVIOUS
<1>3. Worked => Worked'
  BY <1>2 DEF Worked
<1> QED BY <1>1, <1>2, <1>3 DEF Grows

LEMMA InsertedStep ==
  ASSUME IInv, NEW s \in Scans, NEW p \in Pcs \ {"mark", "write"}, Goto(s, p), Grows,
         UNCHANGED <<row, elsewhere, direct, repo, committed, msg, hand, con, notify, canc,
                     look, lost>>,
         new' \in [Scans -> SUBSET Deps], \A t \in Scans \ {s} : new'[t] = new[t],
         Linked(s)', dropped' \subseteq Deps
  PROVE  IInv'
<1>1. RowsTyped /\ DepsTyped /\ Links /\ Reasons
  BY DEF IInv, Typed
<1>2. /\ pc' \in [Scans -> Pcs] /\ pc'[s] = p
      /\ \A t \in Scans \ {s} : pc'[t] = pc[t]
  BY <1>1, PcMoves
<1>3. \A t \in Scans \ {s} : Linked(t)'
  BY <1>1, <1>2, LinkedStays DEF Links
<1>4. Present(elsewhere)' /\ Present(direct)'
  BY <1>1, PresentStays DEF Links, Present, DepsTyped
<1>5. Links'
  BY <1>3, <1>4 DEF Links
<1>6. Reasons' /\ Founded'
  BY <1>1, <1>2 DEF Reasons, Founded, Grows, IInv
<1>7. RowsTyped' /\ DepsTyped' /\ RepoTyped' /\ MsgTyped' /\ HandTyped' /\ RestTyped'
  BY <1>1, <1>2 DEF IInv, Typed, RowsTyped, DepsTyped, RepoTyped, MsgTyped, HandTyped,
     RestTyped, Grows
<1> QED BY <1>5, <1>6, <1>7 DEF IInv, Typed

LEMMA InsertStep == ASSUME IInv, NEW s \in Scans, Insert(s) PROVE IInv'
<1>1. /\ pc[s] = "insert" /\ \A d \in new[s] : dep[d] = "absent"
      /\ dep' = [d \in Deps |-> IF d \in new[s] THEN "pending" ELSE dep[d]]
      /\ new' = [new EXCEPT ![s] = new[s] \cap Direct[s]]
      /\ dropped' = dropped \cup (new[s] \ Direct[s])
      /\ UNCHANGED <<row, elsewhere, direct, repo, committed, msg, hand, con, notify, canc,
                     look, lost>>
  BY DEF Insert, queue, clients
<1>2. PICK p \in {"upsert", "publish"} : Goto(s, p)
  BY DEF Insert
<1>3. /\ new \in [Scans -> SUBSET Deps] /\ pc \in [Scans -> Pcs]
      /\ new[s] \subseteq Deps /\ Wants[s] \subseteq Deps
  BY RepoAssumption DEF IInv, Typed, RowsTyped
<1>4. Grows /\ \A d \in Deps : dep'[d] = IF d \in new[s] THEN "pending" ELSE dep[d]
  BY <1>1, <1>3, InsertGrows
<1>5. new' \in [Scans -> SUBSET Deps] /\ \A t \in Scans \ {s} : new'[t] = new[t]
  BY <1>1, <1>3
<1>6. Present(Wants[s] \ new[s])
  BY <1>1 DEF IInv, Links, Linked
<1>7. Linked(s)'
  BY <1>2, <1>3, <1>4, <1>6 DEF Linked, Present, Goto
<1>8. dropped' \subseteq Deps
  BY <1>1, <1>3 DEF IInv, Typed, RestTyped
<1>9. p \in Pcs \ {"mark", "write"}
  BY DEF Pcs
<1> QED BY <1>1, <1>2, <1>4, <1>5, <1>7, <1>8, <1>9, InsertedStep

LEMMA InsertThrowsStep == ASSUME IInv, NEW s \in Scans, InsertThrows(s) PROVE IInv'
<1>1. PICK D \in SUBSET {d \in new[s] : dep[d] = "absent"} :
        /\ dep' = [d \in Deps |-> IF d \in D THEN "pending" ELSE dep[d]]
        /\ dropped' = dropped \cup D
  BY DEF InsertThrows
<1>2. /\ Goto(s, "throw")
      /\ UNCHANGED <<row, new, elsewhere, direct, repo, committed, msg, hand, con, notify,
                     canc, look, lost>>
  BY DEF InsertThrows, queue, clients
<1>3. /\ new \in [Scans -> SUBSET Deps] /\ pc \in [Scans -> Pcs] /\ D \subseteq Deps
  BY DEF IInv, Typed, RowsTyped
<1>4. Grows
  BY <1>1, <1>3, InsertGrows
<1>5. Linked(s)'
  BY <1>2, <1>3 DEF Linked, Goto
<1>6. dropped' \subseteq Deps
  BY <1>1, <1>3 DEF IInv, Typed, RestTyped
<1> QED BY <1>2, <1>3, <1>4, <1>5, <1>6, InsertedStep DEF Pcs

LEMMA PublishStep == ASSUME IInv, NEW s \in Scans, Publish(s) PROVE IInv'
<1>1. /\ pc[s] = "publish" /\ Goto(s, "upsert")
      /\ UNCHANGED <<row, new, dep, elsewhere, direct, repo, committed, hand, con, notify,
                     canc, look, lost>>
  BY DEF Publish, deps, clients
<1>2. PICK P \in Batches(new[s]) : \E Q \in SUBSET P :
        /\ msg' = msg \cup {Message(B) : B \in Q}
        /\ dropped' = dropped \cup UNION (P \ Q)
  BY DEF Publish
<1>3. PICK Q \in SUBSET P :
        /\ msg' = msg \cup {Message(B) : B \in Q}
        /\ dropped' = dropped \cup UNION (P \ Q)
  BY <1>2
<1>4. new[s] \subseteq Deps
  BY DEF IInv, Typed, RowsTyped
<1>5. \A B \in P : B \subseteq Deps /\ Cardinality(B) \in 1..BatchSize
  BY <1>2, <1>4 DEF Batches
<1>6. MsgTyped'
  <2>1. ASSUME NEW m \in msg' PROVE m \in MsgType /\ Cardinality(m.deps) \in 1..BatchSize
    <3>1. CASE m \in msg
      BY <3>1 DEF IInv, Typed, MsgTyped
    <3>2. CASE m \notin msg
      <4>1. PICK B \in Q : m = Message(B)
        BY <1>3, <3>2, <2>1
      <4>2. m = [deps |-> B, tries |-> 0, out |-> FALSE] /\ 0 \in 0..MaxTries
        BY <4>1, RepoAssumption DEF Message
      <4> QED BY <1>5, <4>2 DEF MsgType
    <3> QED BY <3>1, <3>2
  <2> QED BY <2>1 DEF MsgTyped
<1>7. dropped' \subseteq Deps
  BY <1>3, <1>5 DEF IInv, Typed, RestTyped
<1>8. /\ row' \in [Scans -> RowStatuses] /\ direct' \subseteq Deps /\ Present(direct')
      /\ RepoTyped' /\ RestTyped' /\ Founded'
  BY <1>1, <1>7 DEF IInv, Typed, RowsTyped, DepsTyped, RepoTyped, RestTyped, Founded, Worked,
     Links, RowStatuses
<1> QED BY <1>1, <1>6, <1>8, PipeStep DEF Pcs

LEMMA UpsertStep == ASSUME IInv, NEW s \in Scans, Upsert(s) PROVE IInv'
<1>1. /\ pc[s] = "upsert" /\ Goto(s, "scan") /\ direct' = direct \cup Direct[s]
      /\ UNCHANGED <<row, new, dep, elsewhere, repo, committed, msg, hand, con, notify, canc,
                     look, dropped, lost>>
  BY DEF Upsert, deps, queue, clients
<1>2. Present(direct') /\ direct' \subseteq Deps
  BY <1>1, RepoAssumption DEF IInv, Typed, DepsTyped, Links, Linked, Present
<1>3. /\ row' \in [Scans -> RowStatuses]
      /\ RepoTyped' /\ MsgTyped' /\ RestTyped' /\ Founded'
  BY <1>1 DEF IInv, Typed, RowsTyped, RepoTyped, MsgTyped, RestTyped, Founded, Worked,
     RowStatuses
<1> QED BY <1>1, <1>2, <1>3, PipeStep DEF Pcs

LEMMA FinalizeStep == ASSUME IInv, NEW s \in Scans, FinalizeRpc(s) PROVE IInv'
<1>1. /\ pc[s] = "finalize" /\ Goto(s, "mark") /\ NoteStep(s)
      /\ direct' = Direct[s] /\ committed' = committed \cup {s}
      /\ UNCHANGED <<row, new, dep, elsewhere, msg, hand, con, notify, canc, look, dropped>>
  BY DEF FinalizeRpc, deps, queue, clients
<1>2. Present(direct') /\ direct' \subseteq Deps
  BY <1>1, RepoAssumption DEF IInv, Links, Linked, Present
<1>3. RepoTyped' /\ repo'.status = repo.status /\ lost' \in BOOLEAN
  BY <1>1, NoteStepKeeps
<1>4. row' \in [Scans -> RowStatuses] /\ MsgTyped' /\ RestTyped' /\ Founded'
  BY <1>1, <1>3 DEF IInv, Typed, RowsTyped, MsgTyped, RestTyped, Founded, RowStatuses
<1> QED BY <1>1, <1>2, <1>3, <1>4, PipeStep DEF Pcs

LEMMA MarkStep == ASSUME IInv, NEW s \in Scans, Mark(s) PROVE IInv'
<1>1. /\ pc[s] = "mark" /\ Goto(s, "write")
      /\ UNCHANGED <<new, dep, elsewhere, direct, repo, committed, msg, hand, con, notify,
                     canc, look, dropped, lost>>
  BY DEF Mark, deps, queue, clients
<1>2. row' \in [Scans -> RowStatuses]
  BY RowMoves DEF Mark, IInv, Typed, RowsTyped, RowStatuses
<1>3. s \in committed
  BY <1>1 DEF IInv, Reasons
<1>4. /\ direct' \subseteq Deps /\ Present(direct')
      /\ RepoTyped' /\ MsgTyped' /\ RestTyped' /\ Founded'
  BY <1>1 DEF IInv, Typed, DepsTyped, RepoTyped, MsgTyped, RestTyped, Founded, Worked, Links
<1> QED BY <1>1, <1>2, <1>3, <1>4, PipeStep DEF Pcs

LEMMA WriteStep == ASSUME IInv, NEW s \in Scans, Write(s) PROVE IInv'
<1>1. /\ pc[s] = "write" /\ Goto(s, "post")
      /\ UNCHANGED <<row, new, dep, elsewhere, direct, committed, msg, hand, con, notify,
                     canc, look, dropped, lost>>
  BY DEF Write, deps, queue, clients
<1>2. PICK ast \in {repo.ast, TRUE} :
        repo' = [status |-> IF new[s] = {} THEN "ready" ELSE "analyzing",
                 step |-> "completed", ast |-> ast]
  BY DEF Write
<1>3. RepoTyped'
  BY <1>2 DEF IInv, Typed, RepoTyped, Statuses
<1>4. committed # {}
  BY <1>1 DEF IInv, Reasons
<1>5. /\ row' \in [Scans -> RowStatuses] /\ direct' \subseteq Deps /\ Present(direct')
      /\ MsgTyped' /\ RestTyped' /\ Founded'
  BY <1>1, <1>4 DEF IInv, Typed, RowsTyped, DepsTyped, MsgTyped, RestTyped, Founded, Links,
     RowStatuses
<1> QED BY <1>1, <1>3, <1>5, PipeStep DEF Pcs

(* A step of a pipeline that ends, and writes its row or the repository.    *)
LEMMA EndStep ==
  ASSUME IInv, NEW s \in Scans,
         StageThrows(s) \/ SetError(s) \/ Post(s) \/ Finish(s) \/ Crash(s)
  PROVE  IInv'
<1>1. UNCHANGED <<new, dep, elsewhere, direct, committed, msg, hand, con, notify, canc, look>>
  BY DEF StageThrows, SetError, Post, Finish, Crash, deps, queue, clients
<1>2. PICK p \in {"throw", "fail", "done", "off"} : Goto(s, p)
  BY DEF StageThrows, SetError, Post, Finish, Crash
<1>3. row' \in [Scans -> RowStatuses]
  <2>1. CASE Finish(s)
    BY <2>1, RowMoves DEF Finish, IInv, Typed, RowsTyped, RowStatuses
  <2>2. CASE ~Finish(s)
    BY <2>2 DEF StageThrows, SetError, Post, Crash, IInv, Typed, RowsTyped, RowStatuses
  <2> QED BY <2>1, <2>2
<1>4. RepoTyped' /\ (repo'.status = "error" \/ UNCHANGED repo)
  <2>1. CASE SetError(s)
    BY <2>1, ShowMoves DEF SetError, IInv, Typed, Statuses
  <2>2. CASE ~SetError(s)
    BY <2>2 DEF StageThrows, Post, Finish, Crash, IInv, Typed, RepoTyped
  <2> QED BY <2>1, <2>2
<1>5. RestTyped'
  <2>1. dropped' \subseteq Deps
    BY DEF StageThrows, SetError, Post, Finish, Crash, IInv, Typed, RestTyped, RowsTyped
  <2>2. lost' \in BOOLEAN
    BY DEF StageThrows, SetError, Post, Finish, Crash, IInv, Typed, RestTyped, Zombie
  <2> QED BY <1>1, <2>1, <2>2 DEF IInv, Typed, RestTyped
<1>6. direct' \subseteq Deps /\ Present(direct') /\ MsgTyped' /\ Founded'
  BY <1>1, <1>4 DEF IInv, Typed, DepsTyped, MsgTyped, Founded, Worked, Links
<1> QED BY <1>1, <1>2, <1>3, <1>4, <1>5, <1>6, PipeStep DEF Pcs

LEMMA PipelineStep == ASSUME IInv, NEW s \in Scans, Pipeline(s) PROVE IInv'
<1>1. CASE Start(s) \/ Sbom(s) \/ Stages(s)
  BY <1>1, LookAtRowStep DEF Start, Sbom, Stages, Pcs
<1>2. CASE StageThrows(s) \/ SetError(s) \/ Post(s) \/ Finish(s) \/ Crash(s)
  BY <1>2, EndStep
<1> QED BY <1>1, <1>2, CloneStep, ReadKnownStep, InsertStep, InsertThrowsStep, PublishStep,
   UpsertStep,
          FinalizeStep, MarkStep, WriteStep DEF Pipeline

-----------------------------------------------------------------------------
(* The other writers.                                                       *)

(* A step that leaves the pipelines where they are.                         *)
LEMMA OtherStep ==
  ASSUME IInv, UNCHANGED <<pc, new, direct>>, Grows,
         \/ UNCHANGED elsewhere
         \/ elsewhere' \subseteq Deps /\ \A d \in elsewhere' : dep'[d] # "absent",
         row' \in [Scans -> RowStatuses],
         RepoTyped', MsgTyped', HandTyped', RestTyped', Reasons', Founded'
  PROVE  IInv'
<1>1. RowsTyped /\ DepsTyped /\ Links
  BY DEF IInv, Typed
<1>2. \A t \in Scans : Linked(t)'
  BY <1>1, LinkedStays DEF Links
<1>3. Present(direct)' /\ Present(elsewhere)'
  BY <1>1, PresentStays DEF Links, Present, DepsTyped
<1>4. RowsTyped' /\ DepsTyped'
  BY <1>1 DEF RowsTyped, DepsTyped, Grows, RowStatuses
<1> QED BY <1>2, <1>3, <1>4 DEF IInv, Typed, Links

(* A step that also leaves the dependencies, the handler and the look, and  *)
(* shows nothing but an error, a cancel or a connect.                       *)
LEMMA RequestStep ==
  ASSUME IInv, UNCHANGED <<pc, new, direct, dep, elsewhere, committed, msg, hand, look>>,
         row' \in [Scans -> RowStatuses], RestTyped', RepoTyped',
         UNCHANGED repo \/ repo'.status \in {"error", "cancelled", "initializing"}
  PROVE  IInv'
<1>1. Grows
  BY SameGrows DEF IInv, Typed
<1>2. MsgTyped' /\ HandTyped'
  BY DEF IInv, Typed, MsgTyped, HandTyped
<1>3. Reasons' /\ Founded'
  BY DEF IInv, Reasons, Founded, Worked
<1> QED BY <1>1, <1>2, <1>3, OtherStep

Connect == ConnectCheck \/ ConnectRepo \/ ConnectQueue \/ ConnectDies

LEMMA ConnectStep == ASSUME IInv, Connect PROVE IInv'
<1>1. UNCHANGED <<pc, new, dep, elsewhere, direct, committed, msg, hand, notify, canc, look,
                  dropped>>
  BY DEF Connect, ConnectCheck, ConnectRepo, ConnectQueue, ConnectDies, worker, deps, queue
<1>2. row' \in [Scans -> RowStatuses]
  <2>1. UNCHANGED row \/ \E s \in Scans : SetRow(s, "queued")
    BY DEF Connect, ConnectCheck, ConnectRepo, ConnectQueue, ConnectDies, worker
  <2> QED BY <2>1, RowMoves DEF IInv, Typed, RowsTyped, RowStatuses, Active
<1>3. RepoTyped' /\ (UNCHANGED repo \/ repo'.status \in {"error", "initializing"})
  BY DEF Connect, ConnectCheck, ConnectRepo, ConnectQueue, ConnectDies, Show, IInv, Typed,
     RepoTyped, Statuses
<1>4. con' \in {"no", "upsert", "queue"} /\ lost' \in BOOLEAN
  BY DEF Connect, ConnectCheck, ConnectRepo, ConnectQueue, ConnectDies, IInv, Typed, RestTyped
<1>5. RestTyped'
  BY <1>1, <1>4 DEF IInv, Typed, RestTyped
<1> QED BY <1>1, <1>2, <1>3, <1>5, RequestStep

LEMMA RowStep ==
  ASSUME IInv, NEW s \in Scans,
         Rescan(s) \/ SoftStall(s) \/ FailExhausted(s) \/ CancelRow(s)
  PROVE  IInv'
<1>1. UNCHANGED <<pc, new, dep, elsewhere, direct, repo, committed, msg, hand, con, look,
                  dropped>>
  BY DEF Rescan, SoftStall, FailExhausted, CancelRow, deps, queue, clients
<1>2. PICK v \in {"queued", "failed", "cancelled"} : SetRow(s, v)
  BY DEF Rescan, SoftStall, FailExhausted, CancelRow
<1>3. row' \in [Scans -> RowStatuses]
  BY <1>2, RowMoves DEF IInv, Typed, RowStatuses, Active
<1>4. notify' \subseteq Scans /\ canc' \in Scans \cup {Null} /\ lost' \in BOOLEAN
  BY DEF Rescan, SoftStall, FailExhausted, CancelRow, clients, IInv, Typed, RestTyped
<1>5. RestTyped' /\ RepoTyped'
  BY <1>1, <1>4 DEF IInv, Typed, RestTyped, RepoTyped
<1> QED BY <1>1, <1>3, <1>5, RequestStep

LEMMA ClaimStep == ASSUME IInv, NEW s \in Scans, Claim(s) PROVE IInv'
<1>1. /\ Goto(s, "start") /\ SetRow(s, "processing")
      /\ UNCHANGED <<new, dep, elsewhere, direct, repo, committed, msg, hand, con, notify,
                     canc, look,
                     dropped, lost>>
  BY DEF Claim, deps, queue, clients
<1>2. row' \in [Scans -> RowStatuses]
  BY <1>1, RowMoves DEF IInv, Typed, RowStatuses, Active
<1>3. /\ direct' \subseteq Deps /\ Present(direct')
      /\ RepoTyped' /\ MsgTyped' /\ RestTyped' /\ Founded'
  BY <1>1 DEF IInv, Typed, DepsTyped, RepoTyped, MsgTyped, RestTyped, Founded, Worked, Links
<1> QED BY <1>1, <1>2, <1>3, PipeStep DEF Pcs

LEMMA ClientStep ==
  ASSUME IInv, \/ \E s \in Scans : Notify(s)
               \/ NotifyDies \/ CancelRepo \/ CancelDies
  PROVE  IInv'
<1>1. UNCHANGED <<row, pc, new, dep, elsewhere, direct, committed, msg, hand, con, look,
                  dropped>>
  BY DEF Notify, NotifyDies, CancelRepo, CancelDies, deps, worker, queue
<1>2. notify' \subseteq Scans /\ canc' \in Scans \cup {Null} /\ lost' \in BOOLEAN
  BY DEF Notify, NotifyDies, CancelRepo, CancelDies, IInv, Typed, RestTyped
<1>3. UNCHANGED repo \/ Show("error", "none") \/ Show("cancelled", "none")
  BY DEF Notify, NotifyDies, CancelRepo, CancelDies
<1>4. RepoTyped' /\ (UNCHANGED repo \/ repo'.status \in {"error", "cancelled"})
  BY <1>3, ShowMoves DEF IInv, Typed, RepoTyped, Statuses
<1>5. RestTyped' /\ row' \in [Scans -> RowStatuses]
  BY <1>1, <1>2 DEF IInv, Typed, RestTyped, RowsTyped, RowStatuses
<1> QED BY <1>1, <1>4, <1>5, RequestStep

Elsewhere(d) == ElsewhereInserts(d) \/ ElsewherePopulates(d)

LEMMA ElsewhereStep == ASSUME IInv, NEW d \in Deps, Elsewhere(d) PROVE IInv'
<1>1. UNCHANGED <<row, pc, new, direct, repo, committed, msg, hand, con, notify, canc, look,
                  dropped, lost>>
  BY DEF Elsewhere, ElsewhereInserts, ElsewherePopulates, worker, queue, clients
<1>2. PICK v \in {"pending", "ready", "error"} :
        /\ dep' = [dep EXCEPT ![d] = v]
        /\ dep[d] = "absent" \/ v \in {"ready", "error"}
  BY DEF Elsewhere, ElsewhereInserts, ElsewherePopulates
<1>3. Grows
  BY <1>2 DEF IInv, Typed, DepsTyped, DepStates, Grows, Worked
<1>4. elsewhere' \subseteq Deps /\ \A e \in elsewhere' : dep'[e] # "absent"
  BY <1>2, <1>3
     DEF Elsewhere, ElsewhereInserts, ElsewherePopulates, IInv, Typed, DepsTyped, Links,
         Present, Grows
<1>5. Reasons' /\ Founded'
  BY <1>1, <1>3 DEF IInv, Reasons, Founded, Grows
<1>6. /\ row' \in [Scans -> RowStatuses]
      /\ RepoTyped' /\ MsgTyped' /\ HandTyped' /\ RestTyped'
  BY <1>1 DEF IInv, Typed, RowsTyped, RepoTyped, MsgTyped, HandTyped, RestTyped, RowStatuses
<1> QED BY <1>1, <1>3, <1>4, <1>5, <1>6, OtherStep

-----------------------------------------------------------------------------
(* The queue, the handler and the read of the import status.                *)

(* A message keeps its batch, whatever becomes of it.                       *)
LEMMA FailedKeeps ==
  ASSUME IInv, NEW m \in msg, Failed(m)
  PROVE  MsgTyped' /\ dropped' \subseteq Deps
<1>1. /\ m \in MsgType /\ Cardinality(m.deps) \in 1..BatchSize
      /\ m.deps \subseteq Deps /\ m.tries \in 0..MaxTries
  BY DEF IInv, Typed, MsgTyped, MsgType
<1>2. dropped' \subseteq Deps
  BY <1>1 DEF Failed, IInv, Typed, RestTyped
<1>3. ASSUME NEW n \in msg' PROVE n \in MsgType /\ Cardinality(n.deps) \in 1..BatchSize
  <2>1. CASE n \in msg
    BY <2>1 DEF IInv, Typed, MsgTyped
  <2>2. CASE n \notin msg
    <3>1. m.tries < MaxTries /\ n = [m EXCEPT !.tries = m.tries + 1, !.out = FALSE]
      BY <1>3, <2>2 DEF Failed
    <3>2. m.tries + 1 \in 0..MaxTries
      BY <1>1, <3>1, RepoAssumption
    <3>3. n.deps = m.deps /\ n.tries = m.tries + 1 /\ n.out = FALSE /\ n \in MsgType
      BY <1>1, <3>1, <3>2 DEF MsgType
    <3> QED BY <1>1, <3>3
  <2> QED BY <2>1, <2>2
<1> QED BY <1>2, <1>3 DEF MsgTyped

(* A step of the queue or the handler that writes no row.                   *)
LEMMA QueueStep ==
  ASSUME IInv, UNCHANGED <<row, pc, new, dep, elsewhere, direct, repo, committed, con,
                           notify, canc, look, lost>>,
         MsgTyped', HandTyped', dropped' \subseteq Deps,
         hand'.good \/ hand'.pc = "write" => hand.good \/ hand.pc = "write"
  PROVE  IInv'
<1>1. Grows
  BY SameGrows DEF IInv, Typed
<1>2. Reasons' /\ Founded'
  BY DEF IInv, Reasons, Founded, Worked
<1>3. row' \in [Scans -> RowStatuses] /\ RepoTyped' /\ RestTyped'
  BY DEF IInv, Typed, RowsTyped, RepoTyped, RestTyped, RowStatuses
<1> QED BY <1>1, <1>2, <1>3, OtherStep

LEMMA NoBatchTyped ==
  /\ NoBatch.good = FALSE /\ NoBatch.pc = "idle"
  /\ NoBatch \in [deps : SUBSET Deps, left : SUBSET Deps, now : Deps \cup {Null},
                  good : BOOLEAN, pc : {"idle", "run", "write", "reply"}]
BY DEF NoBatch

LEMMA DeliverStep == ASSUME IInv, NEW m \in msg, Deliver(m) PROVE IInv'
<1>1. /\ UNCHANGED <<row, pc, new, dep, elsewhere, direct, repo, committed, con, notify,
                     canc, look, dropped, lost>>
      /\ msg' = (msg \ {m}) \cup {[m EXCEPT !.out = TRUE]}
      /\ hand' = [NoBatch EXCEPT !.pc = "run", !.deps = m.deps, !.left = m.deps]
  BY DEF Deliver, deps, worker, clients
<1>2. m \in MsgType /\ Cardinality(m.deps) \in 1..BatchSize
  BY DEF IInv, Typed, MsgTyped
<1>3. MsgTyped'
  <2>1. ASSUME NEW n \in msg' PROVE n \in MsgType /\ Cardinality(n.deps) \in 1..BatchSize
    <3>1. CASE n \in msg
      BY <3>1 DEF IInv, Typed, MsgTyped
    <3>2. CASE n \notin msg
      <4>1. n = [m EXCEPT !.out = TRUE]
        BY <1>1, <2>1, <3>2
      <4> QED BY <1>2, <4>1 DEF MsgType
    <3> QED BY <3>1, <3>2
  <2> QED BY <2>1 DEF MsgTyped
<1>4. HandTyped' /\ hand'.good = FALSE /\ hand'.pc = "run"
  BY <1>1, <1>2 DEF HandTyped, NoBatch, MsgType
<1>5. dropped' \subseteq Deps
  BY <1>1 DEF IInv, Typed, RestTyped
<1> QED BY <1>1, <1>3, <1>4, <1>5, QueueStep

LEMMA RefusedStep == ASSUME IInv, NEW m \in msg, Busy(m) \/ TimesOut(m) PROVE IInv'
<1>1. /\ UNCHANGED <<row, pc, new, dep, elsewhere, direct, repo, committed, hand, con,
                     notify, canc, look, lost>>
      /\ Failed(m)
  BY DEF Busy, TimesOut, deps, worker, clients
<1>2. MsgTyped' /\ dropped' \subseteq Deps
  BY <1>1, FailedKeeps
<1>3. HandTyped'
  BY <1>1 DEF IInv, Typed, HandTyped
<1> QED BY <1>1, <1>2, <1>3, QueueStep

(* Work on a dependency; a success is what the handler remembers.           *)
LEMMA PopulateStep ==
  ASSUME IInv, Populated \/ \E d \in Deps : Populate(d)
  PROVE  IInv'
<1>1. UNCHANGED <<row, pc, new, elsewhere, direct, repo, committed, msg, con, notify, canc,
                  look,
                  dropped, lost>>
  BY DEF Populate, Populated, deps, worker, clients
<1>2. HandTyped /\ DepsTyped /\ Reasons
  BY DEF IInv, Typed
<1>3. PICK e \in Deps, v \in {"analyzing", "ready", "error"} : dep' = [dep EXCEPT ![e] = v]
  <2>1. CASE Populated
    <3>1. hand.now \in Deps
      BY <1>2, <2>1 DEF Populated, HandTyped
    <3>2. PICK ok \in BOOLEAN :
            dep' = [dep EXCEPT ![hand.now] = IF ok THEN "ready" ELSE "error"]
      BY <2>1 DEF Populated
    <3> QED BY <3>1, <3>2
  <2>2. CASE \E d \in Deps : Populate(d)
    BY <2>2 DEF Populate
  <2> QED BY <2>1, <2>2
<1>4. Grows /\ Worked'
  BY <1>2, <1>3 DEF DepsTyped, DepStates, Grows, Worked
<1>5. HandTyped'
  <2>1. CASE Populated
    <3>1. PICK ok \in BOOLEAN : hand' = [hand EXCEPT !.now = Null, !.good = hand.good \/ ok]
      BY <2>1 DEF Populated
    <3> QED BY <1>2, <3>1 DEF HandTyped
  <2>2. CASE \E d \in Deps : Populate(d)
    <3>1. PICK d \in Deps : hand' = [hand EXCEPT !.now = d, !.left = hand.left \ {d}]
      BY <2>2 DEF Populate
    <3>2. hand.left \ {d} \in SUBSET Deps
      BY <1>2 DEF HandTyped
    <3> QED BY <1>2, <3>1, <3>2 DEF HandTyped
  <2> QED BY <2>1, <2>2
<1>6. Reasons' /\ Founded'
  BY <1>1, <1>2, <1>4 DEF IInv, Reasons, Founded
<1>7. row' \in [Scans -> RowStatuses] /\ RepoTyped' /\ MsgTyped' /\ RestTyped'
  BY <1>1 DEF IInv, Typed, RowsTyped, RepoTyped, MsgTyped, RestTyped, RowStatuses
<1> QED BY <1>1, <1>4, <1>5, <1>6, <1>7, OtherStep

LEMMA BatchEndStep ==
  ASSUME IInv, Evaluate \/ Reply \/ BatchDies
  PROVE  IInv'
<1>1. UNCHANGED <<row, pc, new, dep, elsewhere, direct, repo, committed, con, notify, canc,
                  look, lost>>
  BY DEF Evaluate, Reply, BatchDies, deps, worker, clients
<1>2. /\ HandTyped'
      /\ hand'.good \/ hand'.pc = "write" => hand.good \/ hand.pc = "write"
  <2>1. CASE Evaluate
    <3>1. PICK next \in {"reply"} \cup (IF hand.good THEN {"write"} ELSE {}) :
            hand' = [hand EXCEPT !.pc = next]
      BY <2>1 DEF Evaluate
    <3>2. next = "reply" \/ (next = "write" /\ hand.good)
      BY <3>1
    <3> QED BY <3>1, <3>2 DEF IInv, Typed, HandTyped
  <2>2. CASE Reply \/ BatchDies
    BY <2>2, NoBatchTyped DEF Reply, BatchDies, HandTyped
  <2> QED BY <2>1, <2>2
<1>3. MsgTyped' /\ dropped' \subseteq Deps
  <2>1. CASE \E m \in msg : Failed(m)
    BY <2>1, FailedKeeps
  <2>2. CASE ~ \E m \in msg : Failed(m)
    <3>1. msg' \subseteq msg /\ UNCHANGED dropped
      BY <2>2 DEF Evaluate, Reply, BatchDies
    <3> QED BY <3>1 DEF IInv, Typed, MsgTyped, RestTyped
  <2> QED BY <2>1, <2>2
<1> QED BY <1>1, <1>2, <1>3, QueueStep

LEMMA BatchReadyStep == ASSUME IInv, BatchReady PROVE IInv'
<1>1. /\ hand.pc = "write" /\ Show("ready", "completed") /\ hand' = [hand EXCEPT !.pc = "reply"]
      /\ UNCHANGED <<row, pc, new, dep, elsewhere, direct, committed, msg, con, notify, canc,
                     look, dropped, lost>>
  BY DEF BatchReady, deps, worker, clients
<1>2. RepoTyped' /\ repo'.status = "ready"
  BY <1>1, ShowMoves DEF IInv, Typed, Statuses
<1>3. HandTyped' /\ hand'.good = hand.good
  BY <1>1 DEF IInv, Typed, HandTyped
<1>4. Grows /\ Worked
  BY <1>1, SameGrows DEF IInv, Typed, Reasons
<1>5. Reasons' /\ Founded'
  BY <1>1, <1>2, <1>3, <1>4 DEF IInv, Reasons, Founded, Worked
<1>6. row' \in [Scans -> RowStatuses] /\ MsgTyped' /\ RestTyped'
  BY <1>1 DEF IInv, Typed, RowsTyped, MsgTyped, RestTyped, RowStatuses
<1> QED BY <1>1, <1>2, <1>3, <1>4, <1>5, <1>6, OtherStep

LEMMA LookStep == ASSUME IInv, LookRepo \/ LookDeps \/ LookWrite PROVE IInv'
<1>1. UNCHANGED <<row, pc, new, dep, elsewhere, direct, committed, msg, hand, con, notify,
                  canc, dropped, lost>>
  BY DEF LookRepo, LookDeps, LookWrite, deps, worker, queue
<1>2. DepsTyped /\ RepoTyped /\ RestTyped /\ Reasons /\ Founded
  BY DEF IInv, Typed
<1>3. Grows
  BY <1>2, SameGrows, <1>1
<1>4. RepoTyped' /\ (UNCHANGED repo \/ repo'.status = "finalizing"
                      \/ (look.pc = "write" /\ repo'.status = "ready"))
  <2>1. CASE LookWrite
    BY <1>2, <2>1, ShowMoves DEF LookWrite, RepoTyped, Statuses, Show
  <2>2. CASE LookRepo \/ LookDeps
    BY <1>2, <2>2 DEF LookRepo, LookDeps, RepoTyped
  <2> QED BY <2>1, <2>2
<1>5. look' \in [pc : {"idle", "deps", "write"}, ast : BOOLEAN]
  <2>1. CASE LookRepo
    BY <1>2, <2>1 DEF LookRepo, RepoTyped
  <2>2. CASE LookDeps
    BY <1>2, <2>2 DEF LookDeps, RestTyped, NoLook
  <2>3. CASE LookWrite
    BY <2>3 DEF LookWrite, NoLook
  <2> QED BY <2>1, <2>2, <2>3
<1>6. look'.pc = "write" => Worked
  <2>1. CASE LookDeps /\ AllReady
    BY <1>2, <2>1 DEF AllReady, Worked, DepsTyped
  <2>2. CASE ~(LookDeps /\ AllReady)
    BY <2>2 DEF LookRepo, LookDeps, LookWrite, NoLook
  <2> QED BY <2>1, <2>2
<1>7. Reasons' /\ Founded'
  BY <1>1, <1>2, <1>4, <1>6 DEF Reasons, Founded, Worked
<1>8. row' \in [Scans -> RowStatuses] /\ MsgTyped' /\ HandTyped' /\ RestTyped'
  BY <1>1, <1>5 DEF IInv, Typed, RowsTyped, MsgTyped, HandTyped, RestTyped, RowStatuses
<1> QED BY <1>1, <1>3, <1>4, <1>7, <1>8, OtherStep

-----------------------------------------------------------------------------
LEMMA StepIInv == IInv /\ [Next]_vars => IInv'
<1> SUFFICES ASSUME IInv, [Next]_vars PROVE IInv'
  OBVIOUS
<1>1. ASSUME NEW s \in Scans,
             \/ Rescan(s) \/ Claim(s) \/ Pipeline(s) \/ SoftStall(s)
             \/ FailExhausted(s) \/ Notify(s) \/ CancelRow(s)
      PROVE  IInv'
  BY <1>1, RowStep, ClaimStep, PipelineStep, ClientStep
<1>2. CASE Connect \/ NotifyDies \/ CancelRepo \/ CancelDies
  BY <1>2, ConnectStep, ClientStep
<1>3. ASSUME NEW d \in Deps, Elsewhere(d) PROVE IInv'
  BY <1>3, ElsewhereStep
<1>4. ASSUME NEW m \in msg, Deliver(m) \/ Busy(m) \/ TimesOut(m) PROVE IInv'
  BY <1>4, DeliverStep, RefusedStep
<1>5. CASE Handler
  BY <1>5, PopulateStep, BatchEndStep, BatchReadyStep DEF Handler
<1>6. CASE LookRepo \/ LookDeps \/ LookWrite
  BY <1>6, LookStep
<1>7. CASE UNCHANGED vars
  <2>1. UNCHANGED <<row, pc, new, dep, elsewhere, direct, repo, committed, msg, hand, con,
                    notify, canc, look,
                    dropped, lost>>
    BY <1>7 DEF vars
  <2>2. Reasons /\ MsgTyped' /\ HandTyped' /\ dropped' \subseteq Deps
    BY <2>1 DEF IInv, Typed, MsgTyped, HandTyped, RestTyped
  <2> QED BY <2>1, <2>2, QueueStep
<1> QED BY <1>1, <1>2, <1>3, <1>4, <1>5, <1>6, <1>7 DEF Next, Connect, Elsewhere

LEMMA Invariance == Spec => []IInv
BY InitIInv, StepIInv, PTL DEF Spec

(* In every reachable state the rows, the batches, the handler and the      *)
(* requests have their types; every direct dependency of the project is a   *)
(* row that exists, although it was read long before it was linked.         *)
THEOREM TypeCorrect == Spec => []TypeOK
BY Invariance, TypeParts, PTL

(* Before any commit a project shows neither 'analyzing' nor a 'ready' that *)
(* nobody has worked for, with any number of scans, batches and readers.    *)
THEOREM FoundedReady == Spec => []ReadyIsFounded
<1>1. IInv => ReadyIsFounded
  BY DEF IInv, Founded, Worked, ReadyIsFounded
<1> QED BY <1>1, Invariance, PTL
-----------------------------------------------------------------------------
(* A job that nobody has claimed has no worker.                             *)
Idle == \A s \in Scans : row[s] \in {"absent", "queued"} => pc[s] = "off"

LEMMA IdleInit == Init => Idle
BY DEF Init, Idle

(* Which rows a pipeline writes, and when.                                  *)
LEMMA PipelineRow ==
  ASSUME IInv, NEW s \in Scans, Pipeline(s)
  PROVE  /\ pc[s] # "off"
         /\ \/ UNCHANGED row
            \/ row'[s] \in {"completed", "failed"}
               /\ \A t \in Scans \ {s} : row'[t] = row[t]
         /\ \A t \in Scans \ {s} : pc'[t] = pc[t]
<1>1. row \in [Scans -> RowStatuses] /\ pc \in [Scans -> Pcs]
  BY DEF IInv, Typed, RowsTyped, RowStatuses
<1>2. pc[s] # "off"
  BY DEF Pipeline, Start, Clone, Sbom, ReadKnown, Insert, InsertThrows, Publish, Upsert,
     Stages, FinalizeRpc,
     Mark, Write, StageThrows, SetError, Post, Finish, Crash, LookAtRow
<1>3. \/ UNCHANGED row
      \/ row'[s] \in {"completed", "failed"} /\ \A t \in Scans \ {s} : row'[t] = row[t]
  BY <1>1 DEF Pipeline, Start, Clone, Sbom, ReadKnown, Insert, InsertThrows, Publish, Upsert,
     Stages,
     FinalizeRpc, Mark, Write, StageThrows, SetError, Post, Finish, Crash, LookAtRow, SetRow
<1>4. \E p : Goto(s, p)
  BY DEF Pipeline, Start, Clone, Sbom, ReadKnown, Insert, InsertThrows, Publish, Upsert, Stages,
     FinalizeRpc, Mark, Write, StageThrows, SetError, Post, Finish, Crash, LookAtRow
<1>5. \A t \in Scans \ {s} : pc'[t] = pc[t]
  BY <1>1, <1>4 DEF Goto
<1> QED BY <1>2, <1>3, <1>5

(* What moves no pipeline.                                                  *)
Bystander ==
  \/ \E s \in Scans : Notify(s)
  \/ NotifyDies \/ CancelRepo \/ CancelDies
  \/ \E d \in Deps : Elsewhere(d)
  \/ \E m \in msg : Deliver(m) \/ Busy(m) \/ TimesOut(m)
  \/ Handler
  \/ LookRepo \/ LookDeps \/ LookWrite
  \/ UNCHANGED vars

LEMMA BystanderWorkers == ASSUME Bystander PROVE UNCHANGED worker
BY DEF Bystander, Notify, NotifyDies, CancelRepo, CancelDies, Elsewhere, ElsewhereInserts,
   ElsewherePopulates, Deliver, Busy, TimesOut, Handler, Populate, Populated, Evaluate,
      BatchReady, Reply, BatchDies, LookRepo, LookDeps,
   LookWrite, vars, worker

RowWriter(s) == Rescan(s) \/ SoftStall(s) \/ FailExhausted(s) \/ CancelRow(s)

LEMMA NextCases ==
  [Next]_vars =>
    \/ \E s \in Scans : RowWriter(s) \/ Claim(s) \/ Pipeline(s)
    \/ Connect \/ Bystander
BY DEF Next, RowWriter, Bystander, Connect, Elsewhere

LEMMA IdleNext == IInv /\ Idle /\ [Next]_vars => Idle'
<1> SUFFICES ASSUME IInv, Idle, [Next]_vars PROVE Idle'
  OBVIOUS
<1>1. row \in [Scans -> RowStatuses] /\ pc \in [Scans -> Pcs]
  BY DEF IInv, Typed, RowsTyped, RowStatuses
<1>2. ASSUME NEW s \in Scans, RowWriter(s) PROVE Idle'
  <2>1. pc' = pc
    BY <1>2 DEF RowWriter, Rescan, SoftStall, FailExhausted, CancelRow
  <2>2. \A t \in Scans : row'[t] \in {"absent", "queued"} => row[t] \in {"absent", "queued"}
    BY <1>1, <1>2 DEF RowWriter, Rescan, SoftStall, FailExhausted, CancelRow, SetRow
  <2> QED BY <2>1, <2>2 DEF Idle
<1>3. ASSUME NEW s \in Scans, Claim(s) PROVE Idle'
  BY <1>1, <1>3 DEF Claim, SetRow, Goto, Idle
<1>4. ASSUME NEW s \in Scans, Pipeline(s) PROVE Idle'
  <2>1. row[s] \notin {"absent", "queued"}
    BY <1>4, PipelineRow DEF Idle
  <2> QED BY <1>4, <2>1, PipelineRow DEF Idle
<1>5. CASE Bystander
  BY <1>5, BystanderWorkers DEF worker, Idle
<1>6. CASE Connect
  <2>1. /\ pc' = pc
        /\ \A t \in Scans : row'[t] \in {"absent", "queued"} => row[t] \in {"absent", "queued"}
    BY <1>1, <1>6
       DEF Connect, ConnectCheck, ConnectRepo, ConnectQueue, ConnectDies, SetRow, worker
  <2> QED BY <2>1 DEF Idle
<1> QED BY <1>2, <1>3, <1>4, <1>5, <1>6, NextCases

-----------------------------------------------------------------------------
(* Dependencies: what DepsSettle says of the states in between.             *)

InMsg(d) == \E m \in msg : d \in m.deps
Held(d) ==
  \/ d \in dropped \/ d \in elsewhere
  \/ \E s \in Scans : pc[s] = "publish" /\ d \in new[s]
  \/ InMsg(d)

(* A dependency that waits is in the hands of somebody: the pipeline that   *)
(* has inserted it and is about to queue it, QStash, or another project; or *)
(* it was lost on the way, where the code loses it.                         *)
DepsHeld == \A d \in Deps : dep[d] \in {"pending", "analyzing"} => Held(d)

(* The handler never outlives its message, and leaves no dependency of its  *)
(* batch behind before it answers.                                          *)
HandHeld == \A d \in hand.deps : d \in dropped \/ InMsg(d)
HandDone ==
  /\ \A d \in hand.deps : d \in hand.left \/ d = hand.now \/ dep[d] \in {"ready", "error"}
  /\ hand.left \subseteq hand.deps
  /\ hand.pc \in {"write", "reply"} => hand.left = {} /\ hand.now = Null

HeldInv == DepsHeld /\ HandHeld /\ HandDone

LEMMA HeldInit == Init => HeldInv
BY DEF Init, HeldInv, DepsHeld, HandHeld, HandDone, NoBatch

(* A step that leaves the dependencies and the handler alone keeps them     *)
(* held, if whatever it takes from a pipeline or from QStash is lost or     *)
(* handed on.                                                               *)
LEMMA HeldStays ==
  ASSUME HeldInv, UNCHANGED <<dep, elsewhere, hand>>, dropped \subseteq dropped',
         \A d \in Deps : InMsg(d) => d \in dropped' \/ InMsg(d)',
         hand.deps \subseteq Deps,
         \A d \in Deps : \A s \in Scans : pc[s] = "publish" /\ d \in new[s] => Held(d)'
  PROVE  HeldInv'
<1>1. DepsHeld'
  BY DEF HeldInv, DepsHeld, Held
<1>2. HandHeld'
  BY DEF HeldInv, HandHeld
<1>3. HandDone'
  BY DEF HeldInv, HandDone
<1> QED BY <1>1, <1>2, <1>3 DEF HeldInv

(* Rows that are inserted, and held by their pipeline or lost.              *)
LEMMA InsertedHeld ==
  ASSUME IInv, HeldInv, NEW s \in Scans, NEW D \in SUBSET Deps,
         \A d \in D : dep[d] = "absent" /\ Held(d)',
         \A d \in Deps : dep'[d] = IF d \in D THEN "pending" ELSE dep[d],
         UNCHANGED <<elsewhere, msg, hand>>, dropped \subseteq dropped',
         \A t \in Scans : pc[t] = "publish" => pc'[t] = "publish" /\ new'[t] = new[t]
  PROVE  HeldInv'
<1>1. hand.deps \subseteq Deps
  BY DEF IInv, Typed, HandTyped
<1>2. \A d \in Deps : Held(d) => Held(d)'
  BY DEF Held, InMsg
<1>3. DepsHeld'
  BY <1>2 DEF HeldInv, DepsHeld
<1>4. HandHeld'
  BY DEF HeldInv, HandHeld, InMsg
<1>5. HandDone'
  BY <1>1 DEF HeldInv, HandDone
<1> QED BY <1>3, <1>4, <1>5 DEF HeldInv

LEMMA InsertHeld == ASSUME IInv, HeldInv, NEW s \in Scans, Insert(s) PROVE HeldInv'
<1>1. /\ pc[s] = "insert" /\ \A d \in new[s] : dep[d] = "absent"
      /\ dep' = [d \in Deps |-> IF d \in new[s] THEN "pending" ELSE dep[d]]
      /\ new' = [new EXCEPT ![s] = new[s] \cap Direct[s]]
      /\ dropped' = dropped \cup (new[s] \ Direct[s])
      /\ Goto(s, IF new'[s] = {} THEN "upsert" ELSE "publish")
      /\ UNCHANGED <<elsewhere, msg, hand>>
  BY DEF Insert, queue
<1>2. /\ new \in [Scans -> SUBSET Deps] /\ pc \in [Scans -> Pcs] /\ new[s] \subseteq Deps
  BY DEF IInv, Typed, RowsTyped
<1>3. new'[s] = new[s] \cap Direct[s] /\ \A t \in Scans \ {s} : new'[t] = new[t]
  BY <1>1, <1>2
<1>4. /\ pc'[s] = IF new'[s] = {} THEN "upsert" ELSE "publish"
      /\ \A t \in Scans \ {s} : pc'[t] = pc[t]
  BY <1>1, <1>2 DEF Goto
<1>5. \A d \in new[s] : Held(d)'
  BY <1>1, <1>3, <1>4 DEF Held
<1>6. \A d \in Deps : dep'[d] = IF d \in new[s] THEN "pending" ELSE dep[d]
  BY <1>1
<1>7. \A t \in Scans : pc[t] = "publish" => pc'[t] = "publish" /\ new'[t] = new[t]
  BY <1>1, <1>3, <1>4
<1>8. dropped \subseteq dropped'
  BY <1>1
<1> QED BY <1>1, <1>2, <1>5, <1>6, <1>7, <1>8, InsertedHeld

LEMMA InsertThrowsHeld ==
  ASSUME IInv, HeldInv, NEW s \in Scans, InsertThrows(s)
  PROVE  HeldInv'
<1>1. PICK D \in SUBSET {d \in new[s] : dep[d] = "absent"} :
        /\ dep' = [d \in Deps |-> IF d \in D THEN "pending" ELSE dep[d]]
        /\ dropped' = dropped \cup D
  BY DEF InsertThrows
<1>2. /\ pc[s] = "insert" /\ pc' = [pc EXCEPT ![s] = "throw"]
      /\ UNCHANGED <<new, elsewhere, msg, hand>>
  BY DEF InsertThrows, Goto, queue
<1>3. pc \in [Scans -> Pcs] /\ D \subseteq Deps
  BY DEF IInv, Typed, RowsTyped
<1>4. \A d \in D : dep[d] = "absent" /\ Held(d)'
  BY <1>1 DEF Held
<1>5. \A d \in Deps : dep'[d] = IF d \in D THEN "pending" ELSE dep[d]
  BY <1>1
<1>6. \A t \in Scans : pc[t] = "publish" => pc'[t] = "publish" /\ new'[t] = new[t]
  BY <1>2, <1>3
<1>7. dropped \subseteq dropped'
  BY <1>1
<1> QED BY <1>2, <1>3, <1>4, <1>5, <1>6, <1>7, InsertedHeld

LEMMA PublishHeld == ASSUME IInv, HeldInv, NEW s \in Scans, Publish(s) PROVE HeldInv'
<1>1. PICK P \in Batches(new[s]) : \E Q \in SUBSET P :
        /\ msg' = msg \cup {Message(B) : B \in Q}
        /\ dropped' = dropped \cup UNION (P \ Q)
  BY DEF Publish
<1>2. PICK Q \in SUBSET P :
        /\ msg' = msg \cup {Message(B) : B \in Q}
        /\ dropped' = dropped \cup UNION (P \ Q)
  BY <1>1
<1>3. /\ UNCHANGED <<new, dep, elsewhere, hand>> /\ pc' = [pc EXCEPT ![s] = "upsert"]
      /\ pc \in [Scans -> Pcs] /\ hand.deps \subseteq Deps
  BY DEF Publish, Goto, deps, IInv, Typed, RowsTyped, HandTyped
<1>4. UNION P = new[s]
  BY <1>1 DEF Batches
<1>5. \A d \in new[s] : Held(d)'
  <2> SUFFICES ASSUME NEW d \in new[s] PROVE Held(d)'
    OBVIOUS
  <2>1. PICK B \in P : d \in B
    BY <1>4
  <2>2. CASE B \in Q
    <3>1. Message(B) \in msg' /\ Message(B).deps = B
      BY <1>2, <2>2 DEF Message
    <3> QED BY <2>1, <3>1 DEF Held, InMsg
  <2>3. CASE B \notin Q
    BY <1>2, <2>1, <2>3 DEF Held
  <2> QED BY <2>2, <2>3
<1>6. \A d \in Deps : \A t \in Scans : pc[t] = "publish" /\ d \in new[t] => Held(d)'
  BY <1>3, <1>5 DEF Held
<1>7. \A d \in Deps : InMsg(d) => InMsg(d)'
  BY <1>2 DEF InMsg
<1> QED BY <1>2, <1>3, <1>6, <1>7, HeldStays

(* Steps that keep what is about to be queued, and QStash.                  *)
LEMMA PlainHeld ==
  ASSUME IInv, HeldInv, UNCHANGED <<dep, elsewhere, msg, hand>>, dropped \subseteq dropped',
         \A s \in Scans : pc[s] = "publish" =>
           \/ pc'[s] = "publish" /\ new'[s] = new[s]
           \/ new[s] \subseteq dropped'
  PROVE  HeldInv'
<1>1. hand.deps \subseteq Deps
  BY DEF IInv, Typed, HandTyped
<1>2. \A d \in Deps : InMsg(d) => InMsg(d)'
  BY DEF InMsg
<1> QED BY <1>1, <1>2, HeldStays DEF Held

LEMMA PipelineHeld == ASSUME IInv, HeldInv, NEW s \in Scans, Pipeline(s) PROVE HeldInv'
<1>1. CASE Insert(s) \/ InsertThrows(s)
  BY <1>1, InsertHeld, InsertThrowsHeld
<1>2. CASE Publish(s)
  BY <1>2, PublishHeld
<1>3. CASE Crash(s)
  BY <1>3, PlainHeld DEF Crash, Goto, deps, queue, IInv, Typed, RowsTyped
<1>4. CASE ReadKnown(s)
  BY <1>4, PlainHeld DEF ReadKnown, Goto, deps, queue, IInv, Typed, RowsTyped
<1>5. CASE Start(s) \/ Sbom(s) \/ Stages(s)
  BY <1>5, PlainHeld DEF Start, Sbom, Stages, LookAtRow, Goto, deps, queue, IInv, Typed,
     RowsTyped
<1>6. CASE Clone(s) \/ Upsert(s) \/ FinalizeRpc(s) \/ Mark(s) \/ Write(s)
  BY <1>6, PlainHeld DEF Clone, Upsert, FinalizeRpc, Mark, Write, Goto, deps, queue, IInv,
     Typed, RowsTyped
<1>7. CASE StageThrows(s) \/ SetError(s) \/ Post(s) \/ Finish(s)
  BY <1>7, PlainHeld DEF StageThrows, SetError, Post, Finish, Goto, deps, queue, IInv, Typed,
     RowsTyped
<1> QED BY <1>1, <1>2, <1>3, <1>4, <1>5, <1>6, <1>7 DEF Pipeline

LEMMA ClaimHeld == ASSUME IInv, Idle, HeldInv, NEW s \in Scans, Claim(s) PROVE HeldInv'
<1>1. pc[s] = "off" /\ pc \in [Scans -> Pcs]
  BY DEF Idle, Claim, IInv, Typed, RowsTyped
<1>2. UNCHANGED <<new, dep, elsewhere, msg, hand, dropped>> /\ pc' = [pc EXCEPT ![s] = "start"]
  BY DEF Claim, Goto, deps, queue
<1> QED BY <1>1, <1>2, PlainHeld

LEMMA OtherHeld ==
  ASSUME IInv, HeldInv,
         \/ \E s \in Scans : RowWriter(s) \/ Notify(s)
         \/ NotifyDies \/ CancelRepo \/ CancelDies
         \/ LookRepo \/ LookDeps \/ LookWrite \/ UNCHANGED vars
  PROVE  HeldInv'
<1>1. UNCHANGED <<pc, new, dep, elsewhere, msg, hand, dropped>>
  BY DEF RowWriter, Rescan, SoftStall, FailExhausted, Notify, CancelRow, NotifyDies,
     CancelRepo, CancelDies, LookRepo, LookDeps, LookWrite, deps, worker, queue, vars
<1> QED BY <1>1, PlainHeld

(* QStash: a delivery that fails comes again or is given up.                *)
LEMMA FailedHeld ==
  ASSUME IInv, NEW m \in msg, Failed(m)
  PROVE  /\ dropped \subseteq dropped'
         /\ \A d \in Deps : InMsg(d) => d \in dropped' \/ InMsg(d)'
<1>1. m \in MsgType
  BY DEF IInv, Typed, MsgTyped
<1>2. dropped \subseteq dropped'
  BY DEF Failed
<1>3. ASSUME NEW d \in Deps, NEW n \in msg, d \in n.deps PROVE d \in dropped' \/ InMsg(d)'
  <2>1. CASE n # m
    <3>1. n \in msg'
      BY <2>1 DEF Failed
    <3> QED BY <1>3, <3>1 DEF InMsg
  <2>2. CASE n = m /\ m.tries < MaxTries
    <3>1. PICK k : k = [m EXCEPT !.tries = m.tries + 1, !.out = FALSE]
      OBVIOUS
    <3>2. k \in msg' /\ k.deps = m.deps
      BY <1>1, <2>2, <3>1 DEF Failed, MsgType
    <3> QED BY <1>3, <2>2, <3>2 DEF InMsg
  <2>3. CASE n = m /\ ~(m.tries < MaxTries)
    BY <1>3, <2>3 DEF Failed
  <2> QED BY <2>1, <2>2, <2>3
<1> QED BY <1>2, <1>3 DEF InMsg

LEMMA QueueHeld ==
  ASSUME IInv, HeldInv, NEW m \in msg, Deliver(m) \/ Busy(m) \/ TimesOut(m)
  PROVE  HeldInv'
<1>1. UNCHANGED <<pc, new, dep, elsewhere>> /\ m \in MsgType /\ hand.deps \subseteq Deps
  BY DEF Deliver, Busy, TimesOut, deps, worker, IInv, Typed, MsgTyped, HandTyped
<1>2. CASE Busy(m) \/ TimesOut(m)
  <2>1. Failed(m) /\ UNCHANGED hand
    BY <1>2 DEF Busy, TimesOut
  <2>2. \A d \in Deps : \A s \in Scans : pc[s] = "publish" /\ d \in new[s] => Held(d)'
    BY <1>1 DEF Held
  <2> QED BY <1>1, <2>1, <2>2, FailedHeld, HeldStays
<1>3. CASE Deliver(m)
  <2>1. PICK k : k = [m EXCEPT !.out = TRUE]
    OBVIOUS
  <2>2. /\ msg' = (msg \ {m}) \cup {k} /\ k.deps = m.deps /\ m.deps \subseteq Deps
        /\ hand'.deps = m.deps /\ hand'.left = m.deps /\ hand'.pc = "run"
        /\ UNCHANGED dropped
    BY <1>1, <1>3, <2>1 DEF Deliver, MsgType, NoBatch
  <2>3. \A d : InMsg(d) => InMsg(d)'
    BY <2>2 DEF InMsg
  <2>4. DepsHeld'
    BY <1>1, <2>2, <2>3 DEF HeldInv, DepsHeld, Held
  <2>5. HandHeld' /\ HandDone'
    BY <2>2 DEF HandHeld, HandDone, InMsg
  <2> QED BY <2>4, <2>5 DEF HeldInv
<1> QED BY <1>2, <1>3

LEMMA ElsewhereHeld == ASSUME IInv, HeldInv, NEW e \in Deps, Elsewhere(e) PROVE HeldInv'
<1>1. UNCHANGED <<pc, new, msg, hand, dropped>> /\ dep \in [Deps -> DepStates]
  BY DEF Elsewhere, ElsewhereInserts, ElsewherePopulates, worker, queue, IInv, Typed, DepsTyped
<1>2. PICK v \in {"pending", "ready", "error"} :
        /\ dep' = [dep EXCEPT ![e] = v]
        /\ \/ v = "pending" /\ dep[e] = "absent" /\ elsewhere' = elsewhere \cup {e}
           \/ v \in {"ready", "error"} /\ elsewhere' = elsewhere \ {e}
  BY DEF Elsewhere, ElsewhereInserts, ElsewherePopulates
<1>3. \A d \in Deps : dep'[d] = IF d = e THEN v ELSE dep[d]
  BY <1>1, <1>2
<1>4. hand.deps \subseteq Deps
  BY DEF IInv, Typed, HandTyped
<1>5. DepsHeld' /\ HandHeld'
  BY <1>1, <1>2, <1>3 DEF HeldInv, DepsHeld, HandHeld, Held, InMsg
<1>6. HandDone'
  BY <1>1, <1>2, <1>3, <1>4 DEF HeldInv, HandDone
<1> QED BY <1>5, <1>6 DEF HeldInv

(* The handler.                                                             *)
LEMMA PopulateHeld == ASSUME IInv, HeldInv, NEW e \in Deps, Populate(e) PROVE HeldInv'
<1>1. /\ UNCHANGED <<pc, new, elsewhere, msg,
                     dropped>> /\ dep' = [dep EXCEPT ![e] = "analyzing"]
      /\ e \in hand.left /\ hand.pc = "run" /\ hand.now = Null
      /\ hand' = [hand EXCEPT !.now = e, !.left = hand.left \ {e}]
  BY DEF Populate, worker
<1>2. dep \in [Deps -> DepStates] /\ HandTyped
  BY DEF IInv, Typed, DepsTyped
<1>3. /\ hand'.now = e /\ hand'.left = hand.left \ {e} /\ hand'.deps = hand.deps
      /\ hand'.pc = "run"
  BY <1>1, <1>2 DEF HandTyped
<1>4. e \in hand.deps /\ \A d \in Deps \ {e} : dep'[d] = dep[d]
  BY <1>1, <1>2 DEF HeldInv, HandDone
<1>5. DepsHeld' /\ HandHeld'
  BY <1>1, <1>3, <1>4 DEF HeldInv, DepsHeld, HandHeld, Held, InMsg
<1>6. HandDone'
  <2>1. \A d \in hand.deps : d \in hand.left \/ dep[d] \in {"ready", "error"}
    BY <1>1, <1>2, RepoAssumption DEF HeldInv, HandDone, HandTyped
  <2>2. \A d \in hand.deps : d \in hand.left \ {e} \/ d = e \/ dep'[d] \in {"ready", "error"}
    BY <1>2, <1>4, <2>1 DEF HandTyped
  <2> QED BY <1>3, <2>2 DEF HeldInv, HandDone
<1> QED BY <1>5, <1>6 DEF HeldInv

LEMMA PopulatedHeld == ASSUME IInv, HeldInv, Populated PROVE HeldInv'
<1>1. PICK ok \in BOOLEAN :
        /\ dep' = [dep EXCEPT ![hand.now] = IF ok THEN "ready" ELSE "error"]
        /\ hand' = [hand EXCEPT !.now = Null, !.good = hand.good \/ ok]
  BY DEF Populated
<1>2. /\ UNCHANGED <<pc, new, elsewhere, msg, dropped>> /\ hand.now # Null
      /\ dep \in [Deps -> DepStates] /\ HandTyped
  BY DEF Populated, worker, IInv, Typed, DepsTyped
<1>3. /\ hand'.now = Null /\ hand'.left = hand.left /\ hand'.deps = hand.deps
      /\ hand'.pc = hand.pc /\ hand.now \in Deps /\ hand.deps \subseteq Deps
  BY <1>1, <1>2 DEF HandTyped
<1>4. /\ \A d \in Deps \ {hand.now} : dep'[d] = dep[d]
      /\ dep'[hand.now] \in {"ready", "error"}
  BY <1>1, <1>2, <1>3
<1>5. DepsHeld' /\ HandHeld'
  BY <1>2, <1>3, <1>4 DEF HeldInv, DepsHeld, HandHeld, Held, InMsg
<1>6. HandDone'
  BY <1>2, <1>3, <1>4 DEF HeldInv, HandDone
<1> QED BY <1>5, <1>6 DEF HeldInv

LEMMA ReplyHeld == ASSUME IInv, HeldInv, Reply PROVE HeldInv'
<1>1. /\ UNCHANGED <<pc, new, dep, elsewhere, dropped>> /\ hand' = NoBatch /\ hand.pc = "reply"
      /\ msg' = {m \in msg : ~(m.out /\ m.deps = hand.deps)}
  BY DEF Reply, deps, worker
<1>2. \A d \in hand.deps : dep[d] \in {"ready", "error"}
  BY <1>1, RepoAssumption DEF HeldInv, HandDone, IInv, Typed, HandTyped
<1>3. \A d \in Deps : InMsg(d) => d \in hand.deps \/ InMsg(d)'
  BY <1>1 DEF InMsg
<1>4. DepsHeld'
  BY <1>1, <1>2, <1>3 DEF HeldInv, DepsHeld, Held
<1>5. HandHeld' /\ HandDone'
  BY <1>1 DEF HandHeld, HandDone, NoBatch
<1> QED BY <1>4, <1>5 DEF HeldInv

LEMMA HandlerHeld == ASSUME IInv, HeldInv, Handler PROVE HeldInv'
<1>1. CASE Evaluate \/ BatchReady
  <2>1. PICK p \in {"reply", "write"} : hand' = [hand EXCEPT !.pc = p]
    BY <1>1 DEF Evaluate, BatchReady
  <2>2. /\ UNCHANGED <<pc, new, dep, elsewhere, msg, dropped>>
        /\ hand'.deps = hand.deps /\ hand'.left = hand.left /\ hand'.now = hand.now
        /\ hand.left = {} /\ hand.now = Null
    BY <1>1, <2>1
       DEF Evaluate, BatchReady, deps, worker, HeldInv, HandDone, IInv, Typed, HandTyped
  <2>3. DepsHeld' /\ HandHeld' /\ HandDone'
    BY <2>2 DEF HeldInv, DepsHeld, HandHeld, HandDone, Held, InMsg
  <2> QED BY <2>3 DEF HeldInv
<1>2. CASE BatchDies
  <2>1. UNCHANGED <<pc, new, dep, elsewhere>> /\ hand' = NoBatch
    BY <1>2 DEF BatchDies, deps, worker
  <2>2. /\ dropped \subseteq dropped'
        /\ \A d \in Deps : InMsg(d) => d \in dropped' \/ InMsg(d)'
    BY <1>2, FailedHeld DEF BatchDies, InMsg
  <2>3. DepsHeld'
    BY <2>1, <2>2 DEF HeldInv, DepsHeld, Held
  <2>4. HandHeld' /\ HandDone'
    BY <2>1 DEF HandHeld, HandDone, NoBatch
  <2> QED BY <2>3, <2>4 DEF HeldInv
<1> QED BY <1>1, <1>2, PopulateHeld, PopulatedHeld, ReplyHeld DEF Handler

LEMMA ConnectHeld == ASSUME IInv, HeldInv, Connect PROVE HeldInv'
<1>1. UNCHANGED <<pc, new, dep, elsewhere, msg, hand, dropped>>
  BY DEF Connect, ConnectCheck, ConnectRepo, ConnectQueue, ConnectDies, worker, deps, queue
<1> QED BY <1>1, PlainHeld

LEMMA HeldNext == IInv /\ Idle /\ HeldInv /\ [Next]_vars => HeldInv'
BY NextCases, ConnectHeld, PipelineHeld, ClaimHeld, OtherHeld, QueueHeld, ElsewhereHeld,
   HandlerHeld
   DEF Bystander

LEMMA IdleInvariance == Spec => []Idle
BY Invariance, IdleInit, IdleNext, PTL DEF Spec

(* No new dependency is forgotten unseen, however batches are split,        *)
(* refused, repeated, timed out and answered late: a reply takes the        *)
(* message of its own batch with it, and that batch has been worked         *)
(* through.  What the pipeline inserts and never queues, transitive         *)
(* packages and those of a stage that throws, is in dropped.                *)
THEOREM NoDepForgotten == Spec => []DepsHeld
<1>1. HeldInv => DepsHeld
  BY DEF HeldInv
<1> QED BY Invariance, IdleInvariance, HeldInit, HeldNext, <1>1, PTL DEF Spec
-----------------------------------------------------------------------------
(* The status: what StatusSettles says of the states in between.            *)

(* Scan s is yet to write what the project shows: its job is queued, or     *)
(* processing and short of its last write or dead (the pipeline will write, *)
(* or recovery in its place), or marked just before the write; or recovery  *)
(* or a cancel has written the job and owes the repository.                 *)
Due(s) ==
  \/ row[s] = "queued"
  \/ row[s] = "processing" /\ pc[s] \notin {"post", "told", "done", "fail"}
  \/ row[s] = "completed" /\ pc[s] = "write"
  \/ s \in notify
  \/ canc = s

Shown == Ongoing /\ ~lost /\ repo.status # "finalizing"

(* While a project shows a scan, somebody is left who will write an end to  *)
(* it, but for the exceptions of StatusSettles.                             *)
SomebodyWrites == Shown => con = "queue" \/ \E s \in Scans : Due(s)

LEMMA WritesInit == Init => SomebodyWrites
BY DEF Init, SomebodyWrites

LEMMA DueWrites == ASSUME NEW s \in Scans, Due(s)' PROVE SomebodyWrites'
BY DEF SomebodyWrites

(* A step that leaves the status as it is, or shows an end, and keeps who   *)
(* is due.                                                                  *)
LEMMA WritesStay ==
  ASSUME SomebodyWrites, UNCHANGED <<repo, con>>, lost => lost',
         ~lost' => \A s \in Scans : Due(s) => Due(s)'
  PROVE  SomebodyWrites'
BY DEF SomebodyWrites, Shown, Ongoing

LEMMA EndShown ==
  ASSUME \/ lost'
         \/ repo'.status \in {"ready", "error", "cancelled", "finalizing"}
         \/ repo'.status = "analyzing" /\ repo'.step = "completed"
  PROVE  SomebodyWrites'
BY DEF SomebodyWrites, Shown, Ongoing

LEMMA RowWriterWrites ==
  ASSUME IInv, SomebodyWrites, NEW s \in Scans, RowWriter(s) \/ Claim(s)
  PROVE  SomebodyWrites'
<1>1. row \in [Scans -> RowStatuses] /\ pc \in [Scans -> Pcs] /\ RepoTyped
  BY DEF IInv, Typed, RowsTyped, RowStatuses
<1>3. CASE Rescan(s)
  <2>1. row'[s] = "queued"
    BY <1>1, <1>3 DEF Rescan, SetRow
  <2> QED BY <2>1, DueWrites DEF Due
<1>4. CASE SoftStall(s)
  BY <1>4, EndShown DEF SoftStall
<1>5. CASE FailExhausted(s)
  <2>1. s \in notify'
    BY <1>5 DEF FailExhausted
  <2> QED BY <2>1, DueWrites DEF Due
<1>6. CASE CancelRow(s)
  <2>1. canc' = s
    BY <1>6 DEF CancelRow
  <2> QED BY <2>1, DueWrites DEF Due
<1>7. CASE Claim(s)
  <2>1. row'[s] = "processing" /\ pc'[s] = "start"
    BY <1>1, <1>7 DEF Claim, SetRow, Goto
  <2> QED BY <2>1, DueWrites DEF Due
<1> QED BY <1>3, <1>4, <1>5, <1>6, <1>7 DEF RowWriter

LEMMA ConnectWrites == ASSUME IInv, SomebodyWrites, Connect PROVE SomebodyWrites'
<1>1. row \in [Scans -> RowStatuses] /\ RepoTyped
  BY DEF IInv, Typed, RowsTyped, RowStatuses
<1>2. CASE ConnectCheck
  BY <1>2 DEF ConnectCheck, SomebodyWrites, Shown, Ongoing, Due, worker
<1>3. CASE ConnectRepo
  BY <1>3 DEF ConnectRepo, SomebodyWrites
<1>4. CASE ConnectQueue
  <2>1. CASE \E s \in Scans : SetRow(s, "queued")
    <3>1. PICK s \in Scans : row'[s] = "queued"
      BY <1>1, <2>1 DEF SetRow
    <3> QED BY <3>1, DueWrites DEF Due
  <2>2. CASE repo' = [repo EXCEPT !.status = "error"]
    <3>1. repo'.status = "error"
      BY <1>1, <2>2 DEF RepoTyped
    <3> QED BY <3>1, EndShown
  <2> QED BY <1>4, <2>1, <2>2 DEF ConnectQueue
<1>5. CASE ConnectDies
  BY <1>5 DEF ConnectDies, SomebodyWrites, Shown, Ongoing, Due, worker
<1> QED BY <1>2, <1>3, <1>4, <1>5 DEF Connect

(* A pipeline with a job that nobody has taken from it is due.              *)
LEMMA PipelineDue ==
  ASSUME IInv, NEW s \in Scans,
         Clone(s) \/ ReadKnown(s) \/ FinalizeRpc(s)
  PROVE  lost' \/ Due(s)'
<1>1. pc'[s] \in {"sbom", "insert", "mark"} /\ row' = row
  BY DEF Clone, ReadKnown, FinalizeRpc, Goto, IInv, Typed, RowsTyped
<1>2. lost' \/ row[s] = "processing"
  BY DEF Clone, ReadKnown, FinalizeRpc, NoteStep, Zombie
<1> QED BY <1>1, <1>2 DEF Due

LEMMA PipelineWrites ==
  ASSUME IInv, Idle, SomebodyWrites, NEW s \in Scans, Pipeline(s)
  PROVE  SomebodyWrites'
<1>1. row \in [Scans -> RowStatuses] /\ pc \in [Scans -> Pcs] /\ RepoTyped
  BY DEF IInv, Typed, RowsTyped, RowStatuses
<1>2. pc[s] # "off" /\ row[s] \notin {"absent", "queued"}
  BY PipelineRow DEF Idle
<1>3. CASE Clone(s) \/ ReadKnown(s) \/ FinalizeRpc(s)
  BY <1>3, PipelineDue, DueWrites, EndShown
<1>4. CASE Write(s)
  <2>1. \/ repo'.status = "ready"
        \/ repo'.status = "analyzing" /\ repo'.step = "completed"
    BY <1>4 DEF Write
  <2> QED BY <2>1, EndShown
<1>5. CASE SetError(s)
  <2>1. repo'.status = "error"
    BY <1>1, <1>5 DEF SetError, Show, RepoTyped
  <2> QED BY <2>1, EndShown
<1>6. ASSUME UNCHANGED <<repo, con, notify, canc>>, lost => lost', ~lost' => (Due(s) => Due(s)')
      PROVE  SomebodyWrites'
  <2>1. ASSUME NEW t \in Scans \ {s}, Due(t) PROVE Due(t)'
    BY <1>6, <2>1, PipelineRow DEF Due
  <2> QED BY <1>2, <1>6, <2>1, WritesStay
<1>7. CASE Start(s) \/ Sbom(s) \/ Stages(s)
  <2>1. /\ UNCHANGED <<row, repo, con, notify, canc, lost>>
        /\ pc[s] \in {"start", "sbom", "scan"}
        /\ pc'[s] \in {"clone", "read", "finalize"} \/ row[s] = "cancelled"
    BY <1>1, <1>7 DEF Start, Sbom, Stages, LookAtRow, Goto, clients
  <2>2. Due(s) => Due(s)'
    BY <2>1 DEF Due
  <2> QED BY <1>6, <2>1, <2>2
<1>8. CASE Insert(s) \/ InsertThrows(s) \/ Publish(s) \/ Upsert(s) \/ StageThrows(s)
  <2>1. /\ UNCHANGED <<row, repo, con, notify, canc, lost>>
        /\ pc[s] # "write" /\ pc'[s] \in {"throw", "upsert", "publish", "scan"}
    BY <1>1, <1>8 DEF Insert, InsertThrows, Publish, Upsert, StageThrows, Goto, clients
  <2>2. Due(s) => Due(s)'
    BY <2>1 DEF Due
  <2> QED BY <1>6, <2>1, <2>2
<1>9. CASE Mark(s)
  <2>1. /\ UNCHANGED <<repo, con, notify, canc, lost>>
        /\ pc[s] = "mark" /\ pc'[s] = "write"
        /\ row'[s] = row[s] \/ row'[s] = "completed"
    BY <1>1, <1>9 DEF Mark, Goto, SetRow, clients
  <2>2. Due(s) => Due(s)'
    BY <1>2, <2>1 DEF Due
  <2> QED BY <1>6, <2>1, <2>2
<1>10. CASE Post(s) \/ Finish(s)
  <2>1. /\ UNCHANGED <<repo, con, notify, canc, lost>> /\ pc[s] \in {"post", "told", "done",
                       "fail"}
    BY <1>10 DEF Post, Finish, clients
  <2>2. Due(s) => Due(s)'
    BY <1>2, <2>1 DEF Due
  <2> QED BY <1>6, <2>1, <2>2
<1>11. CASE Crash(s)
  <2>1. /\ UNCHANGED <<row, repo, con, notify, canc>> /\ pc'[s] = "off" /\ (lost => lost')
        /\ pc[s] = "write" /\ row[s] # "processing" => lost'
    BY <1>1, <1>11 DEF Crash, Goto, Zombie, clients
  <2>2. ~lost' => (Due(s) => Due(s)')
    BY <2>1 DEF Due
  <2> QED BY <1>6, <2>1, <2>2
<1> QED BY <1>3, <1>4, <1>5, <1>7, <1>8, <1>9, <1>10, <1>11 DEF Pipeline

LEMMA BystanderWrites ==
  ASSUME IInv, SomebodyWrites, Bystander
  PROVE  SomebodyWrites'
<1>1. RepoTyped /\ UNCHANGED <<row, pc>>
  BY BystanderWorkers DEF IInv, Typed, worker
<1>2. CASE \/ \E s \in Scans : Notify(s)
           \/ CancelRepo \/ BatchReady \/ LookWrite
  <2>1. repo'.status \in {"error", "cancelled", "ready", "finalizing"}
    BY <1>1, <1>2 DEF Notify, CancelRepo, BatchReady, LookWrite, Show, RepoTyped
  <2> QED BY <2>1, EndShown
<1>3. CASE NotifyDies \/ CancelDies
  BY <1>3, EndShown DEF NotifyDies, CancelDies
<1>4. CASE UNCHANGED <<repo, con, notify, canc, lost>>
  BY <1>1, <1>4, WritesStay DEF Due
<1>5. \/ \E s \in Scans : Notify(s)
      \/ CancelRepo \/ BatchReady \/ LookWrite \/ NotifyDies \/ CancelDies
      \/ UNCHANGED <<repo, con, notify, canc, lost>>
  BY DEF Bystander, Elsewhere, ElsewhereInserts, ElsewherePopulates, Deliver, Busy, TimesOut,
     Handler, Populate, Populated, Evaluate,
     Reply, BatchDies, LookRepo, LookDeps, vars, clients
<1> QED BY <1>2, <1>3, <1>4, <1>5

(* Whoever dies, a project that shows a scan is never left with nobody to   *)
(* end it: between the statements of a connect, the pipeline, recovery and  *)
(* a cancel there is always one who is still due, unless that writer itself   *)
(* was lost.                                                                *)
THEOREM NeverAbandoned == Spec => []SomebodyWrites
<1>1. ASSUME IInv, Idle, SomebodyWrites, [Next]_vars PROVE SomebodyWrites'
  BY <1>1, NextCases, ConnectWrites, RowWriterWrites, PipelineWrites, BystanderWrites
<1> QED BY Invariance, IdleInvariance, WritesInit, <1>1, PTL DEF Spec
=============================================================================
