--------------------------- MODULE ClaimCapProofs ---------------------------
(***************************************************************************)
(* Concurrent claims, for any rows, machines, organizations and caps.      *)
(***************************************************************************)
EXTENDS ClaimCap, FiniteSetTheorems, TLAPS

TxnType == [pc : {"idle", "walk", "locked", "run"}, snap : [Jobs -> Status],
            passed : SUBSET Jobs, job : Jobs \cup {Null}]

Typed ==
  /\ status \in [Jobs -> Status]
  /\ attempts \in [Jobs -> 0..MaxAttempts]
  /\ txn \in [Machines -> TxnType]

(* A row that may be claimed has an attempt left.                           *)
Budget ==
  \A j \in Jobs : /\ status[j] = "absent" => attempts[j] = 0
                  /\ status[j] = "queued" => attempts[j] < MaxAttempts

(* A row lock is held by one claim, on a queued row that was a candidate in *)
(* the snapshot of the claim.                                               *)
Holds(m) ==
  /\ txn[m].pc = "locked" =>
       /\ txn[m].job \in Jobs /\ status[txn[m].job] = "queued"
       /\ txn[m].job \in Candidates(txn[m].snap)
  /\ txn[m].pc = "run" => txn[m].job \in Jobs
Locks ==
  /\ \A m \in Machines : Holds(m)
  /\ \A m, n \in Machines :
       txn[m].pc = "locked" /\ txn[n].pc = "locked" /\ txn[m].job = txn[n].job => m = n

(* The claims that may still add a job to an organization count like jobs.  *)
Running(s, o) == {j \in Jobs : s[j] = "processing" /\ OrgOf[j] = o}
Pending(o) ==
  {m \in Machines : txn[m].pc \in {"walk", "locked"} /\ InFlight(txn[m].snap, o) < MaxPerOrg}
Counted(o) ==
  InFlight(status, o) + Cardinality(Pending(o)) < MaxPerOrg + Cardinality(Machines)

IInv == Typed /\ Budget /\ Locks /\ \A o \in Orgs : Counted(o)

-----------------------------------------------------------------------------
(* Counting.                                                                *)
LEMMA Counts ==
  /\ \A s, o : InFlight(s, o) \in Nat
  /\ \A S \in SUBSET Machines : Cardinality(S) \in Nat /\ Cardinality(S) <= Cardinality(Machines)
  /\ \A S, T \in SUBSET Machines : S \subseteq T => Cardinality(S) <= Cardinality(T)
<1>1. ASSUME NEW s, NEW o PROVE InFlight(s, o) \in Nat
  <2>1. Running(s, o) \subseteq Jobs
    BY DEF Running
  <2> QED BY <2>1, ClaimAssumption, FS_Subset, FS_CardinalityType DEF InFlight, Running
<1>2. \A S \in SUBSET Machines : IsFiniteSet(S) /\ Cardinality(S) \in Nat
  BY ClaimAssumption, FS_Subset, FS_CardinalityType
<1>3. \A S \in SUBSET Machines : Cardinality(S) <= Cardinality(Machines)
  BY ClaimAssumption, FS_Subset
<1>4. \A S, T \in SUBSET Machines : S \subseteq T => Cardinality(S) <= Cardinality(T)
  BY <1>2, FS_Subset
<1> QED BY <1>1, <1>2, <1>3, <1>4

LEMMA FewerRunning ==
  ASSUME NEW s, NEW t, NEW o, Running(s, o) \subseteq Running(t, o)
  PROVE  InFlight(s, o) <= InFlight(t, o)
<1>1. IsFiniteSet(Running(t, o))
  BY ClaimAssumption, FS_Subset DEF Running
<1> QED BY <1>1, FS_Subset DEF InFlight, Running

(* A step that takes no job and opens no claim.                             *)
LEMMA StillCounted ==
  ASSUME NEW o \in Orgs, Counted(o),
         Running(status', o) \subseteq Running(status, o),
         Pending(o)' \subseteq Pending(o)
  PROVE  Counted(o)'
<1>1. Pending(o) \subseteq Machines /\ Pending(o)' \subseteq Machines
  BY DEF Pending
<1>2. InFlight(status', o) <= InFlight(status, o)
  BY FewerRunning
<1>3. Cardinality(Pending(o)') <= Cardinality(Pending(o))
  BY <1>1, Counts
<1>4. /\ InFlight(status, o) \in Nat /\ InFlight(status', o) \in Nat
      /\ Cardinality(Pending(o)) \in Nat /\ Cardinality(Pending(o)') \in Nat
      /\ Cardinality(Machines) \in Nat
  BY <1>1, Counts
<1> QED BY <1>2, <1>3, <1>4, ClaimAssumption DEF Counted

(* A machine that gives up its claim or its job, or stays in its walk.      *)
LEMMA MachineRests ==
  ASSUME IInv, NEW m \in Machines, UNCHANGED <<status, attempts>>,
         NEW t \in TxnType, txn' = [txn EXCEPT ![m] = t],
         \/ t.pc = "idle"
         \/ t.pc = "walk" /\ txn[m].pc = "walk" /\ t.snap = txn[m].snap
  PROVE  IInv'
<1>1. /\ txn' \in [Machines -> TxnType] /\ txn'[m] = t
      /\ \A n \in Machines \ {m} : txn'[n] = txn[n]
  BY DEF IInv, Typed
<1>2. Typed' /\ Budget'
  BY <1>1 DEF IInv, Typed, Budget
<1>3. \A n \in Machines : Holds(n)'
  BY <1>1 DEF IInv, Locks, Holds, Candidates
<1>4. Locks'
  BY <1>1, <1>3 DEF IInv, Locks
<1>5. ASSUME NEW o \in Orgs PROVE Counted(o)'
  <2>1. Pending(o)' \subseteq Pending(o)
    BY <1>1 DEF Pending
  <2> QED BY <2>1, StillCounted DEF IInv
<1> QED BY <1>2, <1>4, <1>5 DEF IInv

(* A statement on a row that no claim holds.                                *)
LEMMA RowStep ==
  ASSUME IInv, UNCHANGED <<attempts, txn>>,
         NEW j \in Jobs, NEW v \in {"queued", "settled"}, ~Locked(j),
         status' = [status EXCEPT ![j] = v],
         v = "queued" => attempts[j] < MaxAttempts
  PROVE  IInv'
<1>1. Typed' /\ status'[j] = v /\ \A k \in Jobs \ {j} : status'[k] = status[k]
  BY DEF IInv, Typed, Status
<1>2. Budget'
  BY <1>1 DEF IInv, Budget
<1>3. Locks'
  BY <1>1 DEF IInv, Locks, Holds, Locked, Candidates
<1>4. ASSUME NEW o \in Orgs PROVE Counted(o)'
  <2>1. Running(status', o) \subseteq Running(status, o)
    BY <1>1 DEF Running
  <2>2. Pending(o)' = Pending(o)
    BY DEF Pending
  <2> QED BY <2>1, <2>2, StillCounted DEF IInv
<1> QED BY <1>1, <1>2, <1>3, <1>4 DEF IInv

LEMMA InitIInv == Init => IInv
<1> SUFFICES ASSUME Init PROVE IInv
  OBVIOUS
<1>1. Typed /\ Budget /\ Locks
  BY ClaimAssumption DEF Init, Typed, TxnType, Idle, None, Status, Budget, Locks, Holds
<1>2. ASSUME NEW o \in Orgs PROVE Counted(o)
  <2>1. Running(status, o) = {} /\ Pending(o) = {}
    BY DEF Init, Running, Pending, Idle
  <2>2. InFlight(status, o) = 0 /\ Cardinality(Pending(o)) = 0
    BY <2>1, FS_EmptySet DEF InFlight, Running
  <2> QED BY <2>2, Counts, ClaimAssumption DEF Counted
<1> QED BY <1>1, <1>2 DEF IInv

-----------------------------------------------------------------------------
(* The claim.                                                               *)
LEMMA IdleTyped == Idle \in TxnType /\ Idle.pc = "idle"
BY DEF Idle, None, TxnType, Status

(* A snapshot below the cap leaves room for every claim that is open.       *)
LEMMA BeginStep == ASSUME IInv, NEW m \in Machines, Begin(m) PROVE IInv'
<1> DEFINE t == [Idle EXCEPT !.pc = "walk", !.snap = status]
<1>1. /\ t \in TxnType /\ t.pc = "walk" /\ t.snap = status
      /\ txn' = [txn EXCEPT ![m] = t] /\ UNCHANGED <<status, attempts>>
  BY DEF Begin, Idle, TxnType, IInv, Typed
<1> HIDE DEF t
<1>2. /\ txn' \in [Machines -> TxnType] /\ txn'[m] = t
      /\ \A n \in Machines \ {m} : txn'[n] = txn[n]
  BY <1>1 DEF IInv, Typed
<1>3. Typed' /\ Budget'
  BY <1>1, <1>2 DEF IInv, Typed, Budget
<1>4. \A n \in Machines : Holds(n)'
  BY <1>1, <1>2 DEF IInv, Locks, Holds, Candidates
<1>5. Locks'
  BY <1>1, <1>2, <1>4 DEF IInv, Locks
<1>6. ASSUME NEW o \in Orgs PROVE Counted(o)'
  <2>1. CASE InFlight(status, o) < MaxPerOrg
    <3>1. Cardinality(Pending(o)') \in Nat /\ Cardinality(Pending(o)') <= Cardinality(Machines)
      BY Counts DEF Pending
    <3>2. InFlight(status, o) \in Nat /\ Cardinality(Machines) \in Nat
      BY Counts
    <3> QED BY <1>1, <2>1, <3>1, <3>2, ClaimAssumption DEF Counted
  <2>2. CASE ~(InFlight(status, o) < MaxPerOrg)
    <3>1. Pending(o)' \subseteq Pending(o)
      BY <1>1, <1>2, <2>2 DEF Pending
    <3> QED BY <1>1, <3>1, StillCounted DEF IInv
  <2> QED BY <2>1, <2>2
<1> QED BY <1>3, <1>5, <1>6 DEF IInv

LEMMA WalkStep ==
  ASSUME IInv, NEW m \in Machines, \/ \E j \in Jobs : PassOver(m, j)
                                   \/ Empty(m) \/ Crash(m)
  PROVE  IInv'
<1>1. CASE Empty(m) \/ Crash(m)
  BY <1>1, IdleTyped, MachineRests DEF Empty, Crash
<1>2. CASE \E j \in Jobs : PassOver(m, j)
  <2>1. PICK j \in Jobs : PassOver(m, j)
    BY <1>2
  <2> DEFINE t == [txn[m] EXCEPT !.passed = txn[m].passed \cup {j}]
  <2>2. /\ txn' = [txn EXCEPT ![m] = t] /\ UNCHANGED <<status, attempts>>
        /\ txn[m].pc = "walk" /\ txn[m] \in TxnType
    BY <2>1 DEF PassOver, NextUp, IInv, Typed
  <2>3. t \in TxnType /\ t.pc = "walk" /\ t.snap = txn[m].snap
    BY <2>2 DEF TxnType
  <2> QED BY <2>2, <2>3, MachineRests
<1> QED BY <1>1, <1>2

(* The row is a candidate of the snapshot, and queued still.                *)
LEMMA LockStep == ASSUME IInv, NEW m \in Machines, NEW j \in Jobs, Lock(m, j) PROVE IInv'
<1> DEFINE t == [txn[m] EXCEPT !.pc = "locked", !.job = j]
<1>1. /\ txn' = [txn EXCEPT ![m] = t] /\ UNCHANGED <<status, attempts>>
      /\ txn[m].pc = "walk" /\ txn[m] \in TxnType
      /\ ~Locked(j) /\ status[j] = "queued" /\ j \in Candidates(txn[m].snap)
  BY DEF Lock, NextUp, Recheck, Left, IInv, Typed
<1>2. t \in TxnType /\ t.pc = "locked" /\ t.job = j /\ t.snap = txn[m].snap
  BY <1>1 DEF TxnType
<1> HIDE DEF t
<1>3. /\ txn' \in [Machines -> TxnType] /\ txn'[m] = t
      /\ \A n \in Machines \ {m} : txn'[n] = txn[n]
  BY <1>1, <1>2 DEF IInv, Typed
<1>4. Typed' /\ Budget'
  BY <1>1, <1>3 DEF IInv, Typed, Budget
<1>5. \A n \in Machines : Holds(n)'
  BY <1>1, <1>2, <1>3 DEF IInv, Locks, Holds, Candidates
<1>6. Locks'
  BY <1>1, <1>2, <1>3, <1>5 DEF IInv, Locks, Locked
<1>7. ASSUME NEW o \in Orgs PROVE Counted(o)'
  <2>1. Pending(o)' \subseteq Pending(o) /\ UNCHANGED status
    BY <1>1, <1>2, <1>3 DEF Pending
  <2> QED BY <2>1, StillCounted DEF IInv
<1> QED BY <1>4, <1>6, <1>7 DEF IInv

(* One job more, one open claim less.                                       *)
LEMMA CommitStep == ASSUME IInv, NEW m \in Machines, Commit(m) PROVE IInv'
<1> DEFINE j == txn[m].job
           t == [Idle EXCEPT !.pc = "run", !.job = j]
<1>1. /\ txn[m].pc = "locked" /\ j \in Jobs /\ status[j] = "queued"
      /\ j \in Candidates(txn[m].snap) /\ attempts[j] < MaxAttempts
      /\ attempts[j] \in 0..MaxAttempts
  BY DEF Commit, IInv, Locks, Holds, Budget, Typed
<1>2. /\ status' = [status EXCEPT ![j] = "processing"]
      /\ attempts' = [attempts EXCEPT ![j] = attempts[j] + 1]
      /\ txn' = [txn EXCEPT ![m] = t]
  BY DEF Commit
<1>3. t \in TxnType /\ t.pc = "run" /\ t.job = j
  BY <1>1, IdleTyped DEF TxnType
<1> HIDE DEF t
<1>4. /\ txn' \in [Machines -> TxnType] /\ txn'[m] = t
      /\ \A n \in Machines \ {m} : txn'[n] = txn[n]
  BY <1>2, <1>3 DEF IInv, Typed
<1>5. /\ status' \in [Jobs -> Status] /\ status'[j] = "processing"
      /\ \A k \in Jobs \ {j} : status'[k] = status[k]
  BY <1>1, <1>2 DEF IInv, Typed, Status
<1>6. attempts[j] + 1 \in 0..MaxAttempts
  BY <1>1, ClaimAssumption
<1>7. /\ attempts' \in [Jobs -> 0..MaxAttempts]
      /\ \A k \in Jobs \ {j} : attempts'[k] = attempts[k]
  BY <1>1, <1>2, <1>6 DEF IInv, Typed
<1>8. Typed' /\ Budget'
  BY <1>4, <1>5, <1>7 DEF IInv, Typed, Budget
<1>9. Locks'
  <2>1. ASSUME NEW n \in Machines \ {m} PROVE Holds(n)'
    <3>1. txn[n].pc = "locked" => txn[n].job # j
      BY <1>1 DEF IInv, Locks
    <3> QED BY <1>4, <1>5, <3>1 DEF IInv, Locks, Holds, Candidates
  <2>2. Holds(m)'
    BY <1>1, <1>3, <1>4 DEF Holds
  <2> QED BY <1>3, <1>4, <2>1, <2>2 DEF IInv, Locks
<1>10. ASSUME NEW o \in Orgs PROVE Counted(o)'
  <2>1. CASE OrgOf[j] # o
    <3>1. Running(status', o) \subseteq Running(status, o)
      BY <1>5, <2>1 DEF Running
    <3>2. Pending(o)' \subseteq Pending(o)
      BY <1>3, <1>4 DEF Pending
    <3> QED BY <3>1, <3>2, StillCounted DEF IInv
  <2>2. CASE OrgOf[j] = o
    <3>1. m \in Pending(o) /\ Pending(o)' = Pending(o) \ {m}
      BY <1>1, <1>3, <1>4, <2>2 DEF Pending, Candidates, Load
    <3>2. IsFiniteSet(Pending(o))
      BY ClaimAssumption, FS_Subset DEF Pending
    <3>3. Cardinality(Pending(o)') = Cardinality(Pending(o)) - 1
      BY <3>1, <3>2, FS_RemoveElement
    <3>4. Running(status', o) = Running(status, o) \cup {j} /\ j \notin Running(status, o)
      BY <1>1, <1>5, <2>2 DEF Running
    <3>5. IsFiniteSet(Running(status, o))
      BY ClaimAssumption, FS_Subset DEF Running
    <3>6. InFlight(status', o) = InFlight(status, o) + 1
      BY <3>4, <3>5, FS_AddElement DEF InFlight, Running
    <3>7. InFlight(status, o) \in Nat /\ Cardinality(Pending(o)) \in Nat /\ Cardinality(Machines) \in Nat
      BY <3>2, Counts, FS_CardinalityType
    <3> QED BY <3>3, <3>6, <3>7, ClaimAssumption DEF Counted, IInv
  <2> QED BY <2>1, <2>2
<1> QED BY <1>8, <1>9, <1>10 DEF IInv

LEMMA FinishStep == ASSUME IInv, NEW m \in Machines, Finish(m) PROVE IInv'
<1> DEFINE j == txn[m].job
<1>1. j \in Jobs /\ txn[m].pc = "run"
  BY DEF Finish, IInv, Locks, Holds
<1>2. /\ status' = [status EXCEPT ![j] = IF status[j] = "processing" THEN "settled" ELSE status[j]]
      /\ txn' = [txn EXCEPT ![m] = Idle] /\ UNCHANGED attempts
  BY DEF Finish
<1>3. /\ txn' \in [Machines -> TxnType] /\ txn'[m].pc = "idle"
      /\ \A n \in Machines \ {m} : txn'[n] = txn[n]
  BY <1>2, IdleTyped DEF IInv, Typed
<1>4. /\ status' \in [Jobs -> Status]
      /\ \A k \in Jobs : \/ status'[k] = status[k]
                         \/ status[k] = "processing" /\ status'[k] = "settled"
  BY <1>1, <1>2 DEF IInv, Typed, Status
<1>5. Typed' /\ Budget'
  BY <1>2, <1>3, <1>4 DEF IInv, Typed, Budget
<1>6. \A n \in Machines : Holds(n)'
  BY <1>3, <1>4 DEF IInv, Locks, Holds, Candidates
<1>7. Locks'
  BY <1>3, <1>6 DEF IInv, Locks
<1>8. ASSUME NEW o \in Orgs PROVE Counted(o)'
  <2>1. Running(status', o) \subseteq Running(status, o)
    BY <1>4 DEF Running
  <2>2. Pending(o)' \subseteq Pending(o)
    BY <1>3 DEF Pending
  <2> QED BY <2>1, <2>2, StillCounted DEF IInv
<1> QED BY <1>5, <1>7, <1>8 DEF IInv

-----------------------------------------------------------------------------
(* The other statements.                                                    *)
LEMMA OthersStep ==
  ASSUME IInv, NEW j \in Jobs, Insert(j) \/ Cancel(j) \/ Recover(j)
  PROVE  IInv'
<1>1. UNCHANGED <<attempts, txn>>
  BY DEF Insert, Cancel, Recover
<1>2. PICK v \in {"queued", "settled"} : status' = [status EXCEPT ![j] = v]
  BY DEF Insert, Cancel, Recover
<1>3. status[j] # "queued" => ~Locked(j)
  BY DEF IInv, Locks, Holds, Locked
<1>4. ~Locked(j)
  BY <1>3 DEF Insert, Cancel, Recover
<1>5. v = "queued" => attempts[j] < MaxAttempts
  <2>1. CASE Insert(j)
    BY <2>1, ClaimAssumption DEF Insert, IInv, Budget
  <2>2. CASE Cancel(j)
    BY <1>2, <2>2 DEF Cancel, IInv, Typed
  <2>3. CASE Recover(j)
    BY <1>2, <2>3 DEF Recover, IInv, Typed
  <2> QED BY <2>1, <2>2, <2>3
<1> QED BY <1>1, <1>2, <1>4, <1>5, RowStep

LEMMA StepIInv == IInv /\ [Next]_vars => IInv'
<1> SUFFICES ASSUME IInv, [Next]_vars PROVE IInv'
  OBVIOUS
<1>1. ASSUME NEW m \in Machines,
             \/ Begin(m) \/ Commit(m) \/ Empty(m) \/ Finish(m) \/ Crash(m)
             \/ \E j \in Jobs : PassOver(m, j) \/ Lock(m, j)
      PROVE  IInv'
  BY <1>1, BeginStep, CommitStep, WalkStep, FinishStep, LockStep
<1>2. ASSUME NEW j \in Jobs, Insert(j) \/ Cancel(j) \/ Recover(j) PROVE IInv'
  BY <1>2, OthersStep
<1>3. CASE UNCHANGED vars
  BY <1>3 DEF vars, IInv, Typed, Budget, Locks, Holds, Counted, Pending
<1> QED BY <1>1, <1>2, <1>3 DEF Next

LEMMA Invariance == Spec => []IInv
BY InitIInv, StepIInv, PTL DEF Spec

(* No row is claimed more often than max_attempts allows, whatever the      *)
(* snapshots of the claims were.                                            *)
THEOREM TypeCorrect == Spec => []TypeOK
<1>1. IInv => TypeOK
  BY DEF IInv, Typed, TxnType, TypeOK
<1> QED BY <1>1, Invariance, PTL

(* claim_scan_job overruns p_max_per_org by fewer jobs than there are       *)
(* machines, for any number of claims at once, lost ones included.          *)
THEOREM BoundedOverrun == Spec => []OverrunBounded
<1>1. ASSUME IInv, NEW o \in Orgs PROVE InFlight(status, o) < MaxPerOrg + Cardinality(Machines)
  <2>1. Counted(o) /\ InFlight(status, o) \in Nat /\ Cardinality(Machines) \in Nat
    BY <1>1, Counts DEF IInv
  <2>2. Cardinality(Pending(o)) \in Nat
    BY Counts DEF Pending
  <2> QED BY <2>1, <2>2, ClaimAssumption DEF Counted
<1>2. IInv => OverrunBounded
  BY <1>1 DEF OverrunBounded
<1> QED BY <1>2, Invariance, PTL

-----------------------------------------------------------------------------
(* The refinement of JobLease.                                              *)
LeaseOf(v) ==
  CASE v = "absent"     -> "none"
    [] v = "queued"     -> "waiting"
    [] v = "processing" -> "leased"
    [] OTHER            -> "settled"

LEMMA LeaseByStatus ==
  /\ LeaseState = [j \in Jobs |-> LeaseOf(status[j])]
  /\ LeaseState' = [j \in Jobs |-> LeaseOf(status'[j])]
BY DEF LeaseState, LeaseOf

LEMMA LeaseSame ==
  ASSUME UNCHANGED <<status, attempts>> PROVE UNCHANGED Lease!leaseVars
BY LeaseByStatus DEF Lease!leaseVars

LEMMA SettleLease ==
  ASSUME IInv, UNCHANGED attempts, NEW j \in Jobs, status[j] \in {"queued", "processing"},
         status' = [status EXCEPT ![j] = "settled"]
  PROVE  Lease!Settle({j})
<1>1. /\ status'[j] = "settled" /\ \A k \in Jobs \ {j} : status'[k] = status[k]
  BY DEF IInv, Typed
<1>2. LeaseOf(status[j]) \in Lease!Open /\ LeaseOf(status'[j]) = "settled"
  BY <1>1 DEF LeaseOf, Lease!Open
<1> QED BY <1>1, <1>2, LeaseByStatus DEF Lease!Settle

LEMMA CommitLease == ASSUME IInv, NEW m \in Machines, Commit(m) PROVE Lease!Grant(txn[m].job)
<1> DEFINE j == txn[m].job
<1>1. j \in Jobs /\ status[j] = "queued" /\ attempts[j] < MaxAttempts
  BY DEF Commit, IInv, Locks, Holds, Budget
<1>2. /\ status'[j] = "processing" /\ \A k \in Jobs \ {j} : status'[k] = status[k]
      /\ attempts' = [attempts EXCEPT ![j] = attempts[j] + 1]
  BY <1>1 DEF Commit, IInv, Typed
<1>3. LeaseOf(status[j]) = "waiting" /\ LeaseOf(status'[j]) = "leased"
  BY <1>1, <1>2 DEF LeaseOf
<1> QED BY <1>1, <1>2, <1>3, LeaseByStatus DEF Lease!Grant

LEMMA StepLease == IInv /\ [Next]_vars => [Lease!Next]_(Lease!leaseVars)
<1> SUFFICES ASSUME IInv, [Next]_vars PROVE [Lease!Next]_(Lease!leaseVars)
  OBVIOUS
<1>1. ASSUME NEW m \in Machines,
             \/ Begin(m) \/ Empty(m) \/ Crash(m)
             \/ \E j \in Jobs : PassOver(m, j) \/ Lock(m, j)
      PROVE  UNCHANGED Lease!leaseVars
  BY <1>1, LeaseSame DEF Begin, Empty, Crash, PassOver, Lock
<1>2. ASSUME NEW m \in Machines, Commit(m) PROVE Lease!Next
  <2>1. txn[m].job \in Jobs
    BY <1>2 DEF Commit, IInv, Locks, Holds
  <2> QED BY <1>2, <2>1, CommitLease DEF Lease!Next
<1>3. ASSUME NEW m \in Machines, Finish(m) PROVE [Lease!Next]_(Lease!leaseVars)
  <2>1. txn[m].job \in Jobs
    BY <1>3 DEF Finish, IInv, Locks, Holds
  <2>2. CASE status[txn[m].job] = "processing"
    <3>1. Lease!Settle({txn[m].job})
      BY <1>3, <2>1, <2>2, SettleLease DEF Finish
    <3> QED BY <2>1, <3>1 DEF Lease!Next
  <2>3. CASE status[txn[m].job] # "processing"
    <3>1. UNCHANGED <<status, attempts>>
      BY <1>3, <2>1, <2>3 DEF Finish, IInv, Typed
    <3> QED BY <3>1, LeaseSame
  <2> QED BY <2>2, <2>3
<1>4. ASSUME NEW j \in Jobs, Insert(j) PROVE Lease!Next
  <2>1. /\ status'[j] = "queued" /\ \A k \in Jobs \ {j} : status'[k] = status[k]
        /\ UNCHANGED attempts
    BY <1>4 DEF Insert, IInv, Typed
  <2>2. LeaseOf(status[j]) = "none" /\ LeaseOf(status'[j]) = "waiting"
    BY <1>4, <2>1 DEF Insert, LeaseOf
  <2>3. \A k \in Jobs : SlotOf[k] = SlotOf[j] => LeaseOf(status[k]) \notin Lease!Open
    BY <1>4 DEF Insert, LeaseOf, Lease!Open
  <2>4. Lease!Submit(j)
    BY <2>1, <2>2, <2>3, LeaseByStatus DEF Lease!Submit
  <2> QED BY <2>4 DEF Lease!Next
<1>5. ASSUME NEW j \in Jobs, Cancel(j) PROVE Lease!Next
  BY <1>5, SettleLease DEF Cancel, Lease!Next
<1>6. ASSUME NEW j \in Jobs, Recover(j) PROVE Lease!Next
  <2>1. CASE attempts[j] < MaxAttempts
    <3>1. /\ status'[j] = "queued" /\ \A k \in Jobs \ {j} : status'[k] = status[k]
          /\ UNCHANGED attempts
      BY <1>6, <2>1 DEF Recover, IInv, Typed
    <3>2. LeaseOf(status[j]) = "leased" /\ LeaseOf(status'[j]) = "waiting"
      BY <1>6, <3>1 DEF Recover, LeaseOf
    <3>3. Lease!HandBack({j})
      BY <2>1, <3>1, <3>2, LeaseByStatus DEF Lease!HandBack
    <3> QED BY <3>3 DEF Lease!Next
  <2>2. CASE ~(attempts[j] < MaxAttempts)
    BY <1>6, <2>2, SettleLease DEF Recover, Lease!Next
  <2> QED BY <2>1, <2>2
<1>7. CASE UNCHANGED vars
  BY <1>7, LeaseSame DEF vars
<1> QED BY <1>1, <1>2, <1>3, <1>4, <1>5, <1>6, <1>7 DEF Next

(* The claim, taken apart into snapshot, row locks and commit, is a grant   *)
(* of JobLease under every interleaving.                                    *)
THEOREM Refinement == Spec => ImplementsJobLease
<1>1. Init => Lease!Init
  BY LeaseByStatus DEF Init, Lease!Init, LeaseOf
<1> QED BY Invariance, StepLease, <1>1, PTL DEF Spec, ImplementsJobLease, Lease!Spec
=============================================================================
