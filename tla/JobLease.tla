------------------------------ MODULE JobLease ------------------------------
(***************************************************************************)
(* What the scan_jobs table promises, with no machines, heartbeats or SQL: *)
(* a job is submitted once, waits, is leased to one worker at a time, may  *)
(* be handed back a bounded number of times, and is settled for good.      *)
(* ExtractionWorker and DastWorker are shown to implement this module.     *)
(***************************************************************************)
EXTENDS Integers

CONSTANTS
  Jobs,         \* the rows scan_jobs may ever hold
  SlotOf,       \* SlotOf[j]: the (project, type) pair the unique index keys on
  MaxAttempts   \* how many times a job may be leased

VARIABLES
  state,        \* state[j]: where job j stands
  tries         \* tries[j]: leases granted so far

leaseVars == <<state, tries>>

Open == {"waiting", "leased"}

Init ==
  /\ state = [j \in Jobs |-> "none"]
  /\ tries = [j \in Jobs |-> 0]

(* A job enters the table only while its slot holds no open job. *)
Submit(j) ==
  /\ state[j] = "none"
  /\ \A k \in Jobs : SlotOf[k] = SlotOf[j] => state[k] \notin Open
  /\ state' = [state EXCEPT ![j] = "waiting"]
  /\ UNCHANGED tries

Grant(j) ==
  /\ state[j] = "waiting"
  /\ tries[j] < MaxAttempts
  /\ state' = [state EXCEPT ![j] = "leased"]
  /\ tries' = [tries EXCEPT ![j] = @ + 1]

(* One recovery statement may hand several jobs back. *)
HandBack(S) ==
  /\ \A j \in S : state[j] = "leased" /\ tries[j] < MaxAttempts
  /\ state' = [j \in Jobs |-> IF j \in S THEN "waiting" ELSE state[j]]
  /\ UNCHANGED tries

(* Jobs are settled by their worker, by a cancel, or by recovery; a settled *)
(* job is never open again.                                                 *)
Settle(S) ==
  /\ \A j \in S : state[j] \in Open
  /\ state' = [j \in Jobs |-> IF j \in S THEN "settled" ELSE state[j]]
  /\ UNCHANGED tries

Next ==
  \/ \E j \in Jobs : Submit(j) \/ Grant(j)
  \/ \E S \in SUBSET Jobs : HandBack(S) \/ Settle(S)

Spec == Init /\ [][Next]_leaseVars
=============================================================================
