---------------------------- MODULE BillingProofs ---------------------------
(***************************************************************************)
(* The balance and the recharge flag, for any number of requests, webhook  *)
(* runs, minutes, amounts and retries.                                     *)
(***************************************************************************)
EXTENDS Billing, FiniteSetTheorems, TLAPS

TaskType == [pc : {"new", "rpc", "read", "unstick", "sum", "lock",
                   "invoice", "pay", "giveup", "void", "disable", "end", "failed"},
             tries : 0..MaxTries - 1, minute : Minutes \cup {Null}]
HookType == [pc : {"idle", "credit", "clear", "release"}, of : Minutes \cup {Null}]
OrgType  == [balance : Nat, enabled : BOOLEAN, flag : BOOLEAN, since : Minutes]

(* The rows and requests that a step changes.                               *)
LedgerTyped == org \in OrgType /\ debits \subseteq Keys /\ credits \subseteq Minutes
TasksTyped  == task \in [Tasks -> TaskType]
HooksTyped  == hook \in [Hooks -> HookType]
StripeTyped ==
  /\ pi \in [Minutes -> {"none", "open", "declined", "paid", "void"}]
  /\ event \in [Minutes -> {"none", "owed", "claimed", "over"}]
  /\ failed \subseteq Minutes
ClockTyped  == now \in Minutes /\ stolen \in BOOLEAN /\ lost \subseteq Minutes

(* What a request knows of itself.                                          *)
TaskOK ==
  \A t \in Tasks :
    /\ task[t].pc = "rpc" => KeyOf[t] # Null
    /\ task[t].pc \in {"pay", "void"} => task[t].minute \in Minutes

(* A meter event that is past recordMeterEvent, and did not fail there, is  *)
(* recorded.                                                                *)
Known(t) == KeyOf[t] # Null => KeyOf[t] \in debits

Answered == \A t \in Tasks : task[t].pc \notin {"new", "rpc", "failed"} => Known(t)

(* An event exists, is handled and is credited for paid intents only.       *)
PaidOnly ==
  /\ \A p \in Minutes : event[p] # "none" \/ p \in credits => pi[p] = "paid"
  /\ \A h \in Hooks : hook[h].pc # "idle" => hook[h].of \in Minutes /\ pi[hook[h].of] = "paid"

Balanced == org.balance = Opening + Amount * Cardinality(credits) - Cost * Cardinality(debits)

(* Until somebody else takes it down, the flag is up for the one that       *)
(* charges.                                                                 *)
FlagHeld ==
  ~stolen => \A t \in Tasks : Charging(t) =>
                org.flag /\ \A s \in Tasks : Charging(s) => s = t

IInv ==
  /\ LedgerTyped /\ TasksTyped /\ HooksTyped /\ StripeTyped /\ ClockTyped
  /\ TaskOK /\ Answered /\ PaidOnly /\ Balanced /\ FlagHeld

LEMMA TypeParts ==
  TypeOK <=> LedgerTyped /\ TasksTyped /\ HooksTyped /\ StripeTyped /\ ClockTyped
BY DEF TypeOK, LedgerTyped, TasksTyped, HooksTyped, StripeTyped, ClockTyped,
       OrgType, TaskType, HookType

-----------------------------------------------------------------------------
(* The ledger.                                                              *)
LEMMA LedgerFinite ==
  ASSUME LedgerTyped
  PROVE  /\ IsFiniteSet(credits) /\ Cardinality(credits) \in Nat
         /\ IsFiniteSet(debits) /\ Cardinality(debits) \in Nat
<1>1. IsFiniteSet(Minutes)
  BY BillingAssumption, FS_Interval DEF Minutes
<1>2. IsFiniteSet(Keys)
  BY BillingAssumption
<1>3. IsFiniteSet(credits) /\ IsFiniteSet(debits)
  BY <1>1, <1>2, FS_Subset DEF LedgerTyped
<1> QED BY <1>3, FS_CardinalityType

(* deduct_balance keeps the ledger, whether or not it deducts.              *)
LEMMA ApplyKeeps ==
  ASSUME LedgerTyped, Balanced, NEW k \in Keys, Apply(k), UNCHANGED credits
  PROVE  /\ LedgerTyped' /\ Balanced'
         /\ org'.flag = org.flag /\ org'.enabled = org.enabled
<1>0. Opening \in Nat /\ Amount \in Nat /\ Cost \in Nat
  BY BillingAssumption
<1>1. CASE Deducts(k)
  <2>1. org' = [org EXCEPT !.balance = @ - Cost] /\ debits' = debits \cup {k}
    BY <1>1 DEF Apply
  <2>2. org.balance >= Cost /\ k \notin debits /\ org.balance \in Nat
    BY <1>1 DEF Deducts, LedgerTyped, OrgType
  <2>3. Cardinality(debits') = Cardinality(debits) + 1
    BY <2>1, <2>2, LedgerFinite, FS_AddElement
  <2>4. org.balance - Cost \in Nat
    BY <2>2, <1>0
  <2>5. LedgerTyped'
    BY <2>1, <2>4 DEF LedgerTyped, OrgType
  <2>6. org'.balance = org.balance - Cost /\ org'.flag = org.flag
        /\ org'.enabled = org.enabled
    BY <2>1 DEF LedgerTyped, OrgType
  <2>7. Cost * (Cardinality(debits) + 1) = Cost * Cardinality(debits) + Cost
    BY <1>0, LedgerFinite
  <2>8. Amount * Cardinality(credits) \in Nat /\ Cost * Cardinality(debits) \in Nat
    BY <1>0, LedgerFinite
  <2>9. Balanced'
    BY <2>2, <2>3, <2>6, <2>7, <2>8, <1>0 DEF Balanced
  <2> QED BY <2>5, <2>6, <2>9
<1>2. CASE ~Deducts(k)
  BY <1>2 DEF Apply, LedgerTyped, Balanced
<1> QED BY <1>1, <1>2

(* credit_balance adds a payment once.                                      *)
CreditOnce(p) ==
  /\ org' = IF Fresh(p) THEN [org EXCEPT !.balance = @ + Amount] ELSE org
  /\ credits' = credits \cup {p}

LEMMA CreditKeeps ==
  ASSUME LedgerTyped, Balanced, NEW p \in Minutes, CreditOnce(p), UNCHANGED debits
  PROVE  LedgerTyped' /\ Balanced' /\ org'.flag = org.flag
<1>0. Opening \in Nat /\ Amount \in Nat /\ Cost \in Nat
  BY BillingAssumption
<1>1. CASE Fresh(p)
  <2>1. org' = [org EXCEPT !.balance = @ + Amount] /\ credits' = credits \cup {p}
        /\ p \notin credits
    BY <1>1 DEF CreditOnce, Fresh
  <2>2. org.balance \in Nat /\ org.balance + Amount \in Nat
    BY <1>0 DEF LedgerTyped, OrgType
  <2>3. Cardinality(credits') = Cardinality(credits) + 1
    BY <2>1, LedgerFinite, FS_AddElement
  <2>5. LedgerTyped'
    BY <2>1, <2>2 DEF LedgerTyped, OrgType
  <2>6. org'.balance = org.balance + Amount /\ org'.flag = org.flag
    BY <2>1 DEF LedgerTyped, OrgType
  <2>7. Amount * (Cardinality(credits) + 1) = Amount * Cardinality(credits) + Amount
    BY <1>0, LedgerFinite
  <2>8. Amount * Cardinality(credits) \in Nat /\ Cost * Cardinality(debits) \in Nat
    BY <1>0, LedgerFinite
  <2>9. Balanced'
    BY <2>2, <2>3, <2>6, <2>7, <2>8, <1>0 DEF Balanced
  <2> QED BY <2>5, <2>6, <2>9
<1>2. CASE ~Fresh(p)
  <2>1. credits' = credits /\ org' = org
    BY <1>2 DEF CreditOnce, Fresh
  <2> QED BY <2>1 DEF LedgerTyped, Balanced
<1> QED BY <1>1, <1>2

(* Any other step leaves the balance and the rows alone.                    *)
LEMMA OrgKeeps ==
  ASSUME LedgerTyped, Balanced, org' \in OrgType, org'.balance = org.balance,
         UNCHANGED ledger
  PROVE  LedgerTyped' /\ Balanced'
BY DEF LedgerTyped, Balanced, ledger

LEMMA LedgerNext ==
  ASSUME LedgerTyped, Balanced, TaskOK, TasksTyped, ClockTyped,
         PaidOnly, [Next]_vars
  PROVE  LedgerTyped' /\ Balanced'
<1> USE DEF TaskStep, HookStep
<1>1. ASSUME NEW t \in Tasks, Deduct(t) \/ DeductTransient(t)
      PROVE  LedgerTyped' /\ Balanced'
  <2>1. KeyOf[t] \in Keys
    BY <1>1 DEF TaskOK, Keys, Deduct, DeductTransient
  <2>2. UNCHANGED credits /\ (Apply(KeyOf[t]) \/ UNCHANGED <<org, debits>>)
    BY <1>1 DEF Deduct, DeductTransient
  <2> QED BY <2>1, <2>2, ApplyKeeps DEF LedgerTyped, Balanced
<1>2. ASSUME NEW h \in Hooks, Credit(h) \/ HandlerThrows(h)
      PROVE  LedgerTyped' /\ Balanced'
  <2>1. hook[h].of \in Minutes
    BY <1>2 DEF PaidOnly, Credit, HandlerThrows
  <2>2. UNCHANGED debits /\ (CreditOnce(hook[h].of) \/ UNCHANGED <<org, credits>>)
    BY <1>2 DEF Credit, HandlerThrows, CreditOnce
  <2> QED BY <2>1, <2>2, CreditKeeps DEF LedgerTyped, Balanced
<1>3. ASSUME UNCHANGED ledger,
             \/ UNCHANGED org \/ org' = FlagDown(org)
             \/ org' = [FlagDown(org) EXCEPT !.enabled = FALSE]
             \/ org' = [org EXCEPT !.enabled = FALSE] \/ org' = [org EXCEPT !.enabled = TRUE]
             \/ org' = [org EXCEPT !.flag = TRUE, !.since = now]
      PROVE  LedgerTyped' /\ Balanced'
  <2>1. org \in OrgType /\ now \in Minutes /\ 0 \in Minutes
    BY BillingAssumption DEF LedgerTyped, ClockTyped, Minutes
  <2>2. org' \in OrgType /\ org'.balance = org.balance
    BY <1>3, <2>1 DEF OrgType, FlagDown
  <2> QED BY <1>3, <2>2, OrgKeeps
<1>4. ASSUME NEW t \in Tasks, TaskStep(t) PROVE LedgerTyped' /\ Balanced'
  BY <1>4, <1>1, <1>3 DEF CheckKey, Enable, Read, Unstick, Sum, Lock, Invoice, PaySucceeds,
     PayDeclined, ChargeThrows, GiveUp, VoidInvoice, Disable, TaskCrash, ledger
<1>5. ASSUME NEW h \in Hooks, HookStep(h) PROVE LedgerTyped' /\ Balanced'
  BY <1>5, <1>2, <1>3 DEF Unnamed, ClearFlag, Release, ClaimKept, ledger
<1>6. ASSUME NEW p \in Minutes, (\E h \in Hooks : Claim(h, p)) \/ AlreadyProcessed(p)
                                \/ ClaimError(p) \/ PaymentFailed(p) \/ SmartRetry(p)
      PROVE  LedgerTyped' /\ Balanced'
  BY <1>6, <1>3 DEF Claim, AlreadyProcessed, ClaimError, PaymentFailed, SmartRetry, ledger
<1>7. CASE Tick \/ UNCHANGED vars
  BY <1>7, <1>3 DEF Tick, vars, ledger
<1> QED BY <1>4, <1>5, <1>6, <1>7 DEF Next

-----------------------------------------------------------------------------
(* Requests.                                                                *)
LEMMA TaskUpdate ==
  ASSUME TasksTyped, NEW t \in Tasks, NEW r \in TaskType, task' = [task EXCEPT ![t] = r]
  PROVE  /\ TasksTyped'
         /\ task'[t] = r /\ \A s \in Tasks \ {t} : task'[s] = task[s]
BY DEF TasksTyped

(* The record that a step of a request leaves behind.                       *)
LEMMA TaskRecords ==
  ASSUME NEW r \in TaskType
  PROVE  /\ Done \in TaskType /\ [Done EXCEPT !.pc = "failed"] \in TaskType
         /\ \A pc \in {"rpc", "read", "unstick", "sum", "lock", "invoice", "pay",
                       "giveup", "void", "disable"} :
              /\ [r EXCEPT !.pc = pc] \in TaskType
              /\ \A p \in Minutes \cup {Null} : [r EXCEPT !.pc = pc, !.minute = p] \in TaskType
         /\ r.tries + 1 < MaxTries => [r EXCEPT !.tries = @ + 1] \in TaskType
<1>0. MaxTries \in Nat \ {0}
  BY BillingAssumption
<1>1. Done \in TaskType /\ [Done EXCEPT !.pc = "failed"] \in TaskType
  BY <1>0 DEF Done, TaskType
<1>2. \A pc \in {"rpc", "read", "unstick", "sum", "lock", "invoice", "pay",
                 "giveup", "void", "disable"} :
        /\ [r EXCEPT !.pc = pc] \in TaskType
        /\ \A p \in Minutes \cup {Null} : [r EXCEPT !.pc = pc, !.minute = p] \in TaskType
  BY DEF TaskType
<1>3. r.tries + 1 < MaxTries => [r EXCEPT !.tries = @ + 1] \in TaskType
  BY <1>0 DEF TaskType
<1> QED BY <1>1, <1>2, <1>3

LEMMA DebitsGrow == [Next]_vars => debits \subseteq debits'
BY DEF Next, TaskStep, CheckKey, Deduct, DeductTransient, Apply, Enable, Read, Unstick, Sum,
       Lock, Invoice, PaySucceeds, PayDeclined, ChargeThrows, GiveUp, VoidInvoice, Disable,
       TaskCrash, HookStep, Credit, Unnamed, ClearFlag, HandlerThrows, Release, ClaimKept, Claim,
       AlreadyProcessed, ClaimError, PaymentFailed, SmartRetry, Tick, ledger, vars

LEMMA TaskOne ==
  ASSUME TasksTyped, TaskOK, Answered, ClockTyped, NEW t \in Tasks, TaskStep(t)
  PROVE  \E r \in TaskType :
           /\ task' = [task EXCEPT ![t] = r]
           /\ r.pc \notin {"new", "rpc", "failed"} => Known(t)'
           /\ r.pc = "rpc" => KeyOf[t] # Null
           /\ r.pc \in {"pay", "void"} => r.minute \in Minutes
           /\ r.pc \in {"invoice", "pay"} => Charging(t) \/ (Lock(t) /\ Acquired)
<1> DEFINE Fine(r) ==
      /\ r \in TaskType
      /\ task' = [task EXCEPT ![t] = r]
      /\ r.pc \notin {"new", "rpc", "failed"} => Known(t)'
      /\ r.pc = "rpc" => KeyOf[t] # Null
      /\ r.pc \in {"pay", "void"} => r.minute \in Minutes
      /\ r.pc \in {"invoice", "pay"} => Charging(t) \/ (Lock(t) /\ Acquired)
<1> DEFINE To(pc) == [task[t] EXCEPT !.pc = pc]
<1> DEFINE ToAt(pc, p) == [task[t] EXCEPT !.pc = pc, !.minute = p]
<1>0. task[t] \in TaskType /\ now \in Minutes
  BY DEF TasksTyped, ClockTyped
<1>1. SUFFICES \E r : Fine(r)
  OBVIOUS
<1>k. task[t].pc \notin {"new", "rpc", "failed"} => Known(t)'
  BY DebitsGrow DEF Answered, Known, Next
<1>2. ASSUME Goto(t, "end"), Known(t)' PROVE Fine(Done)
  BY <1>0, <1>2, TaskRecords DEF Goto, Done
<1>f. ASSUME Fail(t) PROVE Fine([Done EXCEPT !.pc = "failed"])
  BY <1>0, <1>f, TaskRecords DEF Fail, Done
<1>3. ASSUME NEW pc \in {"rpc", "read", "unstick", "sum", "lock", "invoice", "giveup",
                         "void", "disable"},
             Goto(t, pc), pc = "rpc" => KeyOf[t] # Null, pc = "rpc" \/ Known(t)',
             pc = "void" => task[t].minute \in Minutes,
             pc = "invoice" => Lock(t) /\ Acquired
      PROVE  Fine(To(pc))
  <2>1. task' = [task EXCEPT ![t] = To(pc)]
    BY <1>3 DEF Goto
  <2>2. To(pc) \in TaskType
    BY <1>0, TaskRecords
  <2>3. To(pc).pc = pc /\ To(pc).minute = task[t].minute
    BY <1>0 DEF TaskType
  <2> HIDE DEF To
  <2> QED BY <1>3, <2>1, <2>2, <2>3
<1>4. ASSUME NEW pc \in {"pay", "giveup", "disable"}, NEW p \in Minutes \cup {Null},
             task' = [task EXCEPT ![t] = ToAt(pc, p)],
             pc = "pay" => p \in Minutes /\ Charging(t), Known(t)'
      PROVE  Fine(ToAt(pc, p))
  <2>1. ToAt(pc, p) \in TaskType
    BY <1>0, TaskRecords
  <2>2. ToAt(pc, p).pc = pc /\ ToAt(pc, p).minute = p
    BY <1>0 DEF TaskType
  <2> HIDE DEF ToAt
  <2> QED BY <1>4, <2>1, <2>2
<1> HIDE DEF Fine, To, ToAt
<1>5. CASE CheckKey(t)
  BY <1>5, <1>2, <1>3 DEF CheckKey, ledger, Known
<1>6. CASE Deduct(t)
  <2>1. CASE Deducts(KeyOf[t])
    <3>1. Known(t)' /\ Goto(t, "read")
      BY <1>6, <2>1 DEF Deduct, Apply, Known
    <3> QED BY <3>1, <1>3
  <2>2. CASE ~Deducts(KeyOf[t]) /\ ~Fail(t)
    <3>1. KeyOf[t] \in debits /\ debits' = debits /\ Goto(t, "end")
      BY <1>6, <2>2 DEF Deduct, Apply, Deducts
    <3> QED BY <3>1, <1>2 DEF Known
  <2> QED BY <1>f, <2>1, <2>2, <1>6 DEF Deduct
<1>7. CASE DeductTransient(t)
  <2>1. CASE Retries(t)
    <3>1. task' = [task EXCEPT ![t] = [task[t] EXCEPT !.tries = @ + 1]]
      BY <1>7, <1>0, <2>1 DEF DeductTransient, TasksTyped, TaskType
    <3>2. [task[t] EXCEPT !.tries = @ + 1] \in TaskType
      BY <1>0, <2>1, TaskRecords DEF Retries
    <3>3. [task[t] EXCEPT !.tries = @ + 1].pc = "rpc" /\ KeyOf[t] # Null
      BY <1>7, <1>0 DEF DeductTransient, TaskType, TaskOK
    <3> QED BY <3>1, <3>2, <3>3 DEF Fine
  <2>2. CASE ~Retries(t)
    BY <1>7, <2>2, <1>f DEF DeductTransient
  <2> QED BY <2>1, <2>2
<1>8. CASE Enable(t)
  BY <1>8, <1>3 DEF Enable, Known
<1>9. CASE Read(t)
  BY <1>9, <1>k, <1>2, <1>3 DEF Read
<1>10. CASE Unstick(t) \/ Disable(t) \/ TaskCrash(t)
  BY <1>10, <1>k, <1>f, <1>2 DEF Unstick, Disable, TaskCrash
<1>11. CASE Sum(t)
  BY <1>11, <1>k, <1>2, <1>3 DEF Sum
<1>12. CASE Lock(t)
  BY <1>12, <1>k, <1>2, <1>3 DEF Lock
<1>13. CASE Invoice(t)
  <2>1. task' = [task EXCEPT ![t] = ToAt("pay", now)]
    BY <1>13, <1>0 DEF Invoice, TaskType, TasksTyped, ToAt
  <2> QED BY <1>13, <2>1, <1>0, <1>k, <1>4 DEF Invoice, Charging
<1>14. CASE PaySucceeds(t) \/ ChargeThrows(t)
  <2>1. Goto(t, "end") \/ task' = [task EXCEPT ![t] = ToAt("giveup", Null)]
    BY <1>14, <1>0 DEF PaySucceeds, ChargeThrows, TaskType, TasksTyped, ToAt
  <2> QED BY <1>14, <2>1, <1>k, <1>2, <1>4 DEF PaySucceeds, ChargeThrows, Charging
<1>15. CASE PayDeclined(t)
  BY <1>15, <1>k, <1>3 DEF PayDeclined
<1>16. CASE GiveUp(t)
  BY <1>16, <1>0, <1>k, <1>3 DEF GiveUp, TaskType
<1>17. CASE VoidInvoice(t)
  <2>1. task' = [task EXCEPT ![t] = ToAt("disable", Null)]
    BY <1>17, <1>0 DEF VoidInvoice, TaskType, TasksTyped, ToAt
  <2> QED BY <1>17, <2>1, <1>k, <1>4 DEF VoidInvoice
<1> QED BY <1>1, <1>5, <1>6, <1>7, <1>8, <1>9, <1>10, <1>11, <1>12, <1>13, <1>14,
           <1>15, <1>16, <1>17 DEF TaskStep

(* Only a step of a request changes a request.                              *)
LEMMA TasksRest ==
  [Next]_vars => (\E t \in Tasks : TaskStep(t)) \/ UNCHANGED task
BY DEF Next, HookStep, Claim, AlreadyProcessed, ClaimError, PaymentFailed, SmartRetry, Tick,
       Credit, Unnamed, ClearFlag, HandlerThrows, Release, ClaimKept, vars, webhook

LEMMA TasksNext ==
  ASSUME TasksTyped, TaskOK, Answered, ClockTyped, [Next]_vars
  PROVE  TasksTyped' /\ TaskOK' /\ Answered'
<1>0. \A s \in Tasks : task[s].pc \notin {"new", "rpc", "failed"} => Known(s)'
  BY DebitsGrow DEF Answered, Known
<1>1. ASSUME NEW t \in Tasks, TaskStep(t) PROVE TasksTyped' /\ TaskOK' /\ Answered'
  <2>1. PICK r \in TaskType :
          /\ task' = [task EXCEPT ![t] = r]
          /\ r.pc \notin {"new", "rpc", "failed"} => Known(t)'
          /\ r.pc = "rpc" => KeyOf[t] # Null
          /\ r.pc \in {"pay", "void"} => r.minute \in Minutes
    BY <1>1, TaskOne
  <2>2. TasksTyped' /\ task'[t] = r /\ \A s \in Tasks \ {t} : task'[s] = task[s]
    BY <2>1, TaskUpdate
  <2>3. ASSUME NEW s \in Tasks, task'[s].pc \notin {"new", "rpc", "failed"} PROVE Known(s)'
    BY <1>0, <2>1, <2>2, <2>3
  <2> QED BY <2>1, <2>2, <2>3 DEF TaskOK, Answered
<1>2. CASE UNCHANGED task
  BY <1>0, <1>2 DEF TasksTyped, TaskOK, Answered
<1> QED BY <1>1, <1>2, TasksRest

-----------------------------------------------------------------------------
(* Stripe, the webhook and the clock.                                       *)
(* A paid intent stays paid.                                                *)
PaidStays == \A p \in Minutes : pi[p] = "paid" => pi'[p] = "paid"

LEMMA PaidKept ==
  ASSUME PaidOnly, PaidStays, credits' = credits, hook' = hook,
         \A p \in Minutes : event'[p] = event[p] \/ pi'[p] = "paid"
  PROVE  PaidOnly'
BY DEF PaidOnly, PaidStays

LEMMA VoidKeeps ==
  ASSUME StripeTyped, NEW p \in Minutes, Void(p)
  PROVE  pi' \in [Minutes -> {"none", "open", "declined", "paid", "void"}] /\ PaidStays
BY DEF StripeTyped, Void, PaidStays

LEMMA StripeTask ==
  ASSUME StripeTyped, TasksTyped, TaskOK, ClockTyped, PaidOnly,
         NEW t \in Tasks, TaskStep(t)
  PROVE  StripeTyped' /\ PaidOnly'
<1>1. now \in Minutes /\ task[t] \in TaskType
  BY DEF ClockTyped, TasksTyped
<1>2. CASE UNCHANGED <<stripe, credits, hook>>
  BY <1>2 DEF StripeTyped, PaidOnly, stripe
<1>3. CASE Invoice(t)
  <2>1. pi' \in [Minutes -> {"none", "open", "declined", "paid", "void"}] /\ PaidStays
    BY <1>1, <1>3 DEF StripeTyped, Invoice, PaidStays
  <2> QED BY <1>3, <2>1, PaidKept DEF Invoice, StripeTyped, ledger, webhook
<1>4. CASE PaySucceeds(t)
  <2> DEFINE p == task[t].minute
  <2>1. p \in Minutes
    BY <1>4 DEF PaySucceeds, TaskOK
  <2>2. /\ pi' \in [Minutes -> {"none", "open", "declined", "paid", "void"}] /\ PaidStays
        /\ pi'[p] = "paid"
    BY <1>4, <2>1 DEF StripeTyped, PaySucceeds, PaidStays
  <2>3. /\ event' \in [Minutes -> {"none", "owed", "claimed", "over"}]
        /\ \A q \in Minutes \ {p} : event'[q] = event[q]
    BY <1>4, <2>1 DEF StripeTyped, PaySucceeds, Mark
  <2> HIDE DEF p
  <2>4. PaidOnly'
    BY <1>4, <2>2, <2>3, PaidKept DEF PaySucceeds, ledger, webhook
  <2> QED BY <1>4, <2>2, <2>3, <2>4 DEF PaySucceeds, StripeTyped
<1>5. CASE PayDeclined(t)
  <2>1. task[t].minute \in Minutes
    BY <1>5 DEF PayDeclined, TaskOK
  <2>2. /\ pi' \in [Minutes -> {"none", "open", "declined", "paid", "void"}] /\ PaidStays
        /\ failed' \subseteq Minutes
    BY <1>5, <2>1 DEF StripeTyped, PayDeclined, PaidStays
  <2> QED BY <1>5, <2>2, PaidKept DEF PayDeclined, StripeTyped, ledger, webhook
<1>6. CASE VoidInvoice(t)
  <2>1. task[t].minute \in Minutes
    BY <1>6 DEF VoidInvoice, TaskOK
  <2>2. pi' \in [Minutes -> {"none", "open", "declined", "paid", "void"}] /\ PaidStays
    BY <1>6, <2>1, VoidKeeps DEF VoidInvoice
  <2> QED BY <1>6, <2>2, PaidKept DEF VoidInvoice, StripeTyped, ledger, webhook
<1> QED BY <1>2, <1>3, <1>4, <1>5, <1>6 DEF TaskStep, CheckKey, Deduct, DeductTransient,
           Enable, Read, Unstick, Sum, Lock, ChargeThrows, GiveUp, Disable, TaskCrash,
           ledger, webhook

LEMMA StripeHook ==
  ASSUME StripeTyped, HooksTyped, PaidOnly, NEW h \in Hooks, HookStep(h)
  PROVE  StripeTyped' /\ PaidOnly' /\ HooksTyped'
<1>1. hook[h] \in HookType /\ hook[h].of \in Minutes /\ pi[hook[h].of] = "paid"
  BY DEF HooksTyped, PaidOnly, HookStep, Credit, Unnamed, ClearFlag, HandlerThrows, Release, ClaimKept
<1>2. Quiet \in HookType /\ Quiet.pc = "idle"
  BY DEF Quiet, HookType
<1>3. \A pc \in {"clear", "release"} :
        /\ [hook[h] EXCEPT !.pc = pc] \in HookType
        /\ [hook[h] EXCEPT !.pc = pc].of = hook[h].of
  BY <1>1 DEF HookType
<1>4. \E r \in HookType : /\ hook' = [hook EXCEPT ![h] = r]
                          /\ r.pc # "idle" => r.of = hook[h].of
  <2>1. hook' = [hook EXCEPT ![h] = Quiet]
        \/ \E pc \in {"clear", "release"} : hook' = [hook EXCEPT ![h] = [hook[h] EXCEPT !.pc = pc]]
    BY DEF HookStep, Credit, Unnamed, ClearFlag, HandlerThrows, Release, ClaimKept, HooksTyped
  <2> QED BY <1>2, <1>3, <2>1
<1>5. /\ HooksTyped'
      /\ \A g \in Hooks : hook'[g].pc # "idle" => hook'[g].of \in Minutes /\ pi[hook'[g].of] = "paid"
  BY <1>1, <1>4 DEF HooksTyped, PaidOnly
<1>6. pi' = pi /\ failed' = failed /\ credits' \in {credits, credits \cup {hook[h].of}}
  BY DEF HookStep, Credit, Unnamed, ClearFlag, HandlerThrows, Release, ClaimKept, stripe, ledger
<1>7. /\ event' \in [Minutes -> {"none", "owed", "claimed", "over"}]
      /\ \A q \in Minutes \ {hook[h].of} : event'[q] = event[q]
  BY <1>1 DEF HookStep, Credit, Unnamed, ClearFlag, HandlerThrows, Release, ClaimKept, stripe,
     StripeTyped, Mark
<1>8. PaidOnly'
  BY <1>1, <1>5, <1>6, <1>7 DEF PaidOnly
<1> QED BY <1>5, <1>6, <1>7, <1>8 DEF StripeTyped

LEMMA StripeEvents ==
  ASSUME StripeTyped, HooksTyped, PaidOnly, NEW p \in Minutes,
         (\E h \in Hooks : Claim(h, p)) \/ AlreadyProcessed(p) \/ ClaimError(p)
         \/ PaymentFailed(p) \/ SmartRetry(p)
  PROVE  StripeTyped' /\ PaidOnly' /\ HooksTyped'
<1>1. CASE AlreadyProcessed(p) \/ ClaimError(p)
  <2>1. /\ event' \in [Minutes -> {"none", "owed", "claimed", "over"}]
        /\ \A q \in Minutes \ {p} : event'[q] = event[q]
        /\ pi[p] = "paid" /\ UNCHANGED <<pi, failed, hook, credits>>
    BY <1>1 DEF AlreadyProcessed, ClaimError, Mark, StripeTyped, PaidOnly, ledger
  <2> QED BY <2>1, PaidKept DEF StripeTyped, HooksTyped, PaidStays
<1>2. ASSUME NEW h \in Hooks, Claim(h, p) PROVE StripeTyped' /\ PaidOnly' /\ HooksTyped'
  <2>1. /\ event' \in [Minutes -> {"none", "owed", "claimed", "over"}]
        /\ \A q \in Minutes \ {p} : event'[q] = event[q]
        /\ pi[p] = "paid" /\ UNCHANGED <<pi, failed, credits>>
    BY <1>2 DEF Claim, Mark, StripeTyped, PaidOnly, ledger
  <2>2. /\ hook' = [hook EXCEPT ![h] = [pc |-> "credit", of |-> p]]
        /\ [pc |-> "credit", of |-> p] \in HookType
    BY <1>2 DEF Claim, HookType
  <2>3. HooksTyped'
    BY <2>2 DEF HooksTyped
  <2>4. PaidOnly'
    BY <2>1, <2>2 DEF PaidOnly, HooksTyped
  <2> QED BY <2>1, <2>3, <2>4 DEF StripeTyped
<1>3. CASE PaymentFailed(p)
  <2>1. pi' \in [Minutes -> {"none", "open", "declined", "paid", "void"}] /\ PaidStays
    BY <1>3, VoidKeeps DEF PaymentFailed
  <2>2. UNCHANGED <<event, hook, credits>> /\ failed' \subseteq failed
    BY <1>3 DEF PaymentFailed, ledger, webhook
  <2> QED BY <2>1, <2>2, PaidKept DEF StripeTyped, HooksTyped
<1>4. CASE SmartRetry(p)
  <2>1. /\ pi' \in [Minutes -> {"none", "open", "declined", "paid", "void"}] /\ PaidStays
        /\ pi'[p] = "paid" /\ UNCHANGED <<failed, hook, credits>>
    BY <1>4 DEF SmartRetry, StripeTyped, PaidStays, ledger, webhook
  <2>2. /\ event' \in [Minutes -> {"none", "owed", "claimed", "over"}]
        /\ \A q \in Minutes \ {p} : event'[q] = event[q]
    BY <1>4 DEF SmartRetry, Mark, StripeTyped
  <2> QED BY <2>1, <2>2, PaidKept DEF StripeTyped, HooksTyped
<1> QED BY <1>1, <1>2, <1>3, <1>4

LEMMA ClockNext ==
  ASSUME ClockTyped, HooksTyped, PaidOnly, [Next]_vars
  PROVE  ClockTyped'
<1> USE DEF ClockTyped, webhook
<1>1. ASSUME NEW t \in Tasks, TaskStep(t) PROVE ClockTyped'
  BY <1>1 DEF TaskStep, CheckKey, Deduct, DeductTransient, Enable, Read, Unstick, Sum, Lock,
     Invoice, PaySucceeds, PayDeclined, ChargeThrows, GiveUp, VoidInvoice, Disable, TaskCrash,
     Steals
<1>2. ASSUME NEW h \in Hooks, HookStep(h) PROVE ClockTyped'
  BY <1>2 DEF HookStep, Credit, Unnamed, ClearFlag, HandlerThrows, Release, ClaimKept, Steals, Loses,
     PaidOnly
<1>3. ASSUME NEW p \in Minutes, (\E h \in Hooks : Claim(h, p)) \/ AlreadyProcessed(p)
                                \/ ClaimError(p) \/ PaymentFailed(p) \/ SmartRetry(p)
      PROVE  ClockTyped'
  BY <1>3 DEF Claim, AlreadyProcessed, ClaimError, PaymentFailed, SmartRetry, Steals, Loses
<1>4. CASE Tick
  BY <1>4, BillingAssumption DEF Tick, Minutes
<1>5. CASE UNCHANGED vars
  BY <1>5 DEF vars
<1> QED BY <1>1, <1>2, <1>3, <1>4, <1>5 DEF Next

LEMMA StripeNext ==
  ASSUME StripeTyped, HooksTyped, TasksTyped, TaskOK, ClockTyped, PaidOnly, [Next]_vars
  PROVE  StripeTyped' /\ PaidOnly' /\ HooksTyped'
<1>1. ASSUME NEW t \in Tasks, TaskStep(t) PROVE HooksTyped'
  BY <1>1 DEF TaskStep, CheckKey, Deduct, DeductTransient, Enable, Read, Unstick, Sum, Lock,
     Invoice, PaySucceeds, PayDeclined, ChargeThrows, GiveUp, VoidInvoice, Disable, TaskCrash,
     webhook, HooksTyped
<1>2. CASE Tick \/ UNCHANGED vars
  BY <1>2 DEF Tick, vars, stripe, ledger, webhook, StripeTyped, PaidOnly, HooksTyped
<1> QED BY <1>1, <1>2, StripeTask, StripeHook, StripeEvents DEF Next

-----------------------------------------------------------------------------
(* The flag.                                                                *)

(* After somebody takes it down unnoticed, nobody else is charging.         *)
LEMMA StealsNobody ==
  ASSUME FlagHeld, ClockTyped, NEW S, Steals(S), ~stolen'
  PROVE  ~stolen /\ \A t \in Tasks \ S : ~Charging(t)
BY DEF FlagHeld, ClockTyped, Steals

LEMMA FlagTask ==
  ASSUME FlagHeld, LedgerTyped, TasksTyped, TaskOK, Answered, ClockTyped, NEW t \in Tasks, TaskStep(t)
  PROVE  FlagHeld'
<1>1. PICK r \in TaskType :
        /\ task' = [task EXCEPT ![t] = r]
        /\ r.pc \in {"invoice", "pay"} => Charging(t) \/ (Lock(t) /\ Acquired)
  BY TaskOne
<1>2. /\ \A s \in Tasks \ {t} : Charging(s)' <=> Charging(s)
      /\ Charging(t)' => Charging(t) \/ (Lock(t) /\ Acquired)
  BY <1>1, TaskUpdate DEF Charging
<1>3. SUFFICES ASSUME ~stolen' PROVE FlagHeld'
  BY DEF FlagHeld
<1>4. CASE Lock(t) /\ Acquired
  <2>1. org'.flag = TRUE /\ stolen' = stolen
    BY <1>4 DEF Lock, LedgerTyped, OrgType
  <2>2. \A s \in Tasks : ~Charging(s)
    BY <1>3, <1>4, <2>1 DEF FlagHeld, Acquired
  <2> QED BY <1>2, <2>1, <2>2 DEF FlagHeld
<1>5. CASE Unstick(t) \/ GiveUp(t)
  <2>1. Steals({t}) /\ ~Charging(t)
    BY <1>5 DEF Unstick, GiveUp, Charging
  <2>2. \A s \in Tasks : ~Charging(s)
    BY <1>3, <2>1, StealsNobody
  <2>3. ~(Lock(t) /\ Acquired)
    BY <1>5 DEF Lock, Unstick, GiveUp
  <2> QED BY <1>2, <2>2, <2>3 DEF FlagHeld
<1>6. CASE ~(Lock(t) /\ Acquired) /\ ~Unstick(t) /\ ~GiveUp(t)
  <2>1. stolen' = stolen
    BY <1>6 DEF TaskStep, CheckKey, Deduct, DeductTransient, Enable, Read, Sum, Lock,
       Invoice, PaySucceeds, PayDeclined, ChargeThrows, VoidInvoice, Disable, TaskCrash
  <2>2. CASE Deduct(t) \/ DeductTransient(t)
    <3>1. org' = org \/ org' = [org EXCEPT !.balance = @ - Cost]
      BY <2>2 DEF Deduct, DeductTransient, Apply
    <3>2. org'.flag = org.flag
      BY <3>1 DEF LedgerTyped, OrgType
    <3> QED BY <1>2, <1>3, <1>6, <2>1, <3>2 DEF FlagHeld
  <2>3. CASE ~Deduct(t) /\ ~DeductTransient(t)
    <3>1. org' = org \/ org' = [org EXCEPT !.enabled = TRUE] \/ org' = [org EXCEPT !.enabled = FALSE]
      BY <1>6, <2>3 DEF TaskStep, CheckKey, Enable, Read, Sum, Lock, Invoice, PaySucceeds,
         PayDeclined, ChargeThrows, VoidInvoice, Disable, TaskCrash
    <3>2. org'.flag = org.flag
      BY <3>1 DEF LedgerTyped, OrgType
    <3> QED BY <1>2, <1>3, <1>6, <2>1, <3>2 DEF FlagHeld
  <2> QED BY <2>2, <2>3
<1> QED BY <1>4, <1>5, <1>6

(* A step of nobody's request: it takes the flag down, or leaves it.        *)
LEMMA FlagOther ==
  ASSUME FlagHeld, ClockTyped, UNCHANGED task,
         Steals({}) \/ (UNCHANGED stolen /\ org'.flag = org.flag)
  PROVE  FlagHeld'
<1>1. \A s \in Tasks : Charging(s)' <=> Charging(s)
  BY DEF Charging
<1> QED BY <1>1, StealsNobody DEF FlagHeld

LEMMA FlagNext ==
  ASSUME FlagHeld, LedgerTyped, TasksTyped, TaskOK, Answered, ClockTyped, [Next]_vars
  PROVE  FlagHeld'
<1>1. ASSUME NEW h \in Hooks, HookStep(h) PROVE FlagHeld'
  <2>1. CASE Credit(h) \/ HandlerThrows(h)
    <3>1. org' = org \/ org' = [org EXCEPT !.balance = @ + Amount]
      BY <2>1 DEF Credit, HandlerThrows
    <3>2. org'.flag = org.flag
      BY <3>1 DEF LedgerTyped, OrgType
    <3> QED BY <2>1, <3>2, FlagOther DEF Credit, HandlerThrows
  <2> QED BY <1>1, <2>1, FlagOther DEF HookStep, Unnamed, ClearFlag, Release, ClaimKept
<1>2. ASSUME NEW p \in Minutes, (\E h \in Hooks : Claim(h, p)) \/ AlreadyProcessed(p)
                                \/ ClaimError(p) \/ PaymentFailed(p) \/ SmartRetry(p)
      PROVE  FlagHeld'
  BY <1>2, FlagOther DEF Claim, AlreadyProcessed, ClaimError, PaymentFailed, SmartRetry, webhook
<1>3. CASE Tick \/ UNCHANGED vars
  BY <1>3, FlagOther DEF Tick, vars, webhook
<1> QED BY <1>1, <1>2, <1>3, FlagTask DEF Next

-----------------------------------------------------------------------------
(* The inductive invariant, and what follows from it.                       *)
LEMMA IInvInit == Init => IInv
<1> SUFFICES ASSUME Init PROVE IInv
  OBVIOUS
<1> USE DEF Init
<1>0. 0 \in Minutes /\ MaxTries \in Nat \ {0} /\ Opening \in Nat /\ Amount \in Nat /\ Cost \in Nat
  BY BillingAssumption DEF Minutes
<1>1. LedgerTyped /\ ClockTyped /\ StripeTyped
  BY <1>0 DEF LedgerTyped, OrgType, ClockTyped, StripeTyped
<1>2. TasksTyped /\ TaskOK /\ Answered /\ FlagHeld
  BY <1>0 DEF TasksTyped, TaskType, TaskOK, Answered, FlagHeld, Charging
<1>3. HooksTyped /\ PaidOnly
  BY DEF HooksTyped, HookType, PaidOnly, Quiet
<1>4. Balanced
  BY <1>0, FS_EmptySet DEF Balanced
<1> QED BY <1>1, <1>2, <1>3, <1>4 DEF IInv

LEMMA IInvNext == IInv /\ [Next]_vars => IInv'
BY LedgerNext, TasksNext, StripeNext, ClockNext, FlagNext DEF IInv

(* Spec keeps the invariant that the facts below are read off from.        *)
THEOREM Invariant == Spec => []IInv
BY IInvInit, IInvNext, PTL DEF Spec

(* Every variable keeps its type; in particular deduct_balance never takes  *)
(* the balance below zero.                                                  *)
THEOREM TypeCorrect == Spec => []TypeOK
<1>1. IInv => TypeOK
  BY TypeParts DEF IInv
<1> QED BY Invariant, <1>1, PTL

(* credit_balance and deduct_balance: the balance is the ledger, each       *)
(* recorded payment and meter event once, only paid intents are recorded,   *)
(* and so is every meter event that recordMeterEvent does not fail,         *)
(* whatever is retried, redelivered or lost.                                *)
THEOREM ExactBalance == Spec => []BalanceExact
<1>1. IInv => BalanceExact
  BY DEF IInv, BalanceExact, Balanced, Answered, Known, PaidOnly, LedgerTyped
<1> QED BY Invariant, <1>1, PTL

(* acquireLock of auto-recharge: two attempts charge at once only after     *)
(* somebody else took the flag of one of them down.                         *)
THEOREM OneCharge == Spec => []SoleCharge
<1>1. IInv => SoleCharge
  BY DEF IInv, FlagHeld, SoleCharge
<1> QED BY Invariant, <1>1, PTL

-----------------------------------------------------------------------------
(* No payment is forgotten.  A handler that has claimed the event of a      *)
(* payment and is not done has it in hand.                                  *)
InHand(p) == \E h \in Hooks : hook[h].of = p /\ hook[h].pc \in {"credit", "release"}

Accounted(p) ==
  \/ p \in credits \cup lost
  \/ event[p] = "owed"
  \/ event[p] = "claimed" /\ InHand(p)

Tracked ==
  /\ \A p \in Minutes : pi[p] = "paid" => Accounted(p)
  /\ \A h \in Hooks : hook[h].pc = "clear" => hook[h].of \in credits

LEMMA TrackedTask == ASSUME IInv, Tracked, NEW t \in Tasks, TaskStep(t) PROVE Tracked'
<1>1. UNCHANGED <<credits, lost, hook>>
  BY DEF TaskStep, CheckKey, Deduct, DeductTransient, Enable, Read, Unstick, Sum, Lock, Invoice,
         PaySucceeds, PayDeclined, ChargeThrows, GiveUp, VoidInvoice, Disable, TaskCrash,
         ledger, webhook
<1>2. ASSUME NEW p \in Minutes, pi'[p] = "paid" PROVE Accounted(p)'
  <2>1. CASE PaySucceeds(t)
    <3>1. task[t].minute \in Minutes
      BY <2>1 DEF PaySucceeds, IInv, TaskOK
    <3>2. CASE p = task[t].minute /\ pi[p] = "open"
      BY <2>1, <3>1, <3>2 DEF PaySucceeds, Mark, Accounted, IInv, StripeTyped
    <3>3. CASE p # task[t].minute \/ pi[p] # "open"
      <4>1. pi[p] = "paid" /\ event'[p] = event[p]
        BY <1>2, <2>1, <3>1, <3>3 DEF PaySucceeds, Mark, IInv, StripeTyped
      <4> QED BY <1>1, <4>1 DEF Tracked, Accounted, InHand
    <3> QED BY <3>2, <3>3
  <2>2. CASE ~PaySucceeds(t)
    <3>1. event' = event
      BY <2>2 DEF TaskStep, CheckKey, Deduct, DeductTransient, Enable, Read, Unstick, Sum, Lock,
                  Invoice, PayDeclined, ChargeThrows, GiveUp, VoidInvoice, Disable, TaskCrash,
                  stripe
    <3>2. pi[p] = "paid"
      <4>1. CASE Invoice(t) \/ PayDeclined(t)
        BY <1>2, <4>1 DEF Invoice, PayDeclined, IInv, StripeTyped
      <4>2. CASE VoidInvoice(t)
        BY <1>2, <4>2 DEF VoidInvoice, Void, IInv, StripeTyped
      <4>3. CASE ~(Invoice(t) \/ PayDeclined(t) \/ VoidInvoice(t))
        BY <1>2, <2>2, <4>3
           DEF TaskStep, CheckKey, Deduct, DeductTransient, Enable, Read, Unstick, Sum, Lock,
               ChargeThrows, GiveUp, Disable, TaskCrash, stripe
      <4> QED BY <4>1, <4>2, <4>3
    <3> QED BY <1>1, <3>1, <3>2 DEF Tracked, Accounted, InHand
  <2> QED BY <2>1, <2>2
<1> QED BY <1>1, <1>2 DEF Tracked

(* The handler credits, releases its claim, or writes the payment off.      *)
LEMMA TrackedHook == ASSUME IInv, Tracked, NEW h \in Hooks, HookStep(h) PROVE Tracked'
<1>0. PICK q \in Minutes : q = hook[h].of
  BY DEF HookStep, Credit, Unnamed, ClearFlag, HandlerThrows, Release, ClaimKept, IInv, PaidOnly
<1>1. /\ hook[h].pc # "idle" /\ hook[h].of = q
      /\ \A g \in Hooks \ {h} : hook'[g] = hook[g]
      /\ pi' = pi
  BY <1>0 DEF HookStep, Credit, Unnamed, ClearFlag, HandlerThrows, Release, ClaimKept, IInv, HooksTyped,
              stripe
<1>2. ASSUME NEW p \in Minutes PROVE p \in credits \cup lost => p \in credits' \cup lost'
  BY DEF HookStep, Credit, Unnamed, ClearFlag, HandlerThrows, Release, ClaimKept, Loses, ledger
<1>3. ASSUME NEW p \in Minutes, p # q, Accounted(p) PROVE Accounted(p)'
  <2>1. event'[p] = event[p]
    BY <1>1, <1>3 DEF HookStep, Credit, Unnamed, ClearFlag, HandlerThrows, Release, ClaimKept, stripe, Mark,
                      IInv, StripeTyped
  <2>2. InHand(p) => InHand(p)'
    BY <1>1, <1>3 DEF InHand
  <2> QED BY <1>2, <1>3, <2>1, <2>2 DEF Accounted
<1>4. pi[q] = "paid" => Accounted(q)'
  <2>1. CASE Credit(h) \/ Unnamed(h) \/ ClaimKept(h)
    BY <1>1, <2>1 DEF Credit, Unnamed, ClaimKept, Loses, Accounted, ledger
  <2>2. CASE ClearFlag(h)
    <3>1. q \in credits
      BY <1>1, <2>2 DEF ClearFlag, Tracked
    <3> QED BY <1>1, <1>2, <3>1 DEF Accounted
  <2>3. CASE HandlerThrows(h)
    <3>1. hook'[h].of = q /\ hook'[h].pc = "release" /\ event' = event
      BY <1>1, <2>3 DEF HandlerThrows, stripe, IInv, HooksTyped, HookType
    <3>2. event[q] = "claimed" => event'[q] = "claimed" /\ InHand(q)'
      BY <3>1 DEF InHand
    <3> QED BY <1>1, <1>2, <3>1, <3>2 DEF Tracked, Accounted
  <2>4. CASE Release(h)
    <3>1. event[q] \in {"claimed", "owed"} => event'[q] = "owed"
      BY <1>1, <2>4 DEF Release, IInv, StripeTyped
    <3>2. pi[q] = "paid" => q \in credits \cup lost \/ event[q] \in {"claimed", "owed"}
      BY <1>1 DEF Tracked, Accounted
    <3> QED BY <1>1, <1>2, <3>1, <3>2 DEF Accounted
  <2> QED BY <2>1, <2>2, <2>3, <2>4 DEF HookStep
<1>5. \A g \in Hooks : hook'[g].pc = "clear" => hook'[g].of \in credits'
  <2>1. credits \subseteq credits'
    BY DEF HookStep, Credit, Unnamed, ClearFlag, HandlerThrows, Release, ClaimKept, ledger
  <2>2. hook'[h].pc = "clear" => hook'[h].of \in credits'
    BY DEF HookStep, Credit, Unnamed, ClearFlag, HandlerThrows, Release, ClaimKept, Quiet, IInv, HooksTyped,
           HookType
  <2> QED BY <1>1, <2>1, <2>2 DEF Tracked
<1> QED BY <1>1, <1>3, <1>4, <1>5 DEF Tracked

(* A delivery is answered 200 without a handler only for a payment that is  *)
(* credited or written off.                                                 *)
LEMMA TrackedEvent ==
  ASSUME IInv, Tracked, NEW p \in Minutes,
         (\E h \in Hooks : Claim(h, p)) \/ AlreadyProcessed(p) \/ ClaimError(p)
         \/ PaymentFailed(p) \/ SmartRetry(p)
  PROVE  Tracked'
<1>1. credits' = credits /\ lost \subseteq lost'
  BY DEF Claim, AlreadyProcessed, ClaimError, PaymentFailed, SmartRetry, Loses, ledger, webhook
<1>2. \A q \in Minutes \ {p} : event'[q] = event[q]
  BY DEF Claim, AlreadyProcessed, ClaimError, PaymentFailed, SmartRetry, Mark, IInv, StripeTyped
<1>3. CASE AlreadyProcessed(p) \/ ClaimError(p)
  <2>1. hook' = hook /\ pi' = pi
    BY <1>3 DEF AlreadyProcessed, ClaimError
  <2>2. pi[p] = "paid" => p \in credits' \cup lost'
    <3>1. CASE ClaimError(p) \/ Handled(p)
      BY <1>3, <3>1 DEF AlreadyProcessed, ClaimError, Loses, ledger
    <3>2. CASE AlreadyProcessed(p) /\ ~Handled(p)
      BY <1>1, <3>2 DEF AlreadyProcessed, Handled, Tracked, Accounted, InHand
    <3> QED BY <1>3, <3>1, <3>2
  <2> QED BY <1>1, <1>2, <2>1, <2>2 DEF Tracked, Accounted, InHand
<1>4. ASSUME NEW h \in Hooks, Claim(h, p) PROVE Tracked'
  <2>1. /\ hook'[h] = [pc |-> "credit", of |-> p] /\ hook[h].pc = "idle"
        /\ \A g \in Hooks \ {h} : hook'[g] = hook[g]
        /\ event'[p] = "claimed" /\ pi' = pi
    BY <1>4 DEF Claim, Mark, IInv, HooksTyped, StripeTyped
  <2>2. \A q \in Minutes : InHand(q) => InHand(q)'
    BY <2>1 DEF InHand
  <2>3. InHand(p)'
    BY <2>1 DEF InHand
  <2>4. \A q \in Minutes : pi'[q] = "paid" => Accounted(q)'
    BY <1>1, <1>2, <2>1, <2>2, <2>3 DEF Tracked, Accounted
  <2>5. \A g \in Hooks : hook'[g].pc = "clear" => hook'[g].of \in credits'
    BY <1>1, <2>1 DEF Tracked
  <2> QED BY <2>4, <2>5 DEF Tracked
<1>5. CASE PaymentFailed(p)
  <2>1. UNCHANGED <<event, hook>> /\ \A q \in Minutes : pi'[q] = "paid" => pi[q] = "paid"
    BY <1>5 DEF PaymentFailed, Void, webhook, IInv, StripeTyped
  <2> QED BY <1>1, <2>1 DEF Tracked, Accounted, InHand
<1>6. CASE SmartRetry(p)
  <2>1. /\ hook' = hook /\ event'[p] = "owed"
        /\ \A q \in Minutes \ {p} : pi'[q] = pi[q]
    BY <1>6 DEF SmartRetry, Mark, webhook, IInv, StripeTyped
  <2> QED BY <1>1, <1>2, <2>1 DEF Tracked, Accounted, InHand
<1> QED BY <1>3, <1>4, <1>5, <1>6

LEMMA TrackedNext == IInv /\ Tracked /\ [Next]_vars => Tracked'
<1> SUFFICES ASSUME IInv, Tracked, [Next]_vars PROVE Tracked'
  OBVIOUS
<1>1. CASE Tick \/ UNCHANGED vars
  BY <1>1 DEF Tick, vars, ledger, stripe, webhook, Tracked, Accounted, InHand
<1> QED BY <1>1, TrackedTask, TrackedHook, TrackedEvent DEF Next

(* The safety half of PaidIsCredited: a payment that is not credited is     *)
(* still owed by Stripe, or in the hands of a handler that holds the claim  *)
(* of its event, or was lost: to an error of the claim, a kept claim, an    *)
(* overlapping delivery, or a handler that could not name the organization  *)
(* and returned.  Nothing else forgets it: no retry, no release, no         *)
(* redelivery, no flag.                                                     *)
NothingForgotten == \A p \in Minutes : pi[p] = "paid" => Accounted(p)

THEOREM Remembers == Spec => []NothingForgotten
<1>1. Init => Tracked
  BY DEF Init, Tracked, Quiet
<1>2. Tracked => NothingForgotten
  BY DEF Tracked, NothingForgotten
<1> QED BY <1>1, <1>2, TrackedNext, Invariant, PTL DEF Spec
=============================================================================
