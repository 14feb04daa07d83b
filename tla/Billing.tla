------------------------------- MODULE Billing -------------------------------
(***************************************************************************)
(* The prepaid balance of one organization: meter events that deduct from  *)
(* it (ledger.ts), auto-recharge that charges the saved card when it runs  *)
(* low (auto-recharge.ts, stripe-billing.ts), and the Stripe webhook that  *)
(* credits what was paid (billing-stripe-webhooks.ts).  Rows of different  *)
(* organizations never meet, so one is modelled.                           *)
(*                                                                         *)
(* A task is one call of recordMeterEvent with the recharge attempt it     *)
(* sets off, or one PUT auto-recharge that enables it and sets one off.    *)
(* createTopUpInvoice derives its Stripe idempotency keys from the minute, *)
(* so a payment intent is named by the minute that made it.                *)
(***************************************************************************)
EXTENDS Integers, FiniteSets

CONSTANTS
  Tasks, Hooks,      \* backend requests: tasks, and runs of the webhook
  KeyOf,             \* KeyOf[t]: idempotency key, or Null for a PUT
  Null,
  Opening,           \* balance_cents at the start
  Cost,              \* chargedCents of a meter event
  Amount, Threshold, \* auto_recharge_amount_cents, ..._threshold_cents
  Cap,               \* auto_recharge_monthly_cap_cents
  StuckAfter,        \* STUCK_FLAG_RECOVERY_MS, in ticks of the clock
  MaxMinute,         \* bound: the clock stops here
  MaxTries           \* MAX_DEDUCT_ATTEMPTS

Minutes == 0..MaxMinute
Keys    == {KeyOf[t] : t \in Tasks} \ {Null}

ASSUME BillingAssumption ==
  /\ Opening \in Nat /\ Cost \in Nat \ {0} /\ Amount \in Nat \ {0}
  /\ Threshold \in Nat /\ Cap \in Nat
  /\ StuckAfter \in Nat /\ MaxMinute \in Nat /\ MaxTries \in Nat \ {0}
  /\ IsFiniteSet(Keys)
  /\ Null \notin Tasks

VARIABLES
  org,       \* the organization_billing row
  debits,    \* usage_deduction rows of billing_transactions, by their key
  credits,   \* auto_recharge_topup rows, by their payment intent
  task,      \* task[t]: a request of the backend
  pi,        \* pi[p]: invoice and payment intent of minute p, at Stripe
  event,     \* event[p]: payment_intent.succeeded of p, owed until Stripe gets
             \* a 2xx; claimed, if billing_stripe_webhook_events has its id
  failed,    \* payment intents whose invoice.payment_failed is owed
  hook,      \* hook[h]: a run of the webhook handler
  now,
  stolen,    \* history: a charging task has had its flag cleared by another
  lost       \* history: payment intents whose event was answered 200, or its
             \* claim left behind, before they were credited

ledger  == <<debits, credits>>
stripe  == <<pi, event, failed>>
webhook == <<hook, lost>>
vars == <<org, debits, credits, task, pi, event, failed, hook, now, stolen, lost>>

Done   == [pc |-> "end", tries |-> 0, minute |-> Null]
Quiet  == [pc |-> "idle", of |-> Null]

TypeOK ==
  /\ org \in [balance : Nat, enabled : BOOLEAN, flag : BOOLEAN, since : Minutes]
  /\ debits \subseteq Keys /\ credits \subseteq Minutes
  /\ task \in [Tasks -> [pc : {"new", "rpc", "read", "unstick", "sum", "lock",
                               "invoice", "pay", "giveup", "void", "disable", "end",
                               "failed"},
                         tries : 0..MaxTries - 1, minute : Minutes \cup {Null}]]
  /\ pi \in [Minutes -> {"none", "open", "declined", "paid", "void"}]
  /\ event \in [Minutes -> {"none", "owed", "claimed", "over"}]
  /\ failed \subseteq Minutes
  /\ hook \in [Hooks -> [pc : {"idle", "credit", "clear", "release"},
                         of : Minutes \cup {Null}]]
  /\ now \in Minutes /\ stolen \in BOOLEAN /\ lost \subseteq Minutes

Init ==
  /\ org = [balance |-> Opening, enabled |-> TRUE, flag |-> FALSE, since |-> 0]
  /\ debits = {} /\ credits = {}
  /\ task = [t \in Tasks |-> [pc |-> "new", tries |-> 0, minute |-> Null]]
  /\ pi = [p \in Minutes |-> "none"]
  /\ event = [p \in Minutes |-> "none"] /\ failed = {}
  /\ hook = [h \in Hooks |-> Quiet]
  /\ now = 0 /\ stolen = FALSE /\ lost = {}

-----------------------------------------------------------------------------
Goto(t, pc) ==
  task' = [task EXCEPT ![t] = IF pc = "end" THEN Done ELSE [@ EXCEPT !.pc = pc]]

(* Between the lock and the answer of invoices.pay.                         *)
Charging(t) == task[t].pc \in {"invoice", "pay"}

(* recordMeterEvent refuses the event, throws, or dies: as far as it knows, *)
(* nothing is recorded.                                                     *)
Fail(t) == task' = [task EXCEPT ![t] = [Done EXCEPT !.pc = "failed"]]

Mark(p, s) == event' = [event EXCEPT ![p] = s]

(* auto_recharge_in_progress := false, ..._started_at := null, by anyone.   *)
FlagDown(row) == [row EXCEPT !.flag = FALSE, !.since = 0]
Steals(S) == stolen' = (stolen \/ (org.flag /\ \E t \in Tasks \ S : Charging(t)))

-----------------------------------------------------------------------------
(* recordMeterEvent.  The look-up by key comes first, an error of which     *)
(* counts as not found, then deduct_balance: one transaction that locks the *)
(* row, asks for the balance, deducts and inserts; a second row of the key  *)
(* aborts it (23505), which is answered as a duplicate if a new look-up     *)
(* finds the row.  Without the balance nothing is looked up.                *)
CheckKey(t) ==
  /\ task[t].pc = "new" /\ KeyOf[t] # Null
  /\ \E found \in {KeyOf[t] \in debits, FALSE} :
       Goto(t, IF found THEN "end" ELSE "rpc")
  /\ UNCHANGED <<org, ledger, stripe, webhook, now, stolen>>

(* Mutant: no unique index on (organization_id, idempotency_key).           *)
DeductsNoIndex(k) == org.balance >= Cost /\ k \in Keys

Deducts(k) == org.balance >= Cost /\ k \notin debits

Apply(k) ==
  IF Deducts(k)
  THEN org' = [org EXCEPT !.balance = @ - Cost] /\ debits' = debits \cup {k}
  ELSE UNCHANGED <<org, debits>>

Deduct(t) ==
  /\ task[t].pc = "rpc"
  /\ Apply(KeyOf[t])
  /\ IF Deducts(KeyOf[t]) THEN Goto(t, "read")
     ELSE Fail(t) \/ (org.balance >= Cost /\ Goto(t, "end"))
  /\ UNCHANGED <<credits, stripe, webhook, now, stolen>>

(* A transient error, before or after the transaction committed; the call   *)
(* is repeated, and in the end throws.  Mutant: off by one.                 *)
RetriesOneMore(t) == task[t].tries + 1 <= MaxTries

Retries(t) == task[t].tries + 1 < MaxTries

DeductTransient(t) ==
  /\ task[t].pc = "rpc"
  /\ Apply(KeyOf[t]) \/ UNCHANGED <<org, debits>>
  /\ IF Retries(t) THEN task' = [task EXCEPT ![t].tries = @ + 1] ELSE Fail(t)
  /\ UNCHANGED <<credits, stripe, webhook, now, stolen>>

-----------------------------------------------------------------------------
(* PUT auto-recharge with enabled = true, which also tries to recharge.     *)
Enable(t) ==
  /\ task[t].pc = "new" /\ KeyOf[t] = Null
  /\ org' = [org EXCEPT !.enabled = TRUE]
  /\ Goto(t, "read")
  /\ UNCHANGED <<ledger, stripe, webhook, now, stolen>>

(* maybeAutoRecharge reads the row once and decides on what it read.        *)
Stuck == now - org.since > StuckAfter

Read(t) ==
  /\ task[t].pc = "read"
  /\ Goto(t, CASE ~org.enabled                -> "end"
               [] org.flag /\ Stuck           -> "unstick"
               [] org.flag /\ ~Stuck          -> "end"
               [] org.balance >= Threshold    -> "end"
               [] OTHER                       -> "sum")
  /\ UNCHANGED <<org, ledger, stripe, webhook, now, stolen>>

Unstick(t) ==
  /\ task[t].pc = "unstick"
  /\ org' = FlagDown(org) /\ Steals({t})
  /\ Goto(t, "end")
  /\ UNCHANGED <<ledger, stripe, webhook, now>>

(* sumLast30Days adds up what has been credited; an error counts as zero.   *)
Sum(t) ==
  /\ task[t].pc = "sum"
  /\ \E summed \in {Cardinality(credits), 0} :
       Goto(t, IF Amount * (summed + 1) <= Cap THEN "lock" ELSE "end")
  /\ UNCHANGED <<org, ledger, stripe, webhook, now, stolen>>

(* Mutant: an update that matched no row is taken for the lock.             *)
AcquiredOnNoError == org.flag \in BOOLEAN

Acquired == ~org.flag

Lock(t) ==
  /\ task[t].pc = "lock"
  /\ IF Acquired
     THEN Goto(t, "invoice") /\ org' = [org EXCEPT !.flag = TRUE, !.since = now]
     ELSE Goto(t, "end") /\ UNCHANGED org
  /\ UNCHANGED <<ledger, stripe, webhook, now, stolen>>

(* createTopUpInvoice: within one minute Stripe answers every call with the *)
(* same invoice.                                                            *)
Invoice(t) ==
  /\ task[t].pc = "invoice"
  /\ pi' = [pi EXCEPT ![now] = IF @ = "none" THEN "open" ELSE @]
  /\ task' = [task EXCEPT ![t].pc = "pay", ![t].minute = now]
  /\ UNCHANGED <<org, ledger, event, failed, webhook, now, stolen>>

(* The flag stays up for the webhook, unless the final retrieve throws.     *)
PaySucceeds(t) ==
  LET p == task[t].minute IN
  /\ task[t].pc = "pay" /\ pi[p] \in {"open", "paid"}
  /\ pi' = [pi EXCEPT ![p] = "paid"]
  /\ IF pi[p] = "open" THEN Mark(p, "owed") ELSE UNCHANGED event
  /\ \/ Goto(t, "end")
     \/ task' = [task EXCEPT ![t].pc = "giveup", ![t].minute = Null]
  /\ UNCHANGED <<org, ledger, failed, webhook, now, stolen>>

PayDeclined(t) ==
  LET p == task[t].minute IN
  /\ task[t].pc = "pay" /\ pi[p] \in {"open", "declined", "void"}
  /\ pi' = [pi EXCEPT ![p] = IF @ = "open" THEN "declined" ELSE @]
  /\ failed' = IF pi[p] = "open" THEN failed \cup {p} ELSE failed
  /\ Goto(t, "giveup")
  /\ UNCHANGED <<org, ledger, event, webhook, now, stolen>>

(* Any Stripe call before the payment throws, or the address is missing.    *)
ChargeThrows(t) ==
  /\ Charging(t)
  /\ task' = [task EXCEPT ![t].pc = "giveup", ![t].minute = Null]
  /\ UNCHANGED <<org, ledger, stripe, webhook, now, stolen>>

(* voidOpenInvoice, which may fail.                                         *)
Void(p) ==
  \/ UNCHANGED pi
  \/ pi[p] = "declined" /\ pi' = [pi EXCEPT ![p] = "void"]

(* clearStuckFlag; then the invoice, if the call returned one, is voided.   *)
GiveUp(t) ==
  /\ task[t].pc = "giveup"
  /\ org' = FlagDown(org) /\ Steals({t})
  /\ Goto(t, IF task[t].minute = Null THEN "disable" ELSE "void")
  /\ UNCHANGED <<ledger, stripe, webhook, now>>

VoidInvoice(t) ==
  /\ task[t].pc = "void"
  /\ Void(task[t].minute)
  /\ task' = [task EXCEPT ![t].pc = "disable", ![t].minute = Null]
  /\ UNCHANGED <<org, ledger, event, failed, webhook, now, stolen>>

Disable(t) ==
  /\ task[t].pc = "disable"
  /\ org' = [org EXCEPT !.enabled = FALSE]
  /\ Goto(t, "end")
  /\ UNCHANGED <<ledger, stripe, webhook, now, stolen>>

(* The backend is restarted; the request is gone.                           *)
TaskCrash(t) ==
  /\ task[t].pc \notin {"new", "end", "failed"}
  /\ IF task[t].pc = "rpc" THEN Fail(t) ELSE Goto(t, "end")
  /\ UNCHANGED <<org, ledger, stripe, webhook, now, stolen>>

-----------------------------------------------------------------------------
(* Stripe delivers an event until it is answered with 2xx.  The handler     *)
(* claims the event id by an insert.                                        *)
Handled(p) == \E h \in Hooks : hook[h].of = p

Loses(p) == lost' = IF p \in credits THEN lost ELSE lost \cup {p}

Claim(h, p) ==
  /\ hook[h].pc = "idle" /\ event[p] = "owed"
  /\ Mark(p, "claimed")
  /\ hook' = [hook EXCEPT ![h] = [pc |-> "credit", of |-> p]]
  /\ UNCHANGED <<org, ledger, task, pi, failed, now, stolen, lost>>

(* Any failure of the insert is answered 200 already_processed: the claim   *)
(* of an earlier delivery, or an error of the database.                     *)
AlreadyProcessed(p) ==
  /\ event[p] = "claimed"
  /\ Mark(p, "over")
  /\ IF Handled(p) THEN Loses(p) ELSE UNCHANGED lost
  /\ UNCHANGED <<org, ledger, task, pi, failed, hook, now, stolen>>

ClaimError(p) ==
  /\ event[p] \in {"owed", "claimed"}
  /\ Mark(p, "over")
  /\ Loses(p)
  /\ UNCHANGED <<org, ledger, task, pi, failed, hook, now, stolen>>

(* Mutant: no unique index on the payment intent of a credit.               *)
FreshAlways(p) == p \in Minutes

Fresh(p) == p \notin credits

(* credit_balance; a second credit of the payment intent aborts (23505).    *)
Credit(h) ==
  LET p == hook[h].of IN
  /\ hook[h].pc = "credit"
  /\ org' = IF Fresh(p) THEN [org EXCEPT !.balance = @ + Amount] ELSE org
  /\ credits' = credits \cup {p}
  /\ hook' = [hook EXCEPT ![h].pc = "clear"]
  /\ UNCHANGED <<debits, task, stripe, now, stolen, lost>>

(* The handler finds no organization or no known purpose, or another        *)
(* organization's customer: it returns, the event is answered 200 and the   *)
(* claim stays.  createTopUpInvoice goes on when neither the invoice nor    *)
(* the intent could be stamped, and getInvoiceMetadata takes an error of    *)
(* Stripe for an invoice without metadata, so this may meet any payment.    *)
Unnamed(h) ==
  /\ hook[h].pc = "credit"
  /\ Mark(hook[h].of, "over") /\ Loses(hook[h].of)
  /\ hook' = [hook EXCEPT ![h] = Quiet]
  /\ UNCHANGED <<org, ledger, task, pi, failed, now, stolen>>

ClearFlag(h) ==
  /\ hook[h].pc = "clear"
  /\ org' = FlagDown(org) /\ Steals({})
  /\ Mark(hook[h].of, "over")
  /\ hook' = [hook EXCEPT ![h] = Quiet]
  /\ UNCHANGED <<ledger, task, pi, failed, now, lost>>

(* handleInvoicePaymentFailed, whose deliveries follow the same protocol,   *)
(* in one step; one that throws after its write is delivered again.  Nothing *)
(* says that it comes at all, so an event that is lost needs no action.     *)
PaymentFailed(p) ==
  /\ p \in failed
  /\ org' = [FlagDown(org) EXCEPT !.enabled = FALSE] /\ Steals({})
  /\ Void(p)
  /\ failed' \in {failed, failed \ {p}}
  /\ UNCHANGED <<ledger, task, event, webhook, now>>

(* A write of a handler fails, before or after it took effect: release the  *)
(* claim and answer 500.                                                    *)
HandlerThrows(h) ==
  /\ hook[h].pc \in {"credit", "clear"}
  /\ hook' = [hook EXCEPT ![h].pc = "release"]
  /\ \/ UNCHANGED <<org, credits>>
     \/ /\ hook[h].pc = "credit" /\ Fresh(hook[h].of)
        /\ org' = [org EXCEPT !.balance = @ + Amount]
        /\ credits' = credits \cup {hook[h].of}
  /\ UNCHANGED <<debits, task, stripe, now, stolen, lost>>

(* Mutant: the handler answers 500 but keeps the claim.                     *)
ReleaseNothing(h) ==
  /\ hook[h].pc = "release"
  /\ hook' = [hook EXCEPT ![h] = Quiet]
  /\ UNCHANGED <<org, ledger, task, stripe, now, stolen, lost>>

Release(h) ==
  /\ hook[h].pc = "release"
  /\ event' = [event EXCEPT ![hook[h].of] = IF @ = "claimed" THEN "owed" ELSE @]
  /\ hook' = [hook EXCEPT ![h] = Quiet]
  /\ UNCHANGED <<org, ledger, task, pi, failed, now, stolen, lost>>

(* The release fails and is logged, or the backend dies with the claim.     *)
ClaimKept(h) ==
  /\ hook[h].pc # "idle"
  /\ Loses(hook[h].of)
  /\ hook' = [hook EXCEPT ![h] = Quiet]
  /\ UNCHANGED <<org, ledger, task, stripe, now, stolen>>

-----------------------------------------------------------------------------
(* Stripe retries the card of an invoice that was not voided, some time     *)
(* later.                                                                   *)
SmartRetry(p) ==
  /\ pi[p] = "declined" /\ p < now
  /\ pi' = [pi EXCEPT ![p] = "paid"]
  /\ Mark(p, "owed")
  /\ UNCHANGED <<org, ledger, task, failed, webhook, now, stolen>>

Tick ==
  /\ now < MaxMinute
  /\ now' = now + 1
  /\ UNCHANGED <<org, ledger, task, stripe, webhook, stolen>>

TaskStep(t) ==
  \/ CheckKey(t) \/ Deduct(t) \/ DeductTransient(t) \/ Enable(t)
  \/ Read(t) \/ Unstick(t) \/ Sum(t) \/ Lock(t) \/ Invoice(t)
  \/ PaySucceeds(t) \/ PayDeclined(t) \/ ChargeThrows(t)
  \/ GiveUp(t) \/ VoidInvoice(t) \/ Disable(t) \/ TaskCrash(t)

HookStep(h) ==
  \/ Credit(h) \/ Unnamed(h) \/ ClearFlag(h) \/ HandlerThrows(h) \/ Release(h) \/ ClaimKept(h)

Next ==
  \/ \E t \in Tasks : TaskStep(t)
  \/ \E h \in Hooks : HookStep(h) \/ \E p \in Minutes : Claim(h, p)
  \/ \E p \in Minutes :
       \/ AlreadyProcessed(p) \/ ClaimError(p)
       \/ PaymentFailed(p) \/ SmartRetry(p)
  \/ Tick

Spec == Init /\ [][Next]_vars

(* Stripe delivers each event again for days, a handler that runs comes to  *)
(* an end, and credit_balance does not fail for ever for one payment.       *)
(* Nothing is assumed of tasks.                                             *)
Deliver(p)    == AlreadyProcessed(p) \/ \E h \in Hooks : Claim(h, p)
CreditFor(p)  == \E h \in Hooks : hook[h].of = p /\ Credit(h)

Fairness ==
  /\ \A p \in Minutes : SF_vars(Deliver(p)) /\ SF_vars(CreditFor(p))
  /\ \A h \in Hooks : WF_vars(HookStep(h))

FairSpec == Spec /\ Fairness

-----------------------------------------------------------------------------
(* Properties.                                                              *)

(* The balance is what was opened, plus each recorded payment once, minus   *)
(* each recorded meter event once; only real payments are recorded; and     *)
(* every meter event that recordMeterEvent answers as deducted or as a      *)
(* duplicate is recorded.  Retries of an RPC that had committed, two        *)
(* requests with one key and redelivered or repeated webhooks next to each  *)
(* other double nothing.  An event whose request failed - refused for the   *)
(* balance, thrown after its last try, or gone with the backend - may be    *)
(* recorded or not.                                                         *)
BalanceExact ==
  /\ org.balance = Opening + Amount * Cardinality(credits) - Cost * Cardinality(debits)
  /\ \A p \in credits : pi[p] = "paid"
  /\ \A t \in Tasks :
       KeyOf[t] # Null /\ task[t].pc \notin {"new", "rpc", "failed"} => KeyOf[t] \in debits

(* auto-recharge.ts: "exactly one caller gets a row back", so two attempts  *)
(* charge at once only after somebody else has taken down the flag of one   *)
(* that was still charging.                                                 *)
SoleCharge ==
  \A s, t \in Tasks : s # t /\ Charging(s) /\ Charging(t) => stolen

(* Whatever is paid is credited in the end although handlers throw, unless  *)
(* its event met one of the faults that release does not cover: an error of *)
(* the claim itself, a crash or failed release, an overlapping delivery, or *)
(* a delivery for which the handler could not tell the organization or the  *)
(* purpose and returned.                                                    *)
PaidIsCredited ==
  \A p \in Minutes : pi[p] = "paid" ~> p \in credits \cup lost

-----------------------------------------------------------------------------
(* A claim of the comments that the code does not keep.                     *)

(* stripe-billing.ts: an event that could not be claimed is skipped "and    *)
(* Stripe retries"; nothing is acknowledged before it is credited.          *)
AckMeansCredited ==
  \A p \in Minutes :
    pi[p] = "paid" /\ event[p] = "over" => p \in credits
=============================================================================
