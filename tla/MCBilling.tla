------------------------------ MODULE MCBilling ------------------------------
(* A small instance of Billing for TLC.                                     *)
EXTENDS Billing

CONSTANTS t1, t2, u1, h1, h2, k1

(* t1 and t2 are one meter event, sent twice; u1 is a user's PUT.           *)
Requests == [t \in Tasks |-> IF t = u1 THEN Null ELSE k1]

(* Any two of the three requests, and any two deliveries; t1 and t2 are     *)
(* alike, and so are h1 and h2, so t1 and h1 are the first.                 *)
TwoAtOnce ==
  /\ \E t \in Tasks : task[t].pc = "new"
  /\ t2 \in Tasks /\ task[t2].pc # "new" => task[t1].pc # "new"
  /\ h2 \in Hooks /\ hook[h2].pc # "idle" => hook[h1].pc # "idle"
==============================================================================
