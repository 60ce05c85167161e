----------------------------- MODULE FencedWork -----------------------------
(* What the build job table promises, without leases, messages or runners:  *)
(* each piece of work is held by at most one worker at a time, under an     *)
(* epoch that grows with every grant; only the holder, under the current    *)
(* epoch, can produce its product; what is finished or abandoned is never   *)
(* granted again.                                                           *)
EXTENDS Naturals

CONSTANTS
  Work, Workers, Nobody, NoProduct,
  MaxEpoch,            \* grants of one piece of work
  Product(_, _, _),    \* what a worker makes of a piece of work in an epoch
  Reusable(_, _)       \* whether one piece of work may adopt another's product

VARIABLES holder, epoch, outcome, product

workVars == <<holder, epoch, outcome, product>>

(* Work done before the specification starts has its product.               *)
Init ==
  /\ holder \in [Work -> Workers \union {Nobody}]
  /\ epoch \in [Work -> 0..MaxEpoch]
  /\ outcome \in [Work -> {"open", "done"}]
  /\ \E maker \in Workers : product = [w \in Work |->
       IF outcome[w] = "done" THEN Product(w, epoch[w], maker) ELSE NoProduct]
  /\ \A w \in Work : /\ holder[w] = Nobody
                     /\ outcome[w] = "open" => epoch[w] = 0

Grant(w) == \E x \in Workers :
  /\ outcome[w] = "open" /\ holder[w] = Nobody /\ epoch[w] < MaxEpoch
  /\ holder' = [holder EXCEPT ![w] = x]
  /\ epoch' = [epoch EXCEPT ![w] = @ + 1]
  /\ UNCHANGED <<outcome, product>>

Revoke(w) ==
  /\ holder[w] # Nobody
  /\ holder' = [holder EXCEPT ![w] = Nobody]
  /\ UNCHANGED <<epoch, outcome, product>>

Produce(w) ==
  /\ outcome[w] = "open" /\ holder[w] # Nobody
  /\ outcome' = [outcome EXCEPT ![w] = "done"]
  /\ product' = [product EXCEPT ![w] = Product(w, epoch[w], holder[w])]
  /\ holder' = [holder EXCEPT ![w] = Nobody]
  /\ UNCHANGED epoch

Adopt(w) == \E v \in Work :
  /\ outcome[w] = "open" /\ epoch[w] = 0 /\ outcome[v] = "done" /\ Reusable(w, v)
  /\ outcome' = [outcome EXCEPT ![w] = "done"]
  /\ product' = [product EXCEPT ![w] = product[v]]
  /\ UNCHANGED <<holder, epoch>>

Abandon(S) ==
  /\ \A w \in S : outcome[w] = "open"
  /\ outcome' = [w \in Work |-> IF w \in S THEN "abandoned" ELSE outcome[w]]
  /\ holder' = [w \in Work |-> IF w \in S THEN Nobody ELSE holder[w]]
  /\ UNCHANGED <<epoch, product>>

Next ==
  \/ \E w \in Work : Grant(w) \/ Revoke(w) \/ Produce(w) \/ Adopt(w)
  \/ \E S \in SUBSET Work : Abandon(S)

Spec == Init /\ [][Next]_workVars
=============================================================================
