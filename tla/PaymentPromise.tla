---------------------------- MODULE PaymentPromise ----------------------------
(***************************************************************************)
(* What the wallet promises about a payment, whatever the node and the     *)
(* network do: src/core/node.ts classifies every outcome of a submit, and  *)
(* the popup repeats the class to the user ("Nothing was sent", "it may    *)
(* already be in flight", "Sent").  The user decides again only after      *)
(* "nothing".                                                              *)
(***************************************************************************)
EXTENDS Naturals

CONSTANT Payments  \* what the user decided to pay, each once

VARIABLES
    said,   \* the last word on each payment
    landed  \* how often a transaction of it entered a node's mempool

vars == <<said, landed>>

TypeOK == /\ said \in [Payments -> {"idle", "asked", "nothing", "maybe", "sent"}]
          /\ landed \in [Payments -> Nat]

Init == said = [p \in Payments |-> "idle"] /\ landed = [p \in Payments |-> 0]

\* A decision is taken up, or refused before anything is read.
Ask(p) == /\ said[p] \in {"idle", "nothing"}
          /\ \E word \in {"asked", "nothing"} : said' = [said EXCEPT ![p] = word]
          /\ UNCHANGED landed

\* The transaction is admitted while the answer is open, or when it was left open.
Land(p) == /\ said[p] \in {"asked", "maybe"} /\ landed[p] = 0
           /\ landed' = [landed EXCEPT ![p] = 1]
           /\ UNCHANGED said

Say(p) == /\ said[p] = "asked"
          /\ \/ landed[p] = 0 /\ said' = [said EXCEPT ![p] = "nothing"]
             \/ landed[p] = 1 /\ said' = [said EXCEPT ![p] = "sent"]
             \/ said' = [said EXCEPT ![p] = "maybe"]
          /\ UNCHANGED landed

\* The worker dies: every open answer is lost.
LoseAnswers == /\ said' = [p \in Payments |-> IF said[p] = "asked" THEN "maybe" ELSE said[p]]
               /\ UNCHANGED landed

Next == LoseAnswers \/ \E p \in Payments : Ask(p) \/ Land(p) \/ Say(p)
Spec == Init /\ [][Next]_vars

\* A payment the user hears nothing was sent of has not been sent, and none is
\* sent twice.
PaidAtMostOnce == \A p \in Payments : /\ landed[p] <= 1
                                      /\ said[p] = "nothing" => landed[p] = 0
                                      /\ said[p] = "sent" => landed[p] = 1
=============================================================================
