-------------------------- MODULE PaymentContract ---------------------------
(***************************************************************************)
(* What a payment row promises whoever relies on it, in the words of       *)
(* services/payments.ts: CONFIRMED is final ("a confirmed payment cannot   *)
(* be rejected"), an expired payment is revived by a person only through a *)
(* confirmation, and a confirmed top-up is credited at most once.          *)
(***************************************************************************)
EXTENDS Naturals

CONSTANT Sales

VARIABLES status,     \* status[i]: the payment of sale i
          credits     \* credits[i]: wallet credits written for payment i

Init == /\ status = [i \in Sales |-> "NONE"]
        /\ credits = [i \in Sales |-> 0]

Move(i, from, to) ==
  /\ status[i] \in from
  /\ status' = [status EXCEPT ![i] = to]
  /\ UNCHANGED credits

Open(i) == Move(i, {"NONE"}, "PENDING")
Review(i) == Move(i, {"PENDING", "REVIEW", "REJECTED"}, "REVIEW")
Confirm(i) == Move(i, {"PENDING", "REVIEW", "REJECTED", "EXPIRED"}, "CONFIRMED")
Reject(i) == Move(i, {"PENDING", "REVIEW", "REJECTED", "EXPIRED"}, "REJECTED")

\* The expiry job closes a batch of payments nobody has acted on.
Expire == \E S \in SUBSET Sales :
  /\ \A i \in S : status[i] = "PENDING"
  /\ status' = [i \in Sales |-> IF i \in S THEN "EXPIRED" ELSE status[i]]
  /\ UNCHANGED credits

\* The one credit a confirmed top-up earns.
Credit(i) ==
  /\ status[i] = "CONFIRMED" /\ credits[i] = 0
  /\ credits' = [credits EXCEPT ![i] = 1]
  /\ UNCHANGED status

Next == \/ \E i \in Sales : Open(i) \/ Review(i) \/ Confirm(i) \/ Reject(i) \/ Credit(i)
        \/ Expire

Spec == Init /\ [][Next]_<<status, credits>>
=============================================================================
