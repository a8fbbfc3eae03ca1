------------------------------ MODULE Dispense ------------------------------
(***************************************************************************)
(* What dispatch promises a claimant and an operator, without saying how:  *)
(* an open claim may be paid once; it is reported confirmed only after it  *)
(* was paid; it is handed to an operator (stopped) only while it has not   *)
(* been paid, and is never paid afterwards.  Both reports are final.       *)
(***************************************************************************)
CONSTANTS Claims, Receipts

VARIABLES
  outcome,   \* what the service reports of a claim
  receipts   \* the transfers of a claim that are confirmed on chain

Init ==
  /\ outcome  = [c \in Claims |-> "open"]
  /\ receipts = [c \in Claims |-> {}]

Pay(c) ==
  /\ outcome[c] = "open"
  /\ receipts[c] = {}
  /\ \E r \in Receipts : receipts' = [receipts EXCEPT ![c] = {r}]
  /\ UNCHANGED outcome

Confirm(c) ==
  /\ outcome[c] = "open"
  /\ receipts[c] # {}
  /\ outcome' = [outcome EXCEPT ![c] = "confirmed"]
  /\ UNCHANGED receipts

Stop(c) ==
  /\ outcome[c] = "open"
  /\ receipts[c] = {}
  /\ outcome' = [outcome EXCEPT ![c] = "stopped"]
  /\ UNCHANGED receipts

Next == \E c \in Claims : Pay(c) \/ Confirm(c) \/ Stop(c)

Spec == Init /\ [][Next]_<<outcome, receipts>>
=============================================================================
