---------------------------- MODULE MCClaimsApi -----------------------------
(***************************************************************************)
(* Instances of ClaimsApi for TLC.                                         *)
(***************************************************************************)
EXTENDS ClaimsApi, TLC

CONSTANTS r1, r2, a1, a2, u1, k1

OneRecipient == [a \in Assets |-> u1]
Ones         == [a \in Assets |-> 1]
TwoRequests  == Permutations({r1, r2})
=============================================================================
