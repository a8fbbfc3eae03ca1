----------------------------- MODULE MCEvidence -----------------------------
(***************************************************************************)
(* What is signed, for TLC: the audit log with its anchors, and the proofs *)
(* that claims and escrows rest on.  The log and the proofs share no       *)
(* state, so each behaviour is about one scene: the log, the claims of the *)
(* service, the escrows with the attestor, or the attestor's reports.      *)
(***************************************************************************)
EXTENDS AuditLog, Attestor

CONSTANTS w1, w2, n1, n2, c1, c2, c3, ar1, ar2, eth1, d1, d2, d3

VARIABLE scene

evidenceVars == <<vars, proofVars, attestorVars, scene>>

Symmetry == Permutations({w1, w2}) \cup Permutations({n1, n2}) \cup Permutations({c1, c2})

Token(amount) == [type |-> "token", amount |-> amount]
Vault(amount) == [type |-> "vault", amount |-> amount]
Ant == [type |-> "ant", amount |-> 0]
Frozen(key, row) == [recipient |-> key, type |-> row.type, amount |-> row.amount]

\* A token deposit for an Arweave key, an ANT for an Ethereum key.
FrozenDeposits == d1 :> Frozen(ar1, Token(1)) @@ d2 :> Frozen(eth1, Ant)
PossibleRows   == d1 :> {Token(2), Vault(1)} @@ d2 :> {Ant}

\* The owner of ar1 has signed for a token deposit and an ANT, not in the ledger here.
Reported == d1 :> Token(1) @@ d3 :> Ant
SignedBefore ==
  {[key |-> ar1, message |-> CanonicalMessage(d, Reported[d], c3, 0, ar1), shown |-> 0] :
     d \in {d1, d3}}

\* The id of the token in either spelling.
Repeat ==
  \E d \in {d1, d3}, w \in Spellings, s \in signed :
    Attest([id |-> d, spelling |-> w, type |-> Reported[d].type, amount |-> Reported[d].amount,
            claimant |-> c3, nonce |-> 0], ar1, s)

EvidenceInit ==
  /\ Init /\ AttestorInit
  /\ scene \in {"log", "claims", "escrow", "reports"}
  /\ ProofInit(IF scene = "reports" THEN SignedBefore ELSE {})

\* In the escrow's scene one claim is about to be made in the service as well.
EscrowScene ==
  \/ Len(claims) = 0 /\ ProofNext /\ UNCHANGED attestorVars
  \/ (\E k \in WalletKeys, i \in DOMAIN claims : SignChallenge(k, i)) /\ UNCHANGED attestorVars
  \/ EscrowNext
  \/ Len(calls) < 2 /\ AttestNext

EvidenceNext ==
  /\ UNCHANGED scene
  /\ \/ scene = "log" /\ Next /\ UNCHANGED <<proofVars, attestorVars>>
     \/ scene = "claims" /\ ProofNext /\ UNCHANGED <<vars, attestorVars>>
     \/ scene = "claims" /\ EscrowNext /\ UNCHANGED vars
     \/ scene = "escrow" /\ EscrowScene /\ UNCHANGED vars
     \/ scene = "reports" /\ (Repeat \/ Wait) /\ UNCHANGED vars

EvidenceSpec == EvidenceInit /\ [][EvidenceNext]_evidenceVars
=============================================================================
