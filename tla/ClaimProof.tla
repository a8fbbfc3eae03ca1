----------------------------- MODULE ClaimProof -----------------------------
(***************************************************************************)
(* What a claimant must prove: verify/*.ts and the parts of api/service.ts *)
(* that issue a challenge and check the answer.  The message to sign is    *)
(* built by packages/canonical from the ledger's row and the challenge's   *)
(* nonce, shown to the wallet, and built again from the ledger when the    *)
(* signature comes back; the ledger may have been rebuilt in between.      *)
(*                                                                         *)
(* Cryptography is ideal: a signature verifies under the key that made it, *)
(* over the message it was made for, and under no other.  The network line *)
(* of a message is the same in all messages of a deployment and left out.  *)
(* Locks, retries and the brake are in ClaimsApi: a claim that is accepted *)
(* is "verified" here whether or not it is held for review.                *)
(***************************************************************************)
EXTENDS Naturals, Sequences, FiniteSets

CONSTANTS
  Nobody,      \* no wallet, no address
  ArKeys,      \* Arweave keys (RSA moduli)
  EthKeys,     \* Ethereum keys (addresses)
  Claimants,   \* destination wallets
  Deposits,    \* id -> [recipient, type, amount]: what was frozen
  RowsOf,      \* id -> the [type, amount] a rebuild may give the row
  MaxClaims,   \* bound: claims initiated
  MaxSignings  \* bound: signatures made

VARIABLES
  assets,      \* id -> [recipient, type, amount, status]
  claims,      \* the claims table, in order of insertion
  signed,      \* signatures made: [key, message, shown], shown being the claim
               \* whose challenge the wallet had before it (0: an escrow's page)
  accepted     \* <<claim, signature>> answered with success by /complete

proofVars == <<assets, claims, signed, accepted>>

WalletKeys == ArKeys \cup EthKeys
Ids == DOMAIN Deposits

ASSUME ProofAssumption ==
  /\ Nobody \notin WalletKeys
  /\ Deposits \in [Ids -> [recipient : WalletKeys, type : {"token", "vault", "ant"}, amount : Nat]]
  /\ \A d \in Ids : RowsOf[d] \subseteq [type : {"token", "vault", "ant"}, amount : Nat]

\* before: signatures made earlier, at the pages of escrows.
ProofInit(before) ==
  /\ assets = [d \in Ids |-> [recipient |-> Deposits[d].recipient, type |-> Deposits[d].type,
                              amount |-> Deposits[d].amount, status |-> "available"]]
  /\ claims = <<>>
  /\ signed = before
  /\ accepted = {}

-----------------------------------------------------------------------------
(* The canonical message.  b64url(sha256(key)) has no collisions: the key  *)
(* itself stands for it.                                                   *)

\* Mutant: the message does not say whose key it is for.
NoRecipientId(key) == Nobody

DeriveRecipientId(key) == key

AntEscrowClaimMessage(mint, claimant, nonce, key) ==
  [header |-> "ant-escrow claim", recipient |-> DeriveRecipientId(key), ant |-> mint,
   claimant |-> claimant, nonce |-> nonce]

EscrowClaimMessage(type, id, amount, claimant, nonce, key) ==
  [header |-> "escrow claim", recipient |-> DeriveRecipientId(key), type |-> type,
   asset |-> id, amount |-> amount, claimant |-> claimant, nonce |-> nonce]

CanonicalMessage(id, row, claimant, nonce, key) ==
  IF row.type = "ant"
  THEN AntEscrowClaimMessage(id, claimant, nonce, key)
  ELSE EscrowClaimMessage(row.type, id, row.amount, claimant, nonce, key)

-----------------------------------------------------------------------------
(* Checking a signature.  A proof holds one of the signatures made, as it  *)
(* is or spoilt (a wrong length, an unsupported salt, a recovery id out of *)
(* range, the high S that anyone can compute), and repeats what the client *)
(* signed with (modulus, nonce, claimant) or leaves these fields out.      *)

Proofs ==
  {[sig |-> s, spoilt |-> b, echoes |-> e] : s \in signed, b \in BOOLEAN, e \in BOOLEAN}

Protocol(key) == IF key \in ArKeys THEN "arweave" ELSE "ethereum"

\* The client names the protocol of the wallet it signed with.
BuildProof(p, recipient) == Protocol(p.sig.key) = Protocol(recipient) /\ ~p.spoilt

VerifyRsaPss(message, sig, modulus) == sig.message = message /\ sig.key = modulus

\* Recovering from another message yields an address nobody has.
RecoverAddress(message, sig) == IF sig.message = message THEN sig.key ELSE Nobody

VerifyPersonalSign(message, sig, address) == RecoverAddress(message, sig) = address

EchoedNonce(p, nonce) == p.echoes => p.sig.message.nonce = nonce

EchoedModulus(p, modulus) == p.echoes => p.sig.key = modulus

EchoedClaimant(p, claimant) == p.echoes => p.sig.message.claimant = claimant

VerifyArweaveProof(message, nonce, p, recipient) ==
  /\ EchoedModulus(p, recipient)
  /\ EchoedNonce(p, nonce)
  /\ VerifyRsaPss(message, p.sig, recipient)

VerifyEthereumProof(message, nonce, p, recipient) ==
  /\ EchoedNonce(p, nonce)
  /\ VerifyPersonalSign(message, p.sig, recipient)

VerifyClaim(message, nonce, p, recipient) ==
  IF Protocol(recipient) = "arweave"
  THEN VerifyArweaveProof(message, nonce, p, recipient)
  ELSE VerifyEthereumProof(message, nonce, p, recipient)

-----------------------------------------------------------------------------
(* The service.                                                            *)

\* Mutant: the nonce minted for the asset when the ledger was built.
BoundNonceOfLedger(challenge) == MaxClaims + 1

\* The nonce that goes into the message: the claim's own challenge.
BoundNonce(challenge) == challenge

Initiate(d, claimant) ==
  /\ Len(claims) < MaxClaims
  /\ assets[d].status = "available"
  /\ LET challenge == Len(claims) + 1
     IN claims' = Append(claims,
          [asset |-> d, claimant |-> claimant, challenge |-> challenge, status |-> "claiming",
           message |-> CanonicalMessage(d, assets[d], claimant, BoundNonce(challenge),
                                        assets[d].recipient)])
  /\ UNCHANGED <<assets, signed, accepted>>

\* Mutant: the message stored with the claim is checked.
RebuiltFromClaim(c) == c.message

\* The message is built again from the ledger's row as it is now.
Rebuilt(c) ==
  CanonicalMessage(c.asset, assets[c.asset], c.claimant, BoundNonce(c.challenge),
                   assets[c.asset].recipient)

Proves(c, p) ==
  /\ BuildProof(p, assets[c.asset].recipient)
  /\ VerifyClaim(Rebuilt(c), BoundNonce(c.challenge), p, assets[c.asset].recipient)

Complete(i, p) ==
  LET c == claims[i]
      ok == /\ EchoedClaimant(p, c.claimant)
            /\ assets[c.asset].status = "available"
            /\ Proves(c, p)
  IN /\ c.status = "claiming"
     /\ claims' = [claims EXCEPT ![i].status = IF ok THEN "verified" ELSE "rejected"]
     /\ assets' = IF ok THEN [assets EXCEPT ![c.asset].status = "claiming"] ELSE assets
     /\ accepted' = IF ok THEN accepted \cup {<<i, p.sig>>} ELSE accepted
     /\ UNCHANGED signed

\* A retry of a completed claim: the proof is checked, nothing is written.
VerifyReplayProof(i, p) ==
  /\ claims[i].status = "verified"
  /\ Proves(claims[i], p)
  /\ accepted' = accepted \cup {<<i, p.sig>>}
  /\ UNCHANGED <<assets, claims, signed>>

ExpireChallenge(i) ==
  /\ claims[i].status = "claiming"
  /\ claims' = [claims EXCEPT ![i].status = "expired"]
  /\ UNCHANGED <<assets, signed, accepted>>

\* The ledger is built again (module Ledger): a row nobody has claimed may change.
RebuildRow(d, row) ==
  /\ assets[d].status = "available"
  /\ assets' = [assets EXCEPT ![d].type = row.type, ![d].amount = row.amount]
  /\ UNCHANGED <<claims, signed, accepted>>

\* Whoever holds a key signs what it is shown, its own claim or another's.
SignChallenge(k, i) ==
  /\ Cardinality(signed) < MaxSignings
  /\ signed' = signed \cup {[key |-> k, message |-> claims[i].message, shown |-> i]}
  /\ UNCHANGED <<assets, claims, accepted>>

ProofNext ==
  \/ \E d \in Ids, c \in Claimants : Initiate(d, c)
  \/ \E i \in DOMAIN claims, p \in Proofs : Complete(i, p) \/ VerifyReplayProof(i, p)
  \/ \E i \in DOMAIN claims : ExpireChallenge(i)
  \/ \E d \in Ids : \E row \in RowsOf[d] : RebuildRow(d, row)
  \/ \E k \in WalletKeys, i \in DOMAIN claims : SignChallenge(k, i)

-----------------------------------------------------------------------------

\* What /complete accepts, a retry included, the recipient's own wallet has
\* signed for this asset, of the type and amount the ledger now owes, to this
\* destination, whatever was rebuilt between the challenge and the answer
\* (service.ts, verify/canonical-message.ts).
AcceptedWasSigned ==
  \A a \in accepted :
    LET c == claims[a[1]]
        row == assets[c.asset]
    IN /\ a[2].key = row.recipient
       /\ a[2].message.claimant = c.claimant
       /\ IF row.type = "ant"
          THEN a[2].message.header = "ant-escrow claim" /\ a[2].message.ant = c.asset
          ELSE /\ a[2].message.header = "escrow claim"
               /\ a[2].message.asset = c.asset
               /\ a[2].message.type = row.type
               /\ a[2].message.amount = row.amount

\* A signature counts for the claim it was given for: one made for a challenge
\* that expired, for another claim, or for an escrow's page completes nothing
\* else (the challenge's nonce is bound, not the ledger's).
OneChallengePerSignature == \A a \in accepted : a[2].shown = a[1]
=============================================================================
