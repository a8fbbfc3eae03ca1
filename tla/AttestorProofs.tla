--------------------------- MODULE AttestorProofs ---------------------------
(***************************************************************************)
(* Theorems about what a signature is good for, at the claims service and  *)
(* at the escrows: for every set of keys, deposits, destinations and       *)
(* possible ledger rows, and any number of claims and signatures.          *)
(***************************************************************************)
EXTENDS Attestor, Collections

AssetKind == {"token", "vault", "ant"}

Message ==
  [header : {"ant-escrow claim"}, recipient : WalletKeys, ant : Ids,
   claimant : Claimants, nonce : Nat]
  \cup
  [header : {"escrow claim"}, recipient : WalletKeys, type : AssetKind, asset : Ids,
   amount : Nat, claimant : Claimants, nonce : Nat]

Claim == [asset : Ids, claimant : Claimants, challenge : Nat, message : Message,
          status : {"claiming", "verified", "rejected", "expired"}]

Signature == [key : WalletKeys, message : Message, shown : Nat]

ProofTypeOK ==
  /\ assets \in [Ids -> [recipient : WalletKeys, type : AssetKind, amount : Nat,
                         status : {"available", "claiming"}]]
  /\ claims \in Seq(Claim)
  /\ signed \subseteq Signature
  /\ accepted \subseteq Nat \X Signature

\* A challenge is the claim's own number, and so is the nonce of its message.
ChallengesAreOwn ==
  \A i \in DOMAIN claims : claims[i].challenge = i /\ claims[i].message.nonce = i

\* A signature carries the nonce of the page it was made at.
SignedAsShown == \A s \in signed : s.message.nonce = s.shown

\* A rebuild changes neither whose an asset is nor an asset that is claimed.
RowsAreKept ==
  /\ \A d \in Ids : assets[d].recipient = Deposits[d].recipient
  /\ \A i \in DOMAIN claims :
       claims[i].status = "verified" => assets[claims[i].asset].status = "claiming"

\* What was accepted is the recipient's signature of the message the claim has now.
AcceptedIsCurrent ==
  \A a \in accepted :
    /\ a[1] \in DOMAIN claims /\ claims[a[1]].status = "verified"
    /\ a[2].key = assets[claims[a[1]].asset].recipient
    /\ a[2].message = Rebuilt(claims[a[1]])
    /\ a[2].shown = a[1]

\* What the attestor signed, the key on its recipient line has signed.
AttestedWasSigned ==
  \A m \in attested : \E s \in signed : s.message = m /\ s.key = m.recipient

ProofInv ==
  /\ ChallengesAreOwn /\ SignedAsShown /\ RowsAreKept /\ AcceptedIsCurrent
  /\ AttestedWasSigned /\ EscrowPaysTheRecipient

Step ==
  \/ ProofNext /\ UNCHANGED attestorVars
  \/ AttestNext \/ EscrowNext \/ Wait

-----------------------------------------------------------------------------

\* The lines of a canonical message.
LEMMA MessageLines ==
  ASSUME NEW id \in Ids, NEW row, row.type \in AssetKind, row.amount \in Nat,
         NEW claimant \in Claimants, NEW nonce \in Nat, NEW key \in WalletKeys
  PROVE  /\ CanonicalMessage(id, row, claimant, nonce, key) \in Message
         /\ CanonicalMessage(id, row, claimant, nonce, key).nonce = nonce
         /\ CanonicalMessage(id, row, claimant, nonce, key).claimant = claimant
         /\ CanonicalMessage(id, row, claimant, nonce, key).recipient = key
<1>1. CASE row.type = "ant"
  BY <1>1 DEF CanonicalMessage, AntEscrowClaimMessage, DeriveRecipientId, Message
<1>2. CASE row.type # "ant"
  BY <1>2 DEF CanonicalMessage, EscrowClaimMessage, DeriveRecipientId, Message
<1> QED
  BY <1>1, <1>2

\* A proof that is accepted holds the recipient's signature of the message.
LEMMA ProvedWasSigned ==
  ASSUME NEW message, NEW nonce, NEW p, NEW recipient \in WalletKeys,
         VerifyClaim(message, nonce, p, recipient)
  PROVE  p.sig.key = recipient /\ p.sig.message = message
BY ProofAssumption DEF VerifyClaim, VerifyArweaveProof, VerifyEthereumProof, VerifyRsaPss,
     VerifyPersonalSign, RecoverAddress

LEMMA ProofInitial == ProofInit({}) /\ AttestorInit => ProofTypeOK /\ ProofInv
BY ProofAssumption
   DEF ProofInit, AttestorInit, ProofTypeOK, AssetKind, ProofInv, ChallengesAreOwn,
       SignedAsShown, RowsAreKept, AcceptedIsCurrent, AttestedWasSigned,
       EscrowPaysTheRecipient

LEMMA ProofStep ==
  ASSUME ProofTypeOK, ProofInv, [Step]_<<proofVars, attestorVars>>
  PROVE  ProofTypeOK' /\ ProofInv'
<1> USE DEF proofVars, attestorVars
<1>rows. ASSUME NEW d \in Ids
         PROVE  /\ assets[d].type \in AssetKind /\ assets[d].amount \in Nat
                /\ assets[d].recipient \in WalletKeys
                /\ Deposits[d].type \in AssetKind /\ Deposits[d].amount \in Nat
                /\ Deposits[d].recipient \in WalletKeys
  BY ProofAssumption DEF ProofTypeOK, AssetKind
<1>claim. ASSUME NEW i \in DOMAIN claims
          PROVE  /\ claims[i] \in Claim /\ i \in Nat \ {0} /\ claims[i].asset \in Ids
                 /\ claims[i].claimant \in Claimants /\ claims[i].challenge \in Nat
                 /\ claims[i].message \in Message
  <2>1. claims[i] \in Claim /\ i \in Nat \ {0}
    BY DEF ProofTypeOK
  <2> QED
    BY <2>1 DEF Claim
\* The message a claim has now names the claim.
<1>nonce. ASSUME NEW i \in DOMAIN claims
          PROVE  Rebuilt(claims[i]).nonce = i
  <2>1. PICK d \in Ids : d = claims[i].asset
    BY <1>claim
  <2>2. PICK r : r = assets[d]
    OBVIOUS
  <2>3. r.type \in AssetKind /\ r.amount \in Nat /\ r.recipient \in WalletKeys
    BY <1>rows, <2>2
  <2>4. PICK c \in Claimants : c = claims[i].claimant
    BY <1>claim
  <2>5. i \in Nat /\ claims[i].challenge = i
    BY <1>claim DEF ProofInv, ChallengesAreOwn
  <2>6. CanonicalMessage(d, r, c, i, r.recipient).nonce = i
    BY <2>3, <2>5, MessageLines
  <2>7. Rebuilt(claims[i]) = CanonicalMessage(d, r, c, i, r.recipient)
    BY <2>1, <2>2, <2>4, <2>5 DEF Rebuilt, BoundNonce
  <2> QED
    BY <2>6, <2>7
\* Rebuilt messages change only with the ledger.
<1>escrows. ASSUME UNCHANGED <<attested, paidOut>>, signed \subseteq signed'
            PROVE  AttestedWasSigned' /\ EscrowPaysTheRecipient'
  BY <1>escrows DEF ProofInv, AttestedWasSigned, EscrowPaysTheRecipient
<1>1. ASSUME NEW d \in Ids, NEW c \in Claimants, Initiate(d, c), UNCHANGED attestorVars
      PROVE  ProofTypeOK' /\ ProofInv'
  <2> DEFINE n == Len(claims) + 1
             k == [asset |-> d, claimant |-> c, challenge |-> n, status |-> "claiming",
                   message |-> CanonicalMessage(d, assets[d], c, n, assets[d].recipient)]
  <2>1. claims' = Append(claims, k) /\ UNCHANGED <<assets, signed, accepted>>
    BY <1>1 DEF Initiate, BoundNonce
  <2>2. n \in Nat \ {0} /\ n = Len(claims) + 1
    BY DEF ProofTypeOK
  <2>3. /\ k \in Claim /\ k.challenge = n /\ k.message.nonce = n /\ k.status = "claiming"
    <3>1. PICK r : r = assets[d]
      OBVIOUS
    <3>2. r.type \in AssetKind /\ r.amount \in Nat /\ r.recipient \in WalletKeys
      BY <3>1, <1>rows
    <3> DEFINE m == CanonicalMessage(d, r, c, n, r.recipient)
    <3>3. m \in Message /\ m.nonce = n
      BY <3>2, <2>2, MessageLines
    <3> QED
      BY <2>2, <3>1, <3>3 DEF Claim
  <2> HIDE DEF k, n
  <2>4. /\ claims' \in Seq(Claim) /\ DOMAIN claims' = DOMAIN claims \cup {n}
        /\ claims'[n] = k /\ \A i \in DOMAIN claims : claims'[i] = claims[i]
    BY <2>1, <2>2, <2>3 DEF ProofTypeOK
  <2>5. ProofTypeOK'
    BY <2>1, <2>4 DEF ProofTypeOK
  <2>6. ChallengesAreOwn' /\ SignedAsShown' /\ RowsAreKept'
    BY <2>1, <2>3, <2>4 DEF ProofInv, ChallengesAreOwn, SignedAsShown, RowsAreKept
  <2>7. AcceptedIsCurrent'
    BY <2>1, <2>4 DEF ProofInv, AcceptedIsCurrent, Rebuilt
  <2> QED
    BY <1>1, <1>escrows, <2>1, <2>5, <2>6, <2>7 DEF ProofInv
\* Only the status of claim i changes, and no verified claim loses it.
<1>2. ASSUME NEW i \in DOMAIN claims, NEW s \in {"verified", "rejected", "expired"},
             claims' = [claims EXCEPT ![i].status = s]
      PROVE  /\ claims' \in Seq(Claim) /\ DOMAIN claims' = DOMAIN claims
             /\ claims'[i].status = s
             /\ \A j \in DOMAIN claims : j # i => claims'[j] = claims[j]
             /\ \A j \in DOMAIN claims : /\ claims'[j].asset = claims[j].asset
                                         /\ claims'[j].claimant = claims[j].claimant
                                         /\ claims'[j].challenge = claims[j].challenge
                                         /\ claims'[j].message = claims[j].message
  <2> DEFINE k == [claims[i] EXCEPT !.status = s]
  <2>1. /\ k \in Claim /\ k.status = s /\ k.asset = claims[i].asset
        /\ k.claimant = claims[i].claimant /\ k.challenge = claims[i].challenge
        /\ k.message = claims[i].message
    BY <1>claim DEF Claim
  <2>2. claims' = [claims EXCEPT ![i] = k]
    BY <1>2
  <2> HIDE DEF k
  <2> QED
    BY <2>1, <2>2 DEF ProofTypeOK
<1>3. ASSUME NEW i \in DOMAIN claims, NEW p \in Proofs, Complete(i, p), UNCHANGED attestorVars
      PROVE  ProofTypeOK' /\ ProofInv'
  <2>1. PICK d \in Ids : d = claims[i].asset
    BY <1>claim
  <2>2. p.sig \in signed /\ p.sig \in Signature
    BY DEF Proofs, ProofTypeOK
  <2>3. claims[i].status = "claiming" /\ UNCHANGED signed
    BY <1>3 DEF Complete
  <2>4. CASE /\ claims' = [claims EXCEPT ![i].status = "rejected"]
             /\ UNCHANGED <<assets, accepted>>
    <3>0. /\ claims' \in Seq(Claim) /\ DOMAIN claims' = DOMAIN claims
          /\ claims'[i].status = "rejected"
          /\ \A j \in DOMAIN claims : j # i => claims'[j] = claims[j]
          /\ \A j \in DOMAIN claims : /\ claims'[j].asset = claims[j].asset
                                      /\ claims'[j].claimant = claims[j].claimant
                                      /\ claims'[j].challenge = claims[j].challenge
                                      /\ claims'[j].message = claims[j].message
      BY <1>2, <2>4
    <3>1. ProofTypeOK' /\ ChallengesAreOwn' /\ SignedAsShown' /\ RowsAreKept'
      BY <2>3, <2>4, <3>0
         DEF ProofTypeOK, ProofInv, ChallengesAreOwn, SignedAsShown, RowsAreKept
    <3>2. AcceptedIsCurrent'
      BY <1>2, <2>3, <2>4 DEF ProofInv, AcceptedIsCurrent, Rebuilt
    <3> QED
      BY <1>3, <1>escrows, <2>3, <3>1, <3>2 DEF ProofInv
  <2>5. CASE /\ claims' = [claims EXCEPT ![i].status = "verified"]
             /\ assets' = [assets EXCEPT ![d].status = "claiming"]
             /\ accepted' = accepted \cup {<<i, p.sig>>}
             /\ Proves(claims[i], p)
    <3>1. /\ p.sig.key = assets[d].recipient /\ p.sig.message = Rebuilt(claims[i])
      BY <1>rows, <2>1, <2>5, ProvedWasSigned DEF Proves
    <3>2. /\ assets' \in [Ids -> [recipient : WalletKeys, type : AssetKind, amount : Nat,
                                  status : {"available", "claiming"}]]
          /\ assets'[d].status = "claiming"
          /\ \A e \in Ids : /\ assets'[e].recipient = assets[e].recipient
                            /\ assets'[e].type = assets[e].type
                            /\ assets'[e].amount = assets[e].amount
                            /\ assets[e].status = "claiming" => assets'[e].status = "claiming"
      BY <2>5 DEF ProofTypeOK
    <3>3. ProofTypeOK' /\ ChallengesAreOwn' /\ SignedAsShown' /\ RowsAreKept'
      <4>1. ProofTypeOK'
        <5>1. claims' \in Seq(Claim)
          BY <1>2, <2>5
        <5>2. accepted' \subseteq Nat \X Signature
          BY <1>claim, <2>2, <2>5 DEF ProofTypeOK
        <5> QED
          BY <2>3, <3>2, <5>1, <5>2 DEF ProofTypeOK
      <4>2. ChallengesAreOwn' /\ SignedAsShown'
        BY <1>2, <2>3, <2>5 DEF ProofInv, ChallengesAreOwn, SignedAsShown
      <4>3. \A j \in DOMAIN claims' :
              claims'[j].status = "verified" => assets'[claims'[j].asset].status = "claiming"
        BY <1>2, <1>claim, <2>1, <2>5, <3>2 DEF ProofInv, RowsAreKept
      <4>4. RowsAreKept'
        BY <3>2, <4>3 DEF ProofInv, RowsAreKept
      <4> QED
        BY <4>1, <4>2, <4>4
    <3>4. ASSUME NEW j \in DOMAIN claims PROVE Rebuilt(claims[j])' = Rebuilt(claims[j])
      BY <1>2, <1>claim, <2>5, <3>2 DEF Rebuilt, CanonicalMessage
    <3>5. p.sig.shown = i
      BY <1>nonce, <2>2, <3>1 DEF ProofInv, SignedAsShown
    <3>6. AcceptedIsCurrent'
      <4> SUFFICES ASSUME NEW a \in accepted'
                   PROVE  /\ a[1] \in DOMAIN claims' /\ claims'[a[1]].status = "verified"
                          /\ a[2].key = assets'[claims'[a[1]].asset].recipient
                          /\ a[2].message = Rebuilt(claims[a[1]])'
                          /\ a[2].shown = a[1]
        BY DEF AcceptedIsCurrent
      <4>1. CASE a = <<i, p.sig>>
        <5>1. a[1] = i /\ a[2] = p.sig
          BY <4>1
        <5>2. /\ DOMAIN claims' = DOMAIN claims /\ claims'[i].status = "verified"
              /\ claims'[i].asset = d
          BY <1>2, <2>1, <2>5
        <5>3. Rebuilt(claims[a[1]])' = Rebuilt(claims[i])
          BY <3>4, <5>1
        <5> QED
          BY <3>1, <3>2, <3>5, <5>1, <5>2, <5>3
      <4>2. CASE a \in accepted
        <5>1. /\ a[1] \in DOMAIN claims /\ claims[a[1]].status = "verified"
              /\ a[2].key = assets[claims[a[1]].asset].recipient
              /\ a[2].message = Rebuilt(claims[a[1]]) /\ a[2].shown = a[1]
          BY <4>2 DEF ProofInv, AcceptedIsCurrent
        <5> QED
          BY <1>2, <1>claim, <2>3, <2>5, <3>2, <3>4, <5>1
      <4> QED
        BY <2>5, <4>1, <4>2
    <3> QED
      BY <1>3, <1>escrows, <2>3, <3>3, <3>6 DEF ProofInv
  <2> QED
    BY <1>3, <2>1, <2>4, <2>5 DEF Complete
<1>4. ASSUME NEW i \in DOMAIN claims, NEW p \in Proofs, VerifyReplayProof(i, p),
             UNCHANGED attestorVars
      PROVE  ProofTypeOK' /\ ProofInv'
  <2>1. PICK d \in Ids : d = claims[i].asset
    BY <1>claim
  <2>2. p.sig \in signed /\ p.sig \in Signature
    BY DEF Proofs, ProofTypeOK
  <2>3. /\ claims[i].status = "verified" /\ Proves(claims[i], p)
        /\ accepted' = accepted \cup {<<i, p.sig>>} /\ UNCHANGED <<assets, claims, signed>>
    BY <1>4 DEF VerifyReplayProof
  <2>4. /\ p.sig.key = assets[d].recipient /\ p.sig.message = Rebuilt(claims[i])
    BY <1>rows, <2>1, <2>3, ProvedWasSigned DEF Proves
  <2>5. p.sig.shown = i
    BY <1>nonce, <2>2, <2>4 DEF ProofInv, SignedAsShown
  <2>6. ProofTypeOK' /\ ChallengesAreOwn' /\ SignedAsShown' /\ RowsAreKept'
    BY <1>claim, <2>2, <2>3
       DEF ProofTypeOK, ProofInv, ChallengesAreOwn, SignedAsShown, RowsAreKept
  <2>7. AcceptedIsCurrent'
    BY <2>1, <2>3, <2>4, <2>5 DEF ProofInv, AcceptedIsCurrent, Rebuilt
  <2> QED
    BY <1>4, <1>escrows, <2>3, <2>6, <2>7 DEF ProofInv
<1>5. ASSUME NEW i \in DOMAIN claims, ExpireChallenge(i), UNCHANGED attestorVars
      PROVE  ProofTypeOK' /\ ProofInv'
  <2>1. /\ claims[i].status = "claiming" /\ claims' = [claims EXCEPT ![i].status = "expired"]
        /\ UNCHANGED <<assets, signed, accepted>>
    BY <1>5 DEF ExpireChallenge
  <2>a. ProofTypeOK'
    BY <1>2, <2>1 DEF ProofTypeOK
  <2>b. ChallengesAreOwn' /\ SignedAsShown'
    BY <1>2, <2>1 DEF ProofInv, ChallengesAreOwn, SignedAsShown
  <2>c. RowsAreKept'
    BY <1>2, <2>1 DEF ProofInv, RowsAreKept
  <2>2. ProofTypeOK' /\ ChallengesAreOwn' /\ SignedAsShown' /\ RowsAreKept'
    BY <2>a, <2>b, <2>c
  <2>3. AcceptedIsCurrent'
    BY <1>2, <2>1 DEF ProofInv, AcceptedIsCurrent, Rebuilt
  <2> QED
    BY <1>5, <1>escrows, <2>1, <2>2, <2>3 DEF ProofInv
<1>6. ASSUME NEW d \in Ids, NEW row \in RowsOf[d], RebuildRow(d, row), UNCHANGED attestorVars
      PROVE  ProofTypeOK' /\ ProofInv'
  <2>1. row.type \in AssetKind /\ row.amount \in Nat
    BY ProofAssumption DEF AssetKind
  <2>2. /\ assets[d].status = "available" /\ UNCHANGED <<claims, signed, accepted>>
        /\ assets' = [assets EXCEPT ![d] = [@ EXCEPT !.type = row.type, !.amount = row.amount]]
    BY <1>6 DEF RebuildRow
  <2>3. /\ assets' \in [Ids -> [recipient : WalletKeys, type : AssetKind, amount : Nat,
                                status : {"available", "claiming"}]]
        /\ \A e \in Ids : /\ assets'[e].recipient = assets[e].recipient
                          /\ assets'[e].status = assets[e].status
                          /\ e # d => assets'[e] = assets[e]
    BY <2>1, <2>2 DEF ProofTypeOK
  <2>4. ProofTypeOK' /\ ChallengesAreOwn' /\ SignedAsShown' /\ RowsAreKept'
    BY <1>claim, <2>2, <2>3
       DEF ProofTypeOK, ProofInv, ChallengesAreOwn, SignedAsShown, RowsAreKept
  <2>5. AcceptedIsCurrent'
    <3>1. ASSUME NEW a \in accepted PROVE assets'[claims[a[1]].asset] = assets[claims[a[1]].asset]
      BY <1>claim, <2>2, <2>3, <3>1 DEF ProofInv, AcceptedIsCurrent, RowsAreKept
    <3> QED
      BY <2>2, <3>1 DEF ProofInv, AcceptedIsCurrent, Rebuilt
  <2> QED
    BY <1>6, <1>escrows, <2>2, <2>4, <2>5 DEF ProofInv
\* A signature made at a claim's page or at an escrow's.
<1>7. ASSUME NEW s \in Signature, s.message.nonce = s.shown, signed' = signed \cup {s},
             UNCHANGED <<assets, claims, accepted, attested, paidOut>>
      PROVE  ProofTypeOK' /\ ProofInv'
  <2>1. ProofTypeOK' /\ ChallengesAreOwn' /\ SignedAsShown' /\ RowsAreKept' /\ AcceptedIsCurrent'
    BY <1>7 DEF ProofTypeOK, ProofInv, ChallengesAreOwn, SignedAsShown, RowsAreKept,
         AcceptedIsCurrent, Rebuilt
  <2> QED
    BY <1>7, <1>escrows, <2>1 DEF ProofInv
<1>8. ASSUME NEW k \in WalletKeys, NEW i \in DOMAIN claims, SignChallenge(k, i),
             UNCHANGED attestorVars
      PROVE  ProofTypeOK' /\ ProofInv'
  <2> DEFINE s == [key |-> k, message |-> claims[i].message, shown |-> i]
  <2>1. s \in Signature /\ s.message.nonce = s.shown
    BY <1>claim DEF Signature, Claim, ProofInv, ChallengesAreOwn
  <2> QED
    BY <1>7, <1>8, <2>1 DEF SignChallenge
<1>9. ASSUME NEW k \in WalletKeys, NEW named \in WalletKeys, NEW d \in Ids, NEW c \in Claimants,
             SignEscrow(k, d, c, named)
      PROVE  ProofTypeOK' /\ ProofInv'
  <2> DEFINE s == [key |-> k, message |-> CanonicalMessage(d, Deposits[d], c, 0, named), shown |-> 0]
  <2>1. s \in Signature /\ s.message.nonce = s.shown
    <3>1. PICK r : r = Deposits[d]
      OBVIOUS
    <3>2. r.type \in AssetKind /\ r.amount \in Nat
      BY <1>rows, <3>1
    <3>3. /\ CanonicalMessage(d, r, c, 0, named) \in Message
          /\ CanonicalMessage(d, r, c, 0, named).nonce = 0
      BY <3>2, MessageLines
    <3> QED
      BY <3>1, <3>3 DEF Signature
  <2> QED
    BY <1>7, <1>9, <2>1 DEF SignEscrow
<1>10. ASSUME NEW d \in Ids, NEW c \in Claimants, EscrowClaim(d, c)
       PROVE  ProofTypeOK' /\ ProofInv'
  <2> DEFINE m == CanonicalMessage(d, Deposits[d], c, 0, Deposits[d].recipient)
  <2>1. m.nonce = 0 /\ m.claimant = c /\ m.recipient = Deposits[d].recipient
    BY <1>rows, MessageLines
  <2>2. /\ \/ m \in attested
           \/ \E s \in signed : VerifyPersonalSign(m, s, Deposits[d].recipient)
        /\ paidOut' = [paidOut EXCEPT ![d] = c]
        /\ UNCHANGED <<attested, assets, claims, signed, accepted>>
    BY <1>10 DEF EscrowClaim
  <2> HIDE DEF m
  <2>3. \E s \in signed : s.message = m /\ s.key = Deposits[d].recipient
    BY <1>rows, <2>1, <2>2, ProofAssumption
       DEF ProofInv, AttestedWasSigned, VerifyPersonalSign, RecoverAddress
  <2>4. \E s \in signed :
          s.key = Deposits[d].recipient /\ s.message.claimant = c /\ s.shown = 0
    BY <2>1, <2>3 DEF ProofInv, SignedAsShown
  <2>5. EscrowPaysTheRecipient'
    BY <2>2, <2>4 DEF ProofInv, EscrowPaysTheRecipient
  <2> QED
    BY <2>2, <2>5 DEF ProofTypeOK, ProofInv, ChallengesAreOwn, SignedAsShown, RowsAreKept,
         AcceptedIsCurrent, AttestedWasSigned, Rebuilt
<1>11. ASSUME UNCHANGED <<assets, claims, signed, accepted, attested, paidOut>>
       PROVE  ProofTypeOK' /\ ProofInv'
  BY <1>11, <1>escrows DEF ProofTypeOK, ProofInv, ChallengesAreOwn, SignedAsShown, RowsAreKept,
       AcceptedIsCurrent, Rebuilt
<1>12. ASSUME NEW r \in Requests, NEW k \in ArKeys, NEW s \in signed, Attest(r, k, s)
       PROVE  ProofTypeOK' /\ ProofInv'
  <2> DEFINE m == RequestMessage(r, k)
  <2>1. /\ r.id \in Ids /\ r.type \in AssetKind /\ r.amount \in Nat
        /\ r.claimant \in Claimants /\ r.nonce \in Nat
    BY <1>rows, <1>claim DEF Requests, Claim, BoundNonce
  <2>2. m.recipient = k
    BY <2>1, MessageLines DEF RequestMessage, WalletKeys
  <2>3. /\ s.message = m /\ s.key = k /\ attested' = attested \cup {m}
        /\ UNCHANGED <<assets, claims, signed, accepted, paidOut>>
    BY <1>12 DEF Attest, VerifyRsaPss
  <2> HIDE DEF m
  <2>4. AttestedWasSigned' /\ EscrowPaysTheRecipient'
    BY <2>2, <2>3 DEF ProofInv, AttestedWasSigned, EscrowPaysTheRecipient
  <2> QED
    BY <2>3, <2>4 DEF ProofTypeOK, ProofInv, ChallengesAreOwn, SignedAsShown, RowsAreKept,
         AcceptedIsCurrent, Rebuilt
<1>13. CASE ProofNext /\ UNCHANGED attestorVars
  BY <1>1, <1>3, <1>4, <1>5, <1>6, <1>8, <1>13 DEF ProofNext
<1>14. CASE EscrowNext
  BY <1>9, <1>10, <1>14 DEF EscrowNext
<1>15. CASE Wait \/ UNCHANGED <<proofVars, attestorVars>>
  BY <1>11, <1>15 DEF Wait
<1> QED
  BY <1>12, <1>13, <1>14, <1>15 DEF Step, AttestNext

\* The invariant of the service, the attestor and the escrows together.
LEMMA ProofInvariant == AttestorSpec => [](ProofTypeOK /\ ProofInv)
BY ProofInitial, ProofStep, PTL DEF AttestorSpec, Step

-----------------------------------------------------------------------------

\* /complete accepts nothing but the recipient's own signature over what the
\* ledger now owes, for this destination: whatever expires, is retried or is
\* rebuilt between the challenge and the answer.
THEOREM OnlyTheRecipientClaims == AttestorSpec => []AcceptedWasSigned
<1>1. ProofTypeOK /\ ProofInv => AcceptedWasSigned
  <2> SUFFICES ASSUME ProofTypeOK, ProofInv, NEW a \in accepted
               PROVE  LET c == claims[a[1]]
                          row == assets[c.asset]
                      IN /\ a[2].key = row.recipient
                         /\ a[2].message.claimant = c.claimant
                         /\ IF row.type = "ant"
                            THEN a[2].message.header = "ant-escrow claim" /\ a[2].message.ant = c.asset
                            ELSE /\ a[2].message.header = "escrow claim"
                                 /\ a[2].message.asset = c.asset
                                 /\ a[2].message.type = row.type
                                 /\ a[2].message.amount = row.amount
    BY DEF AcceptedWasSigned
  <2>1. PICK i \in DOMAIN claims : i = a[1]
    BY DEF ProofInv, AcceptedIsCurrent
  <2>2. claims[i] \in Claim
    BY DEF ProofTypeOK
  <2>3. PICK d \in Ids : d = claims[i].asset
    BY <2>2 DEF Claim
  <2>4. /\ assets[d].type \in AssetKind /\ assets[d].amount \in Nat
        /\ assets[d].recipient \in WalletKeys
        /\ claims[i].claimant \in Claimants /\ claims[i].challenge \in Nat
    BY <2>2 DEF ProofTypeOK, Claim
  <2>5. /\ a[2].key = assets[d].recipient
        /\ a[2].message = CanonicalMessage(d, assets[d], claims[i].claimant, claims[i].challenge,
                                           assets[d].recipient)
    BY <2>1, <2>3 DEF ProofInv, AcceptedIsCurrent, Rebuilt, BoundNonce
  <2>6. PICK r : r = assets[d]
    OBVIOUS
  <2>7. PICK c : c = claims[i].claimant
    OBVIOUS
  <2>8. PICK m : m = a[2].message
    OBVIOUS
  <2>9. m = CanonicalMessage(d, r, c, claims[i].challenge, r.recipient)
    BY <2>5, <2>6, <2>7, <2>8
  <2>10. m.claimant = c
    BY <2>4, <2>6, <2>7, <2>9, MessageLines
  <2>11. IF r.type = "ant"
         THEN m.header = "ant-escrow claim" /\ m.ant = d
         ELSE /\ m.header = "escrow claim" /\ m.asset = d
              /\ m.type = r.type /\ m.amount = r.amount
    BY <2>9 DEF CanonicalMessage, AntEscrowClaimMessage, EscrowClaimMessage
  <2>12. claims[a[1]].claimant = c /\ claims[a[1]].asset = d /\ a[2].message = m
    BY <2>1, <2>3, <2>7, <2>8
  <2>13. a[2].key = r.recipient /\ assets[claims[a[1]].asset] = r
    BY <2>5, <2>6, <2>12
  <2>14. CASE r.type = "ant"
    BY <2>10, <2>11, <2>12, <2>13, <2>14
  <2>15. CASE r.type # "ant"
    BY <2>10, <2>11, <2>12, <2>13, <2>15
  <2> QED
    BY <2>14, <2>15
<1> QED
  BY <1>1, ProofInvariant, PTL

\* A signature completes the claim whose challenge its wallet was shown, and no
\* other: not one that follows an expired challenge, nor an escrow's.
THEOREM SignaturesAreNotReused == AttestorSpec => []OneChallengePerSignature
<1>1. ProofInv => OneChallengePerSignature
  BY DEF ProofInv, AcceptedIsCurrent, OneChallengePerSignature
<1> QED
  BY <1>1, ProofInvariant, PTL

\* An attestation moves an escrow only to a wallet the deposit's recipient
\* signed for, at the escrow's own page.
THEOREM EscrowsPayTheRecipient == AttestorSpec => []EscrowPaysTheRecipient
<1>1. ProofInv => EscrowPaysTheRecipient
  BY DEF ProofInv
<1> QED
  BY <1>1, ProofInvariant, PTL

-----------------------------------------------------------------------------
(***************************************************************************)
(* Reports of repeated attestations: for any window, threshold and cap.    *)
(***************************************************************************)

Names == ArKeys \X (Ids \X (Spellings \cup {"base58"}))

AnomalyEntry == [key : Names, count : Nat \ {0}, firstSeen : Nat]

Call == [key : Names, at : Nat, reported : BOOLEAN, full : BOOLEAN]

ReportTypeOK ==
  /\ anomalies \in Seq(AnomalyEntry)
  /\ calls \in Seq(Call)
  /\ moment \in Nat
  /\ \A i \in DOMAIN calls : calls[i].at <= moment

\* The calls of k that nobody was told of, from time a to the end of a window.
Unreported(k, a) ==
  {i \in DOMAIN calls :
     calls[i].key = k /\ ~calls[i].reported /\ calls[i].at \in a .. a + AnomalyWindow}

FullSince(a) ==
  \E i \in DOMAIN calls : calls[i].full /\ calls[i].at \in a .. a + AnomalyWindow

\* How many of its calls an entry has hidden.
Hidden(e) == IF e.count < AnomalyThreshold THEN e.count ELSE AnomalyThreshold - 1

\* While the window from a is open.  An entry older than a has hidden a call before
\* a already; an entry made since can have followed one such older entry only.
Follows(n, k, a, s) ==
  /\ (\A j \in Live(s) : s[j].key # k) => n <= AnomalyThreshold - 2
  /\ \A j \in Live(s) :
       s[j].key = k =>
         /\ s[j].firstSeen < a => n <= Hidden(s[j]) - 1
         /\ s[j].firstSeen >= a => n <= AnomalyThreshold - 2 + Hidden(s[j])

Tally(k, a) ==
  \/ FullSince(a)
  \/ /\ Cardinality(Unreported(k, a)) <= 2 * AnomalyThreshold - 3
     /\ moment \in a .. a + AnomalyWindow =>
          Follows(Cardinality(Unreported(k, a)), k, a, anomalies)

ReportInv == ReportTypeOK /\ \A k \in Names, a \in Nat : Tally(k, a)

LEMMA HiddenIs ==
  ASSUME NEW e \in AnomalyEntry
  PROVE  Hidden(e) \in Nat /\ 1 <= Hidden(e) /\ Hidden(e) <= AnomalyThreshold - 1
BY AnomalyAssumption DEF Hidden, AnomalyEntry

LEMMA UnreportedIs ==
  ASSUME ReportTypeOK, NEW k, NEW a
  PROVE  IsFiniteSet(Unreported(k, a)) /\ Cardinality(Unreported(k, a)) \in Nat
<1>1. PICK n \in Nat : DOMAIN calls = 1 .. n
  BY DEF ReportTypeOK
<1>2. IsFiniteSet(1 .. n)
  BY FS_Interval
<1>3. Unreported(k, a) \in SUBSET (1 .. n)
  BY <1>1 DEF Unreported
<1>4. IsFiniteSet(Unreported(k, a))
  BY <1>2, <1>3, FS_Subset
<1> QED
  BY <1>4, FS_CardinalityType

-----------------------------------------------------------------------------
(* The map.                                                                *)

\* Everything in t is in s.
From(t, s) == \A j \in DOMAIN t : \E i \in DOMAIN s : t[j] = s[i]

\* All that is live in s is in t.
LiveIn(s, t) == \A i \in Live(s) : \E j \in DOMAIN t : t[j] = s[i]

LEMMA GcIs ==
  ASSUME ReportTypeOK, NEW t, t = GcAnomalies(anomalies)
  PROVE  /\ t \in Seq(AnomalyEntry) /\ From(t, anomalies)
         /\ Cardinality(Live(anomalies)) < AnomalyMaxEntries => LiveIn(anomalies, t)
<1> DEFINE I == Live(anomalies)
<1>1. anomalies \in Seq(AnomalyEntry) /\ I \in SUBSET DOMAIN anomalies
  BY DEF ReportTypeOK, Live
<1>2. CASE ~(Len(anomalies) > AnomalyGcThreshold)
  BY <1>1, <1>2 DEF GcAnomalies, From, LiveIn
<1>3. CASE Len(anomalies) > AnomalyGcThreshold
  <2>1. PICK p : KeptBy(p, AnomalyEntry, anomalies, I)
    BY <1>1, KeptOfSeq
  <2>2. PICK s : s = KeepAt(anomalies, I)
    OBVIOUS
  <2>3. PICK n \in Nat : n = Cardinality(I)
    BY <2>1 DEF KeptBy
  <2>4. /\ s \in Seq(AnomalyEntry) /\ Len(s) = n /\ DOMAIN s = 1 .. n
        /\ \A j \in 1 .. n : p[j] \in I /\ s[j] = anomalies[p[j]]
        /\ \A i \in I : \E j \in 1 .. n : p[j] = i
    BY <2>1, <2>2, <2>3 DEF KeptBy
  <2>5. t = EvictOldest(s)
    BY <1>3, <2>2 DEF GcAnomalies
  <2>6. From(s, anomalies) /\ LiveIn(anomalies, s)
    <3>1. \A j \in 1 .. n : p[j] \in DOMAIN anomalies
      BY <1>1, <2>4
    <3>2. From(s, anomalies)
      BY <2>4, <3>1 DEF From
    <3>3. \A i \in I : \E j \in 1 .. n : s[j] = anomalies[i]
      BY <2>4
    <3> QED
      BY <2>4, <3>2, <3>3 DEF LiveIn
  <2>7. CASE n >= AnomalyMaxEntries
    <3>1. PICK b \in Nat : b = n - AnomalyMaxEntries + 2 /\ 1 <= b /\ b <= n + 1
      BY <2>7, AnomalyAssumption
    <3>2. t = SubSeq(s, b, n)
      BY <2>4, <2>5, <2>7, <3>1 DEF EvictOldest
    <3>3. t = [j \in 1 .. (n - b + 1) |-> s[j + b - 1]]
      BY <2>4, <3>1, <3>2
    <3>4. \A j \in 1 .. (n - b + 1) : j + b - 1 \in DOMAIN s
      BY <2>4, <3>1
    <3>5. t \in Seq(AnomalyEntry)
      <4>1. \A j \in DOMAIN s : s[j] \in AnomalyEntry
        BY <2>4
      <4>2. PICK m \in Nat : m = n - b + 1
        BY <3>1
      <4>3. t \in [1 .. m -> AnomalyEntry]
        BY <3>3, <3>4, <4>1, <4>2
      <4> QED
        BY <4>2, <4>3
    <3>6. From(t, s)
      <4>1. DOMAIN t = 1 .. (n - b + 1) /\ \A j \in 1 .. (n - b + 1) : t[j] = s[j + b - 1]
        BY <3>3
      <4> QED
        BY <3>4, <4>1 DEF From
    <3>7. From(t, anomalies)
      BY <2>6, <3>6 DEF From
    <3> QED
      BY <2>3, <2>7, <3>5, <3>7, AnomalyAssumption
  <2>8. CASE ~(n >= AnomalyMaxEntries)
    <3>1. t = s
      BY <2>4, <2>5, <2>8 DEF EvictOldest
    <3> QED
      BY <2>4, <2>6, <3>1
  <2> QED
    BY <2>7, <2>8
<1> QED
  BY <1>2, <1>3

\* t is s with e set.
IsSet(t, s, e) ==
  /\ t \in Seq(AnomalyEntry)
  /\ \E j \in DOMAIN t : t[j] = e
  /\ \A j \in DOMAIN t :
       t[j] = e \/ (t[j].key # e.key /\ \E i \in DOMAIN s : t[j] = s[i])
  /\ \A i \in DOMAIN s : s[i].key # e.key => \E j \in DOMAIN t : t[j] = s[i]

LEMMA SetLeavesEntries ==
  ASSUME NEW s \in Seq(AnomalyEntry), NEW e \in AnomalyEntry, NEW t, t = SetEntry(s, e)
  PROVE  IsSet(t, s, e)
<1>1. PICK n \in Nat : n = Len(s) /\ DOMAIN s = 1 .. n
  OBVIOUS
<1>2. \A i \in 1 .. n : s[i] \in AnomalyEntry
  BY <1>1
<1>3. CASE \E j \in DOMAIN s : s[j].key = e.key
  <2>1. t = [j \in 1 .. n |-> IF s[j].key = e.key THEN e ELSE s[j]]
    BY <1>1, <1>3 DEF SetEntry
  <2>2. /\ DOMAIN t = 1 .. n
        /\ \A j \in 1 .. n : t[j] = IF s[j].key = e.key THEN e ELSE s[j]
    BY <2>1
  <2>3. t \in Seq(AnomalyEntry)
    BY <1>2, <2>1
  <2>4. PICK m \in 1 .. n : s[m].key = e.key
    BY <1>1, <1>3
  <2>5. t[m] = e
    BY <2>2, <2>4
  <2>6. ASSUME NEW j \in 1 .. n
        PROVE  /\ t[j] = e \/ (t[j].key # e.key /\ t[j] = s[j])
               /\ s[j].key # e.key => t[j] = s[j]
    BY <2>2
  <2>7. m \in DOMAIN t
    BY <2>2, <2>4
  <2> QED
    BY <1>1, <2>2, <2>3, <2>5, <2>6, <2>7 DEF IsSet
<1>4. CASE ~ \E j \in DOMAIN s : s[j].key = e.key
  <2>1. t = Append(s, e)
    BY <1>4 DEF SetEntry
  <2>2. /\ t \in Seq(AnomalyEntry) /\ DOMAIN t = 1 .. (n + 1) /\ t[n + 1] = e
        /\ \A i \in 1 .. n : t[i] = s[i]
    BY <1>1, <2>1
  <2>3. n \in Nat /\ n + 1 \in DOMAIN t /\ \A i \in 1 .. n : i \in DOMAIN t
    BY <1>1, <2>2
  <2>4. \A i \in 1 .. n : s[i].key # e.key
    BY <1>1, <1>4
  <2>5. ASSUME NEW j \in DOMAIN t
        PROVE  t[j] = e \/ (t[j].key # e.key /\ \E i \in DOMAIN s : t[j] = s[i])
    <3>1. j = n + 1 \/ j \in 1 .. n
      BY <1>1, <2>2
    <3>2. CASE j = n + 1
      BY <2>2, <3>2
    <3>3. CASE j \in 1 .. n
      BY <1>1, <2>2, <2>4, <3>3
    <3> QED
      BY <3>1, <3>2, <3>3
  <2> QED
    BY <1>1, <2>2, <2>3, <2>5 DEF IsSet
<1> QED
  BY <1>3, <1>4


\* The entries after a call: the one that counts it, and what was live of others.
MapStep(q, e, full) ==
  /\ anomalies' \in Seq(AnomalyEntry)
  /\ \E j \in DOMAIN anomalies' : anomalies'[j] = e
  /\ \A j \in DOMAIN anomalies' :
       anomalies'[j] = e
         \/ (anomalies'[j].key # q /\ \E i \in DOMAIN anomalies : anomalies'[j] = anomalies[i])
  /\ ~full => \A i \in Live(anomalies) :
                anomalies[i].key # q => \E j \in DOMAIN anomalies' : anomalies'[j] = anomalies[i]

\* How a call of q is counted.
Counted(q, e, reported, full) ==
  \/ /\ e.count = 1 /\ e.firstSeen = moment /\ ~reported
     /\ ~full => \A i \in Live(anomalies) : anomalies[i].key # q
  \/ /\ \E i \in Live(anomalies) :
          /\ anomalies[i].key = q
          /\ e.count = anomalies[i].count + 1 /\ e.firstSeen = anomalies[i].firstSeen
     /\ reported = (e.count >= AnomalyThreshold)

CallIs(c, q, full) ==
  /\ c \in Call /\ c.key = q /\ c.at = moment /\ c.full = full
  /\ calls' = Append(calls, c)

LEMMA CheckIs ==
  ASSUME ReportTypeOK, NEW q \in Names, CheckAnomaly(q)
  PROVE  \E e \in AnomalyEntry, c \in Call :
           /\ e.key = q /\ CallIs(c, q, c.full)
           /\ MapStep(q, e, c.full) /\ Counted(q, e, c.reported, c.full)
<1>1. PICK kept : kept = GcAnomalies(anomalies)
  OBVIOUS
<1>2. PICK n \in Nat : n = Cardinality(Live(anomalies))
  <2>1. anomalies \in Seq(AnomalyEntry) /\ Live(anomalies) \in SUBSET DOMAIN anomalies
    BY DEF ReportTypeOK, Live
  <2>2. PICK p : KeptBy(p, AnomalyEntry, anomalies, Live(anomalies))
    BY <2>1, KeptOfSeq
  <2> QED
    BY <2>2 DEF KeptBy
<1>3. PICK full \in BOOLEAN : full = (n >= AnomalyMaxEntries)
  <2>1. (n >= AnomalyMaxEntries) = TRUE \/ (n >= AnomalyMaxEntries) = FALSE
    BY <1>2, AnomalyAssumption, SMT
  <2> QED
    BY <2>1
<1>4. ~full => n < AnomalyMaxEntries
  <2>1. n < AnomalyMaxEntries \/ n >= AnomalyMaxEntries
    BY <1>2, AnomalyAssumption
  <2> QED
    BY <1>3, <2>1
<1>5. kept \in Seq(AnomalyEntry) /\ From(kept, anomalies) /\ (~full => LiveIn(anomalies, kept))
  BY <1>1, <1>2, <1>4, GcIs
<1>6. PICK again : again = Repeats(kept, q)
  OBVIOUS
<1>7. PICK m : m = CHOOSE j \in again : TRUE
  OBVIOUS
<1>8. PICK e : e = IF again = {} THEN [key |-> q, count |-> 1, firstSeen |-> moment]
                   ELSE [kept[m] EXCEPT !.count = @ + 1]
  OBVIOUS
<1>9. PICK reported \in BOOLEAN : reported = (again # {} /\ e.count >= AnomalyThreshold)
  OBVIOUS
<1>10. PICK c : c = [key |-> q, at |-> moment, reported |-> reported, full |-> full]
  OBVIOUS
<1>11. anomalies' = SetEntry(kept, e) /\ calls' = Append(calls, c)
  BY <1>1, <1>2, <1>3, <1>6, <1>7, <1>8, <1>9, <1>10 DEF CheckAnomaly, IsAnomalous
<1>12. c \in Call /\ CallIs(c, q, full) /\ c.full = full /\ c.reported = reported
  BY <1>10, <1>11 DEF CallIs, Call, ReportTypeOK
<1>13. ASSUME again = {}
       PROVE  e \in AnomalyEntry /\ e.key = q /\ Counted(q, e, reported, full)
  <2>1. e \in AnomalyEntry /\ e.key = q /\ e.count = 1 /\ e.firstSeen = moment
    BY <1>8, <1>13 DEF AnomalyEntry, ReportTypeOK
  <2>2. ASSUME ~full, NEW i \in Live(anomalies) PROVE anomalies[i].key # q
    <3>1. PICK j \in DOMAIN kept : kept[j] = anomalies[i]
      BY <1>5, <2>2 DEF LiveIn
    <3> QED
      BY <1>6, <1>13, <3>1 DEF Repeats, Live, Outdated
  <2>3. Counted(q, e, reported, full)
    BY <1>9, <1>13, <2>1, <2>2 DEF Counted
  <2> QED
    BY <2>1, <2>3
<1>14. ASSUME again # {}
       PROVE  e \in AnomalyEntry /\ e.key = q /\ Counted(q, e, reported, full)
  <2>1. m \in DOMAIN kept /\ kept[m].key = q /\ ~Outdated(kept[m])
    BY <1>6, <1>7, <1>14 DEF Repeats, Live
  <2>2. PICK b \in AnomalyEntry : b = kept[m]
    BY <1>5, <2>1
  <2>3. e = [b EXCEPT !.count = @ + 1]
    BY <1>8, <1>14, <2>2
  <2>4. /\ e \in AnomalyEntry /\ e.key = q /\ e.count = b.count + 1
        /\ e.firstSeen = b.firstSeen
    BY <2>1, <2>2, <2>3 DEF AnomalyEntry
  <2>5. PICK i \in DOMAIN anomalies : anomalies[i] = b
    BY <1>5, <2>1, <2>2 DEF From
  <2>6. i \in Live(anomalies) /\ anomalies[i].key = q
    BY <2>1, <2>2, <2>5 DEF Live
  <2>7. reported = (e.count >= AnomalyThreshold)
    BY <1>9, <1>14
  <2>8. Counted(q, e, reported, full)
    BY <2>4, <2>5, <2>6, <2>7 DEF Counted
  <2> QED
    BY <2>4, <2>8
<1>15. e \in AnomalyEntry /\ e.key = q /\ Counted(q, e, reported, full)
  BY <1>13, <1>14
<1>16. MapStep(q, e, full)
  <2>1. PICK t : t = SetEntry(kept, e)
    OBVIOUS
  <2>2. /\ t \in Seq(AnomalyEntry)
        /\ \E j \in DOMAIN t : t[j] = e
        /\ \A j \in DOMAIN t :
             t[j] = e \/ (t[j].key # q /\ \E i \in DOMAIN kept : t[j] = kept[i])
        /\ \A i \in DOMAIN kept : kept[i].key # q => \E j \in DOMAIN t : t[j] = kept[i]
    <3>1. PICK s \in Seq(AnomalyEntry) : s = kept
      BY <1>5
    <3>2. PICK d \in AnomalyEntry : d = e
      BY <1>15
    <3>3. t = SetEntry(s, d)
      BY <2>1, <3>1, <3>2
    <3>4. IsSet(t, s, d)
      BY <3>3, SetLeavesEntries
    <3> QED
      BY <1>15, <3>1, <3>2, <3>4 DEF IsSet
  <2>3. ASSUME NEW j \in DOMAIN t, t[j] # e
        PROVE  t[j].key # q /\ \E i \in DOMAIN anomalies : t[j] = anomalies[i]
    BY <1>5, <2>2, <2>3 DEF From
  <2>4. ASSUME ~full, NEW i \in Live(anomalies), anomalies[i].key # q
        PROVE  \E j \in DOMAIN t : t[j] = anomalies[i]
    <3>1. PICK j \in DOMAIN kept : kept[j] = anomalies[i]
      BY <1>5, <2>4 DEF LiveIn
    <3> QED
      BY <2>2, <2>4, <3>1
  <2>5. anomalies' = t
    BY <1>11, <2>1
  <2> QED
    BY <2>2, <2>3, <2>4, <2>5 DEF MapStep
<1> QED
  BY <1>12, <1>15, <1>16

\* What a call adds to those from a on.
LEMMA CallAdds ==
  ASSUME ReportTypeOK, NEW q, NEW full, NEW c, CallIs(c, q, full), NEW k, NEW a \in Nat
  PROVE  /\ FullSince(a) => FullSince(a)'
         /\ full /\ moment \in a .. a + AnomalyWindow => FullSince(a)'
         /\ IF k = q /\ ~c.reported /\ moment \in a .. a + AnomalyWindow
            THEN Cardinality(Unreported(k, a)') = Cardinality(Unreported(k, a)) + 1
            ELSE Unreported(k, a)' = Unreported(k, a)
<1>1. PICK n \in Nat : n = Len(calls) /\ DOMAIN calls = 1 .. n
  BY DEF ReportTypeOK
<1>2. /\ DOMAIN calls' = 1 .. (n + 1) /\ calls'[n + 1] = c
      /\ \A i \in 1 .. n : calls'[i] = calls[i]
  BY <1>1 DEF CallIs, ReportTypeOK
<1>3. /\ c.key = q /\ c.at = moment /\ c.full = full
      /\ n + 1 \in 1 .. (n + 1) /\ n + 1 \notin 1 .. n /\ \A i \in 1 .. n : i \in 1 .. (n + 1)
      /\ \A i \in 1 .. (n + 1) : i = n + 1 \/ i \in 1 .. n
  BY <1>1 DEF CallIs
<1>4. FullSince(a) => FullSince(a)'
  BY <1>1, <1>2, <1>3 DEF FullSince
<1>5. full /\ moment \in a .. a + AnomalyWindow => FullSince(a)'
  BY <1>2, <1>3 DEF FullSince
<1>6. ASSUME k = q, ~c.reported, moment \in a .. a + AnomalyWindow
      PROVE  Cardinality(Unreported(k, a)') = Cardinality(Unreported(k, a)) + 1
  <2>1. Unreported(k, a)' = Unreported(k, a) \cup {n + 1}
    BY <1>1, <1>2, <1>3, <1>6 DEF Unreported
  <2>2. n + 1 \notin Unreported(k, a)
    BY <1>1, <1>3 DEF Unreported
  <2>3. IsFiniteSet(Unreported(k, a)) /\ Cardinality(Unreported(k, a)) \in Nat
    BY UnreportedIs
  <2> QED
    BY <2>1, <2>2, <2>3, FS_AddElement
<1>7. ASSUME ~(k = q /\ ~c.reported /\ moment \in a .. a + AnomalyWindow)
      PROVE  Unreported(k, a)' = Unreported(k, a)
  BY <1>1, <1>2, <1>3, <1>7 DEF Unreported
<1> QED
  BY <1>4, <1>5, <1>6, <1>7

LEMMA ReportsStart == AttestorInit => ReportInv
<1> SUFFICES ASSUME AttestorInit PROVE ReportInv
  OBVIOUS
<1>1. anomalies = <<>> /\ calls = <<>> /\ moment = 0
  BY DEF AttestorInit
<1>2. ReportTypeOK
  BY <1>1 DEF ReportTypeOK
<1>3. ASSUME NEW k \in Names, NEW a \in Nat PROVE Tally(k, a)
  <2>1. Unreported(k, a) = {} /\ Live(anomalies) = {}
    BY <1>1 DEF Unreported, Live
  <2>2. Cardinality(Unreported(k, a)) = 0
    BY <2>1, FS_EmptySet
  <2>3. Follows(0, k, a, anomalies)
    BY <2>1, AnomalyAssumption DEF Follows
  <2> QED
    BY <2>2, <2>3, AnomalyAssumption DEF Tally
<1> QED
  BY <1>2, <1>3 DEF ReportInv

LEMMA TimeKeepsReports ==
  ASSUME ReportInv, Wait
  PROVE  ReportInv'
<1>1. ReportTypeOK /\ UNCHANGED <<anomalies, calls>> /\ moment' = moment + 1
  BY DEF ReportInv, Wait
<1>2. /\ moment \in Nat /\ moment' \in Nat
      /\ \A i \in DOMAIN calls : calls[i].at \in Nat /\ calls[i].at <= moment
  <2>1. calls \in Seq(Call) /\ moment \in Nat
    BY <1>1 DEF ReportTypeOK
  <2>2. \A i \in DOMAIN calls : calls[i] \in Call
    BY <2>1
  <2>3. \A i \in DOMAIN calls : calls[i].at \in Nat
    BY <2>2 DEF Call
  <2> QED
    BY <1>1, <2>1, <2>3 DEF ReportTypeOK
<1>3. ReportTypeOK'
  BY <1>1, <1>2 DEF ReportTypeOK
<1>4. ASSUME NEW k \in Names, NEW a \in Nat PROVE Tally(k, a)'
  <2>1. Tally(k, a) /\ Unreported(k, a)' = Unreported(k, a) /\ (FullSince(a) => FullSince(a)')
    BY <1>1 DEF ReportInv, Unreported, FullSince
  <2>2. PICK n \in Nat : n = Cardinality(Unreported(k, a))
    BY <1>1, UnreportedIs
  <2>3. Cardinality(Unreported(k, a)') = n
    BY <2>1, <2>2
  <2>4. SUFFICES ASSUME ~FullSince(a) PROVE Tally(k, a)'
    BY <2>1 DEF Tally
  <2>5. n <= 2 * AnomalyThreshold - 3
    BY <2>1, <2>2, <2>4 DEF Tally
  <2>6. SUFFICES ASSUME moment' \in a .. a + AnomalyWindow
                 PROVE  Follows(n, k, a, anomalies)'
    BY <2>3, <2>5 DEF Tally
  <2>7. \A j \in DOMAIN anomalies : anomalies[j] \in AnomalyEntry
    BY <1>1 DEF ReportTypeOK
  <2>8. /\ \A j \in DOMAIN anomalies :
             Hidden(anomalies[j]) \in Nat /\ 1 <= Hidden(anomalies[j])
               /\ Hidden(anomalies[j]) <= AnomalyThreshold - 1
        /\ \A j \in DOMAIN anomalies : anomalies[j].firstSeen \in Nat
    BY <2>7, HiddenIs DEF AnomalyEntry
  <2>9. Live(anomalies)' \subseteq Live(anomalies) /\ Live(anomalies)' \subseteq DOMAIN anomalies
    BY <1>1, <1>2, <2>8, AnomalyAssumption DEF Live, Outdated
  <2>10. CASE moment < a
    <3>1. Unreported(k, a) = {}
      BY <1>2, <2>10, AnomalyAssumption DEF Unreported
    <3>2. n = 0
      BY <2>2, <3>1, FS_EmptySet
    <3>3. /\ 0 <= AnomalyThreshold - 2
          /\ \A j \in DOMAIN anomalies :
               /\ 0 <= Hidden(anomalies[j]) - 1
               /\ 0 <= AnomalyThreshold - 2 + Hidden(anomalies[j])
      BY <2>8, AnomalyAssumption
    <3> QED
      BY <1>1, <2>9, <3>2, <3>3 DEF Follows, Hidden
  <2>11. CASE ~(moment < a)
    <3>1. moment \in a .. a + AnomalyWindow
      BY <1>1, <1>2, <2>6, <2>11, AnomalyAssumption
    <3>2. Follows(n, k, a, anomalies)
      BY <2>1, <2>2, <2>4, <3>1 DEF Tally
    <3>3. ASSUME NEW j \in Live(anomalies), j \notin Live(anomalies)', anomalies[j].key = k
          PROVE  n <= AnomalyThreshold - 2
      <4>1. j \in DOMAIN anomalies
        BY DEF Live
      <4>2. anomalies[j].firstSeen < a
        BY <1>1, <1>2, <2>6, <2>8, <3>3, <4>1, AnomalyAssumption DEF Live, Outdated
      <4>3. n <= Hidden(anomalies[j]) - 1
        BY <3>2, <3>3, <4>2 DEF Follows
      <4> QED
        BY <2>8, <4>1, <4>3, AnomalyAssumption
    <3>4. (\A j \in Live(anomalies)' : anomalies[j].key # k) => n <= AnomalyThreshold - 2
      BY <3>2, <3>3 DEF Follows
    <3> QED
      BY <1>1, <2>9, <3>2, <3>4 DEF Follows, Hidden
  <2> QED
    BY <1>2, <2>10, <2>11
<1> QED
  BY <1>3, <1>4 DEF ReportInv


LEMMA CallsKeepReports ==
  ASSUME ReportInv, NEW q \in Names, CheckAnomaly(q), UNCHANGED moment
  PROVE  ReportInv'
<1>1. ReportTypeOK
  BY DEF ReportInv
<1>2. PICK e \in AnomalyEntry, c \in Call :
        /\ e.key = q /\ CallIs(c, q, c.full)
        /\ MapStep(q, e, c.full) /\ Counted(q, e, c.reported, c.full)
  BY <1>1, CheckIs
<1>3. PICK n \in Nat : n = Len(calls) /\ DOMAIN calls = 1 .. n
  BY <1>1 DEF ReportTypeOK
<1>4. /\ calls' \in Seq(Call) /\ DOMAIN calls' = 1 .. (n + 1) /\ calls'[n + 1] = c
      /\ \A i \in 1 .. n : calls'[i] = calls[i]
  BY <1>1, <1>2, <1>3 DEF CallIs, ReportTypeOK
<1>5. ReportTypeOK'
  <2>1. moment \in Nat /\ c.at = moment /\ \A i \in 1 .. n : calls[i].at <= moment
    BY <1>1, <1>2, <1>3 DEF CallIs, ReportTypeOK
  <2>2. \A i \in 1 .. (n + 1) : i = n + 1 \/ i \in 1 .. n
    BY <1>3
  <2>3. \A i \in DOMAIN calls' : calls'[i].at <= moment
    BY <1>4, <2>1, <2>2
  <2>4. anomalies' \in Seq(AnomalyEntry)
    BY <1>2 DEF MapStep
  <2> QED
    BY <1>4, <2>1, <2>3, <2>4 DEF ReportTypeOK
<1>6. \A j \in DOMAIN anomalies : anomalies[j] \in AnomalyEntry
  BY <1>1 DEF ReportTypeOK
<1>7. /\ Live(anomalies) \subseteq DOMAIN anomalies
      /\ Live(anomalies)' = {j \in DOMAIN anomalies' : ~Outdated(anomalies'[j])}
  BY DEF Live, Outdated
<1>8. ASSUME NEW k \in Names, NEW a \in Nat PROVE Tally(k, a)'
  <2>1. Tally(k, a)
    BY DEF ReportInv
  <2>2. PICK u \in Nat : u = Cardinality(Unreported(k, a))
    BY <1>1, UnreportedIs
  <2>3. PICK inside \in BOOLEAN : inside <=> moment \in a .. a + AnomalyWindow
    OBVIOUS
  <2>4. /\ FullSince(a) => FullSince(a)'
        /\ c.full /\ inside => FullSince(a)'
    BY <1>1, <1>2, <2>3, CallAdds
  <2>5. k = q /\ ~c.reported /\ inside => Cardinality(Unreported(k, a)') = u + 1
    BY <1>1, <1>2, <2>2, <2>3, CallAdds
  <2>6. ~(k = q /\ ~c.reported /\ inside) => Cardinality(Unreported(k, a)') = u
    <3>1. ASSUME ~(k = q /\ ~c.reported /\ inside) PROVE Unreported(k, a)' = Unreported(k, a)
      BY <1>1, <1>2, <2>3, <3>1, CallAdds
    <3> QED
      BY <2>2, <3>1
  <2>7. SUFFICES ASSUME ~FullSince(a), ~FullSince(a)' PROVE Tally(k, a)'
    BY <2>4 DEF Tally
  <2>8. u <= 2 * AnomalyThreshold - 3
    BY <2>1, <2>2, <2>7 DEF Tally
  <2>9. CASE ~inside
    BY <2>2, <2>3, <2>6, <2>8, <2>9 DEF Tally
  <2>10. CASE inside
    <3>1. Follows(u, k, a, anomalies) /\ ~c.full
      BY <2>1, <2>2, <2>3, <2>4, <2>7, <2>10 DEF Tally
    <3>2. CASE k # q
      <4>1. Cardinality(Unreported(k, a)') = u
        BY <2>6, <3>2
      <4>2. ASSUME NEW j \in Live(anomalies)', anomalies'[j].key = k
            PROVE  \E i \in Live(anomalies) : anomalies'[j] = anomalies[i]
        <5>1. PICK i \in DOMAIN anomalies : anomalies'[j] = anomalies[i]
          BY <1>2, <1>7, <3>2, <4>2 DEF MapStep
        <5> QED
          BY <1>7, <4>2, <5>1 DEF Live
      <4>3. ASSUME NEW i \in Live(anomalies), anomalies[i].key = k
            PROVE  \E j \in Live(anomalies)' : anomalies'[j] = anomalies[i]
        <5>1. PICK j \in DOMAIN anomalies' : anomalies'[j] = anomalies[i]
          BY <1>2, <3>1, <3>2, <4>3 DEF MapStep
        <5> QED
          BY <1>7, <5>1 DEF Live
      <4>4. Follows(u, k, a, anomalies)'
        <5>1. (\A j \in Live(anomalies)' : anomalies'[j].key # k) => u <= AnomalyThreshold - 2
          BY <3>1, <4>3 DEF Follows
        <5>2. ASSUME NEW j \in Live(anomalies)', anomalies'[j].key = k
              PROVE  /\ anomalies'[j].firstSeen < a => u <= Hidden(anomalies'[j]) - 1
                     /\ anomalies'[j].firstSeen >= a =>
                          u <= AnomalyThreshold - 2 + Hidden(anomalies'[j])
          BY <3>1, <4>2, <5>2 DEF Follows
        <5> QED
          BY <5>1, <5>2 DEF Follows, Hidden
      <4> QED
        BY <2>8, <4>1, <4>4, UNCHANGED moment DEF Tally
    <3>3. CASE k = q
      <4> DEFINE v == IF c.reported THEN u ELSE u + 1
      <4>1. v \in Nat /\ Cardinality(Unreported(k, a)') = v
        BY <2>5, <2>6, <2>10, <3>3
      <4>2. /\ e.count \in Nat /\ 1 <= e.count /\ e.firstSeen \in Nat
            /\ Hidden(e) \in Nat /\ 1 <= Hidden(e) /\ Hidden(e) <= AnomalyThreshold - 1
        BY HiddenIs DEF AnomalyEntry
      <4>3. /\ e.firstSeen < a => v <= Hidden(e) - 1
            /\ e.firstSeen >= a => v <= AnomalyThreshold - 2 + Hidden(e)
        <5>1. ASSUME e.count = 1, e.firstSeen = moment, ~c.reported,
                     \A i \in Live(anomalies) : anomalies[i].key # q
              PROVE  moment >= a /\ v <= AnomalyThreshold - 2 + Hidden(e)
          <6>1. u <= AnomalyThreshold - 2
            BY <3>1, <3>3, <5>1 DEF Follows
          <6>2. moment >= a
            BY <1>1, <2>3, <2>10, AnomalyAssumption DEF ReportTypeOK
          <6> QED
            BY <4>2, <5>1, <6>1, <6>2, AnomalyAssumption
        <5>2. ASSUME NEW i \in Live(anomalies), anomalies[i].key = q,
                     e.count = anomalies[i].count + 1, e.firstSeen = anomalies[i].firstSeen,
                     c.reported = (e.count >= AnomalyThreshold)
              PROVE  /\ e.firstSeen < a => v <= Hidden(e) - 1
                     /\ e.firstSeen >= a => v <= AnomalyThreshold - 2 + Hidden(e)
          <6>1. PICK b \in AnomalyEntry : b = anomalies[i]
            BY <1>6, <1>7
          <6>2. /\ b.firstSeen < a => u <= Hidden(b) - 1
                /\ b.firstSeen >= a => u <= AnomalyThreshold - 2 + Hidden(b)
            BY <3>1, <3>3, <5>2, <6>1 DEF Follows
          <6>3. /\ b.count \in Nat /\ b.count >= 1
                /\ e.count = b.count + 1 /\ e.firstSeen = b.firstSeen
            BY <5>2, <6>1 DEF AnomalyEntry
          <6>4. CASE c.reported
            <7>1. e.count >= AnomalyThreshold
              BY <5>2, <6>4
            <7>2. /\ Hidden(e) = AnomalyThreshold - 1
                  /\ Hidden(b) \in Nat /\ Hidden(b) <= AnomalyThreshold - 1
              BY <4>2, <7>1, HiddenIs, AnomalyAssumption DEF Hidden
            <7> QED
              BY <6>2, <6>3, <6>4, <7>2, AnomalyAssumption
          <6>5. CASE ~c.reported
            <7>1. e.count < AnomalyThreshold
              <8>1. ~(e.count >= AnomalyThreshold)
                BY <5>2, <6>5
              <8> QED
                BY <4>2, <8>1, AnomalyAssumption
            <7>2. Hidden(e) = b.count + 1 /\ Hidden(b) = b.count
              BY <6>3, <7>1, AnomalyAssumption DEF Hidden
            <7> QED
              BY <6>2, <6>3, <6>5, <7>2, AnomalyAssumption
          <6> QED
            BY <6>4, <6>5
        <5>3. a \in Nat /\ moment \in Nat
          BY <1>1 DEF ReportTypeOK
        <5>4. CASE \E i \in Live(anomalies) :
                     /\ anomalies[i].key = q
                     /\ e.count = anomalies[i].count + 1 /\ e.firstSeen = anomalies[i].firstSeen
                     /\ c.reported = (e.count >= AnomalyThreshold)
          BY <5>2, <5>4
        <5>5. CASE /\ e.count = 1 /\ e.firstSeen = moment /\ ~c.reported
                   /\ \A i \in Live(anomalies) : anomalies[i].key # q
          <6> HIDE DEF v
          <6> QED
            BY <5>1, <5>3, <5>5
        <5> QED
          BY <1>2, <3>1, <5>4, <5>5 DEF Counted
      <4> HIDE DEF v
      <4>4. v <= 2 * AnomalyThreshold - 3
        BY <4>1, <4>2, <4>3, AnomalyAssumption
      <4>5. PICK m \in DOMAIN anomalies' : anomalies'[m] = e
        BY <1>2 DEF MapStep
      <4>6. \A j \in DOMAIN anomalies' : anomalies'[j].key = q => anomalies'[j] = e
        BY <1>2 DEF MapStep
      <4>7. Follows(v, k, a, anomalies)'
        <5>1. ASSUME \A j \in Live(anomalies)' : anomalies'[j].key # k
              PROVE  v <= AnomalyThreshold - 2
          <6>1. m \notin Live(anomalies)'
            BY <1>2, <3>3, <4>5, <5>1
          <6>2. Outdated(e)
            BY <1>7, <4>5, <6>1
          <6>3. e.firstSeen < a
            BY <1>1, <2>3, <2>10, <4>2, <6>2, AnomalyAssumption DEF Outdated, ReportTypeOK
          <6> QED
            BY <4>1, <4>2, <4>3, <6>3, AnomalyAssumption
        <5>2. ASSUME NEW j \in Live(anomalies)', anomalies'[j].key = k
              PROVE  anomalies'[j] = e
          BY <1>7, <3>3, <4>6, <5>2
        <5> QED
          BY <4>3, <5>1, <5>2 DEF Follows, Hidden
      <4> QED
        BY <4>1, <4>4, <4>7, UNCHANGED moment DEF Tally
    <3> QED
      BY <3>2, <3>3
  <2> QED
    BY <2>9, <2>10
<1> QED
  BY <1>5, <1>8 DEF ReportInv


\* The keys of calls are those of claims and deposits.
LEMMA ReportStep ==
  ASSUME ProofTypeOK, ReportInv, [Step]_<<proofVars, attestorVars>>
  PROVE  ReportInv'
<1>1. ASSUME UNCHANGED <<anomalies, calls, moment>> PROVE ReportInv'
  <2>1. ReportTypeOK'
    BY <1>1 DEF ReportInv, ReportTypeOK
  <2>2. ASSUME NEW k \in Names, NEW a \in Nat PROVE Tally(k, a)'
    <3>1. Tally(k, a)
      BY DEF ReportInv
    <3>2. Unreported(k, a)' = Unreported(k, a) /\ FullSince(a)' = FullSince(a)
      BY <1>1 DEF Unreported, FullSince
    <3>3. Live(anomalies)' = Live(anomalies)
      BY <1>1 DEF Live, Outdated
    <3>4. ASSUME NEW n, Follows(n, k, a, anomalies) PROVE Follows(n, k, a, anomalies)'
      BY <1>1, <3>3, <3>4 DEF Follows, Hidden
    <3>5. PICK u : u = Cardinality(Unreported(k, a))
      OBVIOUS
    <3>6. Follows(u, k, a, anomalies) => Follows(u, k, a, anomalies)'
      BY <3>4
    <3> QED
      BY <1>1, <3>1, <3>2, <3>5, <3>6 DEF Tally
  <2> QED
    BY <2>1, <2>2 DEF ReportInv
<1>2. ASSUME NEW r \in Requests, NEW k \in ArKeys, NEW s \in signed, Attest(r, k, s)
      PROVE  ReportInv'
  <2>1. r.id \in Ids /\ r.spelling \in Spellings
    <3>1. \A i \in DOMAIN claims : claims[i] \in Claim
      BY DEF ProofTypeOK
    <3>2. \A i \in DOMAIN claims : claims[i].asset \in Ids
      BY <3>1 DEF Claim
    <3> QED
      BY <3>2 DEF Requests
  <2>2. <<k, EscrowKey(r)>> \in Names
    BY <2>1 DEF Names, EscrowKey
  <2>3. CheckAnomaly(<<k, EscrowKey(r)>>) /\ UNCHANGED moment
    BY <1>2 DEF Attest
  <2> QED
    BY <2>2, <2>3, CallsKeepReports
<1>3. CASE Wait
  BY <1>3, TimeKeepsReports
<1>4. CASE AttestNext
  BY <1>2, <1>4 DEF AttestNext
<1>5. CASE EscrowNext
  BY <1>1, <1>5 DEF EscrowNext, SignEscrow, EscrowClaim, attestorVars
<1>6. CASE ProofNext /\ UNCHANGED attestorVars
  BY <1>1, <1>6 DEF attestorVars
<1>7. CASE UNCHANGED <<proofVars, attestorVars>>
  BY <1>1, <1>7 DEF attestorVars
<1> QED
  BY <1>3, <1>4, <1>5, <1>6, <1>7 DEF Step

\* Whatever the addresses, deposits and times, and however entries are evicted:
\* fewer than twice the threshold less one attestations of one key for one deposit,
\* in one spelling of its id, pass unreported in any window in which the map was not
\* full of live entries.
THEOREM RepeatsAreSeen == AttestorSpec => []RepeatsAreReported
<1>1. AttestorSpec => []ReportInv
  <2>1. ProofInit({}) /\ AttestorInit => ReportInv
    BY ReportsStart
  <2> QED
    BY <2>1, ProofInvariant, ReportStep, PTL DEF AttestorSpec, Step
<1>2. ReportInv => RepeatsAreReported
  <2> SUFFICES ASSUME ReportInv, NEW j \in DOMAIN calls
               PROVE  LET window == {i \in DOMAIN calls :
                                       calls[i].at \in calls[j].at .. calls[j].at + AnomalyWindow}
                          mine == {i \in window : calls[i].key = calls[j].key /\ ~calls[i].reported}
                      IN \/ \E i \in window : calls[i].full
                         \/ Cardinality(mine) < 2 * (AnomalyThreshold - 1)
    BY DEF RepeatsAreReported
  <2> DEFINE a == calls[j].at
             k == calls[j].key
             window == {i \in DOMAIN calls : calls[i].at \in a .. a + AnomalyWindow}
             mine == {i \in window : calls[i].key = k /\ ~calls[i].reported}
  <2>1. ReportTypeOK
    BY DEF ReportInv
  <2>2. calls[j] \in Call
    BY <2>1 DEF ReportTypeOK
  <2>3. k \in Names /\ a \in Nat
    BY <2>2 DEF Call
  <2>4. mine = Unreported(k, a)
    BY DEF Unreported
  <2>5. FullSince(a) => \E i \in window : calls[i].full
    BY DEF FullSince
  <2>6. Tally(k, a)
    BY <2>3 DEF ReportInv
  <2>7. PICK n \in Nat : n = Cardinality(Unreported(k, a))
    BY <2>1, UnreportedIs
  <2> HIDE DEF a, k, window, mine
  <2>8. FullSince(a) \/ n < 2 * (AnomalyThreshold - 1)
    BY <2>6, <2>7, AnomalyAssumption DEF Tally
  <2>9. (\E i \in window : calls[i].full) \/ Cardinality(mine) < 2 * (AnomalyThreshold - 1)
    BY <2>4, <2>5, <2>7, <2>8
  <2> QED
    BY <2>9 DEF a, k, window, mine
<1> QED
  BY <1>1, <1>2, PTL

=============================================================================
