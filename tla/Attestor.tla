------------------------------ MODULE Attestor ------------------------------
(***************************************************************************)
(* packages/attestor: POST /attest checks an RSA-PSS signature over a      *)
(* message it builds from the request and signs the message again with its *)
(* own key, which the escrow program on Solana accepts.  The attestor has  *)
(* no ledger: whose key it was is for the escrow to tell, from the         *)
(* recipient line of the message.                                          *)
(*                                                                         *)
(* The handler runs without a pause in one thread, so its counter of       *)
(* verifications under way is 0 whenever a request asks for a slot; it and *)
(* the per-address limit of the framework are left out.  A request refused *)
(* for its form or its signature changes nothing.                          *)
(***************************************************************************)
EXTENDS ClaimProof, Subsequences

CONSTANTS
  Spellings,           \* ways to write an asset id in hex: each digit in either case
  AnomalyWindow,       \* ANOMALY_WINDOW_MS
  AnomalyThreshold,    \* ANOMALY_THRESHOLD
  AnomalyGcThreshold,  \* ANOMALY_GC_THRESHOLD
  AnomalyMaxEntries,   \* ANOMALY_MAX_ENTRIES
  MaxCalls,            \* bound: attestations issued
  MaxMoment            \* bound: the clock

ASSUME AnomalyAssumption ==
  /\ AnomalyWindow \in Nat
  /\ AnomalyThreshold \in Nat /\ AnomalyThreshold >= 2
  /\ AnomalyMaxEntries \in Nat \ {0}

VARIABLES
  attested,   \* messages the attestor has signed
  paidOut,    \* id -> the wallet the escrow of that id paid, or Nobody
  anomalies,  \* anomalyByKey, in order of insertion
  calls,      \* what was attested when, and whether it was reported
  moment      \* the attestor's clock

attestorVars == <<attested, paidOut, anomalies, calls, moment>>

AttestorInit ==
  /\ attested = {}
  /\ paidOut = [d \in Ids |-> Nobody]
  /\ anomalies = <<>>
  /\ calls = <<>>
  /\ moment = 0

-----------------------------------------------------------------------------
(* Reports of repeated attestations.                                       *)

Outdated(e) == moment - e.firstSeen > AnomalyWindow

Live(s) == {j \in DOMAIN s : ~Outdated(s[j])}

\* Room for the entry that may be added: down to one less than the cap.
EvictOldest(s) ==
  IF Len(s) >= AnomalyMaxEntries
  THEN SubSeq(s, Len(s) - AnomalyMaxEntries + 2, Len(s))
  ELSE s

GcAnomalies(s) ==
  IF Len(s) > AnomalyGcThreshold
  THEN EvictOldest(KeepAt(s, Live(s)))
  ELSE s

\* A Map keeps the place of a key that is set again.
SetEntry(s, e) ==
  IF \E j \in DOMAIN s : s[j].key = e.key
  THEN [j \in DOMAIN s |-> IF s[j].key = e.key THEN e ELSE s[j]]
  ELSE Append(s, e)

Repeats(s, key) == {j \in Live(s) : s[j].key = key}

\* Mutant: one too late.
IsAnomalousLate(count) == count > AnomalyThreshold

IsAnomalous(count) == count >= AnomalyThreshold

CheckAnomaly(key) ==
  LET kept == GcAnomalies(anomalies)
      fresh == [key |-> key, count |-> 1, firstSeen |-> moment]
      again == Repeats(kept, key)
      counted == IF again = {} THEN fresh
                 ELSE LET e == kept[CHOOSE j \in again : TRUE]
                      IN [e EXCEPT !.count = @ + 1]
  IN /\ anomalies' = SetEntry(kept, counted)
     /\ calls' = Append(calls,
          [key |-> key, at |-> moment, reported |-> again # {} /\ IsAnomalous(counted.count),
           full |-> Cardinality(Live(anomalies)) >= AnomalyMaxEntries])

-----------------------------------------------------------------------------

\* What a client asks to be attested: fields of a deposit or of a claim it has
\* seen, the id of a token or a vault in a spelling of its choice.
Requests ==
  {[id |-> d, spelling |-> w, type |-> Deposits[d].type, amount |-> Deposits[d].amount,
    claimant |-> c, nonce |-> 0] : d \in Ids, w \in Spellings, c \in Claimants}
  \cup {[id |-> claims[i].asset, spelling |-> w, type |-> assets[claims[i].asset].type,
         amount |-> assets[claims[i].asset].amount,
         claimant |-> claims[i].claimant, nonce |-> BoundNonce(claims[i].challenge)] :
          i \in DOMAIN claims, w \in Spellings}

\* decodeHex takes every spelling for the same id, but the repeats are counted by
\* the string in the request.  A mint, in base58, has one spelling.
EscrowKey(r) == <<r.id, IF r.type = "ant" THEN "base58" ELSE r.spelling>>

\* The recipient line is made from the modulus in the request.
RequestMessage(r, modulus) == CanonicalMessage(r.id, r, r.claimant, r.nonce, modulus)

Attest(r, modulus, sig) ==
  /\ Len(calls) < MaxCalls
  /\ VerifyRsaPss(RequestMessage(r, modulus), sig, modulus)
  /\ attested' = attested \cup {RequestMessage(r, modulus)}
  /\ CheckAnomaly(<<modulus, EscrowKey(r)>>)
  /\ UNCHANGED <<paidOut, moment, proofVars>>

AttestNext == \E r \in Requests, k \in ArKeys, s \in signed : Attest(r, k, s)

\* Anyone may sign, for an escrow, the message that names its recipient or oneself.
SignEscrow(k, d, c, named) ==
  /\ Cardinality(signed) < MaxSignings
  /\ named \in {k, Deposits[d].recipient}
  /\ signed' = signed \cup
       {[key |-> k, message |-> CanonicalMessage(d, Deposits[d], c, 0, named), shown |-> 0]}
  /\ UNCHANGED <<assets, claims, accepted, attestorVars>>

\* The escrow program rebuilds the message from its own account and looks for the
\* attestor's signature (Arweave) or the recipient's (Ethereum).
EscrowClaim(d, c) ==
  LET message == CanonicalMessage(d, Deposits[d], c, 0, Deposits[d].recipient)
  IN /\ paidOut[d] = Nobody
     /\ \/ Protocol(Deposits[d].recipient) = "arweave" /\ message \in attested
        \/ /\ Protocol(Deposits[d].recipient) = "ethereum"
           /\ \E s \in signed : VerifyPersonalSign(message, s, Deposits[d].recipient)
     /\ paidOut' = [paidOut EXCEPT ![d] = c]
     /\ UNCHANGED <<attested, anomalies, calls, moment, proofVars>>

EscrowNext ==
  \/ \E k, named \in WalletKeys, d \in Ids, c \in Claimants : SignEscrow(k, d, c, named)
  \/ \E d \in Ids, c \in Claimants : EscrowClaim(d, c)

Wait ==
  /\ moment < MaxMoment
  /\ moment' = moment + 1
  /\ UNCHANGED <<attested, paidOut, anomalies, calls, proofVars>>

\* The claims service, the attestor and the escrows, about the same deposits
\* and in the hands of the same wallets.
AttestorSpec ==
  /\ ProofInit({}) /\ AttestorInit
  /\ [][\/ ProofNext /\ UNCHANGED attestorVars
       \/ AttestNext \/ EscrowNext \/ Wait]_<<proofVars, attestorVars>>

-----------------------------------------------------------------------------

\* An escrow pays a wallet only if the recipient of its deposit has signed for
\* that wallet at the escrow's page: a key of one's own gets an attestation, but
\* of a message that names that key (the F-1 binding in canonical.ts).
EscrowPaysTheRecipient ==
  \A d \in Ids :
    paidOut[d] # Nobody =>
      \E s \in signed :
        s.key = Deposits[d].recipient /\ s.message.claimant = paidOut[d] /\ s.shown = 0

\* An entry hides one attestation less than the threshold.  Within a window fewer
\* than twice as many of one key for one asset id, as the requests spell it, go
\* unreported, since the window is one per entry and not a sliding one, unless the
\* map was at its cap meanwhile.  Another spelling of the id has an entry of its own.
RepeatsAreReported ==
  \A j \in DOMAIN calls :
    LET window == {i \in DOMAIN calls :
                     calls[i].at \in calls[j].at .. calls[j].at + AnomalyWindow}
        mine == {i \in window : calls[i].key = calls[j].key /\ ~calls[i].reported}
    IN \/ \E i \in window : calls[i].full
       \/ Cardinality(mine) < 2 * (AnomalyThreshold - 1)
=============================================================================
