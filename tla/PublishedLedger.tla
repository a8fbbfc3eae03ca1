--------------------------- MODULE PublishedLedger --------------------------
(***************************************************************************)
(* The published ledger and the reserves report over the assets table of   *)
(* Ledger: publish:ledger and its artifact (transparency/ledger-artifact.ts*)
(* and store.ts), membership proofs, the verifier a third party runs       *)
(* (cli/verify-transparency.ts, mode artifact), and computeReserves.       *)
(*                                                                         *)
(* A signature is the pair of its key and what it signs.  The publisher's  *)
(* key is "publisher"; anyone else has "other".                            *)
(***************************************************************************)
EXTENDS Ledger, Merkle

CONSTANTS
  Reserve,       \* ARIO in hot and cold custody at the start
  ColdStart,     \* how much of it is cold
  MaxPublishes

ASSUME PublishedAssumption == Reserve \in Nat /\ ColdStart \in 0 .. Reserve

VARIABLES
  published,   \* how many rows published_ledger has; each is the artifact of the
               \* moment it was written and is never read by a writer
  cold,        \* balance of the cold reserve
  report       \* the reserves report being computed

pubVars == <<published, cold, report>>
allVars == <<ledgerVars, pubVars>>

NoReport == [pc |-> "idle", hot |-> None, owed |-> None, calm |-> TRUE]

PubInit ==
  /\ LedgerInit
  /\ published = 0
  /\ cold = ColdStart
  /\ report = NoReport

-----------------------------------------------------------------------------
(***************************************************************************)
(* The artifact.                                                           *)
(***************************************************************************)

LeafOf(k) ==
  [key |-> k, type |-> rows[k].type, recipient |-> rows[k].recipient,
   amount |-> rows[k].amount, endTs |-> rows[k].endTs, status |-> rows[k].status]

BuildLeavesFromDb == {LeafOf(k) : k \in {k \in DOMAIN rows : rows[k].status # "cancelled"}}

\* The order of the keys is all that sorting fixes.
SortLeaves(leaves) ==
  LET keys == SetToSeq({leaf.key : leaf \in leaves})
  IN [i \in DOMAIN keys |-> CHOOSE leaf \in leaves : leaf.key = keys[i]]

LeafHashes(leaves) == LET s == SortLeaves(leaves) IN [i \in DOMAIN s |-> HashLeaf(s[i])]

CommitLedger(leaves) ==
  [root |-> MerkleRoot(LeafHashes(leaves)), digest |-> HashLeaf(SortLeaves(leaves))]

TotalClaimable(leaves) == Amounts(leaves)

\* total stands for the figures that no verifier computes again: the amount
\* claimable, the counts by status, the network, the version, the time.
ManifestOf(leaves) ==
  [commit |-> CommitLedger(leaves), count |-> Cardinality(leaves),
   total  |-> TotalClaimable(leaves)]

BuildLedgerArtifact(leaves, key) ==
  [manifest |-> ManifestOf(leaves), signature |-> <<key, ManifestOf(leaves)>>,
   publisher |-> key, leaves |-> leaves]

\* Root, digest and count of the manifest are those of the leaves.
RederivesLeaves(artifact) ==
  /\ artifact.manifest.count = Cardinality(artifact.leaves)
  /\ artifact.manifest.commit = CommitLedger(artifact.leaves)

\* Mutant: the signature is checked with the key the artifact brings along.
VerifyEmbeddedKey(artifact, pinned) ==
  /\ artifact.signature = <<artifact.publisher, artifact.manifest>>
  /\ RederivesLeaves(artifact)

VerifyLedgerArtifact(artifact, pinned) ==
  /\ pinned # None /\ artifact.publisher = pinned
  /\ artifact.signature = <<pinned, artifact.manifest>>
  /\ RederivesLeaves(artifact)

\* verify-transparency artifact: pinned by the publisher's key, by a ledger-root
\* memo of a pinned signer, or both; every check printed must pass.
VerifyArtifactMode(artifact, pinned, anchor, signer) ==
  /\ anchor # None => /\ signer # None /\ anchor.signer = signer
                      /\ anchor.root = artifact.manifest.commit.root
  /\ pinned # None \/ anchor # None
  /\ IF pinned # None THEN VerifyLedgerArtifact(artifact, pinned) ELSE RederivesLeaves(artifact)

\* proveMembership, for a key that is committed.
ProveMembership(artifact, k) ==
  LET sorted == SortLeaves(artifact.leaves)
      hashes == LeafHashes(artifact.leaves)
      index  == CHOOSE i \in DOMAIN sorted : sorted[i].key = k
  IN [leaf |-> sorted[index], hash |-> hashes[index], proof |-> MerkleProof(hashes, index)]

VerifyMembership(m, root) ==
  /\ m.hash = HashLeaf(m.leaf)
  /\ VerifyMerkleProof(HashLeaf(m.leaf), m.proof, root)

\* publish:ledger: one SELECT, the artifact, its self-check, one INSERT.
PublishLedger ==
  /\ published < MaxPublishes
  /\ BuildLeavesFromDb # {}
  /\ VerifyLedgerArtifact(BuildLedgerArtifact(BuildLeavesFromDb, "publisher"), "publisher")
  /\ published' = published + 1
  /\ UNCHANGED <<ledgerVars, cold, report>>

-----------------------------------------------------------------------------
(***************************************************************************)
(* Reserves.                                                               *)
(***************************************************************************)

Paid == Amounts(delivered)
Hot  == Reserve - cold - Paid

\* Mutant: only assets nobody claims yet are owed.
OwedAvailable(k) == rows[k].type # "ant" /\ rows[k].status = "available"

Owed(k) ==
  rows[k].type # "ant" /\ rows[k].status \notin {"claimed", "cancelled", "manual_review"}

SumRows(K) == SumFunctionOnSet([k \in DOMAIN rows |-> rows[k].amount], K)

ReadLiabilities == SumRows({k \in DOMAIN rows : Owed(k)})

\* Balance and liabilities are read at the same time, in either order.
ComputeReserves ==
  /\ report.pc = "idle"
  /\ report' = [NoReport EXCEPT !.pc = "reading"]
  /\ UNCHANGED <<ledgerVars, published, cold>>

ReadHot ==
  /\ report.pc = "reading" /\ report.hot = None
  /\ report' = [report EXCEPT !.hot = Hot]
  /\ UNCHANGED <<ledgerVars, published, cold>>

ReadOwed ==
  /\ report.pc = "reading" /\ report.owed = None
  /\ report' = [report EXCEPT !.owed = ReadLiabilities]
  /\ UNCHANGED <<ledgerVars, published, cold>>

\* The cold balance is read last, and the report is complete.
ReadCold ==
  /\ report.pc = "reading" /\ report.hot # None /\ report.owed # None
  /\ report' = NoReport
  /\ UNCHANGED <<ledgerVars, published, cold>>

\* Runbook 03: the operator refills the float from cold.
RefillFloat ==
  /\ cold > 0
  /\ cold' = 0
  /\ UNCHANGED <<ledgerVars, published, report>>

-----------------------------------------------------------------------------
\* A claim is finalized or a build is written: figures read before and after it
\* do not belong together.  The report's calm, which no code reads, notes it.
Outdated ==
  \/ build.pc = "write"
  \/ \E k \in DOMAIN rows : rows'[k].status = "claimed" /\ rows[k].status # "claimed"

\* A step of the ledger; a transfer executes only if the float holds it.
LedgerStep ==
  /\ LedgerNext
  /\ \A t \in delivered' \ delivered : t.amount <= Hot
  /\ report' = IF report.pc = "reading" /\ Outdated THEN [report EXCEPT !.calm = FALSE]
                ELSE report
  /\ UNCHANGED <<published, cold>>

PubNext ==
  \/ LedgerStep
  \/ PublishLedger
  \/ ComputeReserves \/ ReadHot \/ ReadOwed \/ ReadCold \/ RefillFloat

PubSpec == PubInit /\ [][PubNext]_allVars

-----------------------------------------------------------------------------
(***************************************************************************)
(* Properties.                                                             *)
(***************************************************************************)

\* What another party may present for an artifact: its leaves, all but one or one
\* altered; its manifest, one computed anew, or either with another total; its
\* signature or one of a key of one's own; and any name for the publisher.
Altered(artifact) ==
  UNION {{artifact.leaves \ {leaf},
          (artifact.leaves \ {leaf}) \cup {[leaf EXCEPT !.amount = @ + 1]}} :
           leaf \in artifact.leaves}

Manifests(artifact, leaves) ==
  UNION {{m, [m EXCEPT !.total = @ + 1]} : m \in {artifact.manifest, ManifestOf(leaves)}}

Copies(artifact, leaves, m) ==
  {[manifest |-> m, signature |-> signature, publisher |-> key, leaves |-> leaves] :
     signature \in {artifact.signature, <<"other", m>>}, key \in {"publisher", "other"}}

\* The memos a verifier may be pointed at: the publisher's of the root, or someone
\* else's of whatever is presented.
PublishersMemo(artifact) == [root |-> artifact.manifest.commit.root, signer |-> "publisher"]
Memos(artifact, copy) ==
  {None, PublishersMemo(artifact), [root |-> copy.manifest.commit.root, signer |-> "other"]}

AcceptsTheOriginal(artifact) ==
  \A pin \in {"publisher", None}, memo \in {None, PublishersMemo(artifact)} :
    pin # None \/ memo # None => VerifyArtifactMode(artifact, pin, memo, "publisher")

AcceptsOnlyTheOriginal(artifact, copy) ==
  \A memo \in Memos(artifact, copy), signer \in {"publisher", None} :
    /\ VerifyArtifactMode(copy, "publisher", memo, signer) => copy = artifact
    /\ VerifyArtifactMode(copy, None, memo, signer) =>
         /\ copy.leaves = artifact.leaves
         /\ copy.manifest.commit = artifact.manifest.commit
         /\ copy.manifest.count = artifact.manifest.count

ProofsSound(leaves) ==
  \A artifact \in {BuildLedgerArtifact(leaves, "publisher")} :
    \A leaf \in leaves : \A m \in {ProveMembership(artifact, leaf.key)} :
      LET root == artifact.manifest.commit.root
      IN /\ m.leaf = leaf /\ VerifyMembership(m, root)
         /\ \A other \in {[leaf EXCEPT !.amount = @ + 1], [leaf EXCEPT !.status = "voided"]} :
              \A hash \in {m.hash, HashLeaf(other)} :
                ~VerifyMembership([leaf |-> other, hash |-> hash, proof |-> m.proof], root)

\* What is published convinces: a verifier that pins the publisher's key, its
\* memo or both accepts it.  With the key pinned nothing else is accepted of what
\* others can make of it, whatever memo is shown.  With the memo alone its leaves
\* are accepted and no others; the rest of the manifest, which the memo does not
\* bind, may then be anybody's.  And every committed asset has a proof against the
\* root, for every size of the ledger, which verifies with no other leaf.
OnlyPublishedIsAccepted ==
  [][published' # published =>
      \A leaves \in {BuildLeavesFromDb} :
        \A artifact \in {BuildLedgerArtifact(leaves, "publisher")} :
          /\ AcceptsTheOriginal(artifact)
          /\ \A others \in Altered(artifact) \cup {leaves} :
               \A m \in Manifests(artifact, others) :
                 \A copy \in Copies(artifact, others, m) : AcceptsOnlyTheOriginal(artifact, copy)
          /\ ProofsSound(leaves)]_allVars

\* What the custodian is worth beyond what is still to be paid.
Solvency ==
  Reserve - Paid
    - SumRows({k \in DOMAIN rows :
                 /\ rows[k].type # "ant"
                 /\ rows[k].status \in {"available", "claiming", "pending_review"}
                 /\ k \notin {t.key : t \in delivered}})

\* The reserves report adds up balances and liabilities read at different times.
\* It never shows more surplus than there is, though the float is refilled and
\* transfers execute while it is computed; the exception is a claim finalized,
\* or a ledger built, between the reads.
ReportsNeverOverstate ==
  [][report.pc = "reading" /\ report'.pc = "idle" /\ report.calm =>
       report.hot + cold - report.owed <= Solvency]_allVars
=============================================================================
