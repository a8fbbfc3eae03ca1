------------------------------- MODULE Merkle -------------------------------
(***************************************************************************)
(* The Merkle tree of transparency/merkle.ts.  A hash is the term it is a  *)
(* hash of, its prefix byte a tag: equal hashes, equal preimages.          *)
(***************************************************************************)
EXTENDS Integers, Sequences, SequencesExt

HashLeaf(data)        == <<"leaf", data>>
HashNode(left, right) == <<"node", left, right>>
NoLeaves              == <<"zero">>

\* One row of the tree from the one below: pairs are hashed, an odd tail is
\* promoted unchanged.
NextLevel(level) ==
  [i \in 1 .. (Len(level) + 1) \div 2 |->
     IF 2 * i <= Len(level) THEN HashNode(level[2 * i - 1], level[2 * i])
     ELSE level[2 * i - 1]]

\* The rows from the leaves to the root; a row of one hash is its own next.
Rows(leafHashes) ==
  LET row[n \in 0 .. Len(leafHashes)] ==
        IF n = 0 THEN leafHashes ELSE NextLevel(row[n - 1])
  IN row

MerkleRoot(leafHashes) ==
  IF leafHashes = <<>> THEN NoLeaves ELSE Rows(leafHashes)[Len(leafHashes)][1]

\* The proof step at position i (from 1) of a row; none for a promoted node.
Sibling(level, i) ==
  IF i % 2 = 0 THEN <<[hash |-> level[i - 1], side |-> "left"]>>
  ELSE IF i < Len(level) THEN <<[hash |-> level[i + 1], side |-> "right"]>>
  ELSE <<>>

Ascend(at, level) == [i |-> (at.i + 1) \div 2, steps |-> at.steps \o Sibling(level, at.i)]

\* Where the leaf at index has come after n rows, and the proof so far.
Path(leafHashes, index) ==
  LET rows == Rows(leafHashes)
      path[n \in 0 .. Len(leafHashes)] ==
        IF n = 0 THEN [i |-> index, steps |-> <<>>] ELSE Ascend(path[n - 1], rows[n - 1])
  IN path

MerkleProof(leafHashes, index) == Path(leafHashes, index)[Len(leafHashes)].steps

Hashed(acc, step) ==
  IF step.side = "left" THEN HashNode(step.hash, acc) ELSE HashNode(acc, step.hash)

\* The leaf hash with the first n steps of a proof folded over it.
Folded(leafHash, proof) ==
  LET acc[n \in 0 .. Len(proof)] ==
        IF n = 0 THEN leafHash ELSE Hashed(acc[n - 1], proof[n])
  IN acc

VerifyMerkleProof(leafHash, proof, root) == root = Folded(leafHash, proof)[Len(proof)]
=============================================================================
