--------------------------- MODULE TransparencyLog ---------------------------
(***************************************************************************)
(* The transparency log of pq-certificate-authority.ts                     *)
(* (CertificateTransparency): a Merkle tree over the certificates that     *)
(* were submitted, with proofs that a certificate is in it.  No head of    *)
(* the tree is ever signed: the key is given to the library where it wants *)
(* the message, and signedTreeHead stays null.                             *)
(*                                                                         *)
(* In the tree a node without a sibling moves up a level as it is.  A hash *)
(* is the structure it was computed from.                                  *)
(***************************************************************************)
EXTENDS Integers, Sequences

CONSTANTS
    Logged,         \* certificates that may be submitted
    MaxLog          \* bound: entries of the log

VARIABLE treeHashes \* the hashes of the leaves

vars == <<treeHashes>>

LeafHash(cert) == <<"leaf", cert>>
NodeHash(left, right) == <<"node", left, right>>

\* One level up: places are counted from 0, as in the code.
Above(level) ==
    [i \in 1 .. (Len(level) + 1) \div 2 |->
        IF 2 * i <= Len(level) THEN NodeHash(level[2 * i - 1], level[2 * i])
        ELSE level[2 * i - 1]]

\* levelHashes after every round of the loop that climbs the tree.  There are at most as
\* many rounds as leaves; the loop ends at a single hash, and nothing is above that but
\* itself.
Levels(leaves) ==
    LET up[n \in 0 .. Len(leaves)] == IF n = 0 THEN leaves ELSE Above(up[n - 1])
    IN  up

\* computeRootHash()
ComputeRootHash(leaves) == Levels(leaves)[Len(leaves)][1]

\* idx after every round.
Places(index, rounds) ==
    LET idx[n \in 0 .. rounds] == IF n = 0 THEN index ELSE idx[n - 1] \div 2
    IN  idx

\* Faulty variant: the sibling is the next place up.
SiblingAfter(place) == place + 1

Sibling(place) == IF place % 2 = 0 THEN place + 1 ELSE place - 1

\* getInclusionProof(): the siblings that exist on the way up; a single hash has none.
InclusionProof(leaves, index) ==
    LET levels == Levels(leaves)
        idx == Places(index, Len(leaves))
        proof[n \in 0 .. Len(leaves)] ==
          IF n = 0 THEN << >>
          ELSE LET siblingIdx == Sibling(idx[n - 1])
               IN  IF siblingIdx < Len(levels[n - 1])
                   THEN Append(proof[n - 1], levels[n - 1][siblingIdx + 1])
                   ELSE proof[n - 1]
    IN  [leafIndex |-> index, hashes |-> proof[Len(leaves)],
         rootHash |-> levels[Len(leaves)][1]]

\* verifyInclusionProof(): the place of a node on each level is taken from the
\* number of hashes before, as though none had been left out.
VerifyInclusionProof(leafHash, proof) ==
    LET idx == Places(proof.leafIndex, Len(proof.hashes))
        currentHash[n \in 0 .. Len(proof.hashes)] ==
          IF n = 0 THEN leafHash
          ELSE IF idx[n - 1] % 2 = 0 THEN NodeHash(currentHash[n - 1], proof.hashes[n])
               ELSE NodeHash(proof.hashes[n], currentHash[n - 1])
    IN  currentHash[Len(proof.hashes)] = proof.rootHash

Init == treeHashes = << >>

\* submitCertificate(): throws in updateSTH(), when the leaf has been added; it stays.
SubmitCertificate(cert) ==
    /\ Len(treeHashes) < MaxLog
    /\ treeHashes' = Append(treeHashes, LeafHash(cert))

Next == \E cert \in Logged : SubmitCertificate(cert)

Spec == Init /\ [][Next]_vars

-----------------------------------------------------------------------------

Index == 0 .. Len(treeHashes) - 1

\* Nothing moves up without a sibling: with one, two, four, eight, ... entries.
Complete ==
    LET levels == Levels(treeHashes)
    IN  \A n \in DOMAIN levels : Len(levels[n]) = 1 \/ Len(levels[n]) % 2 = 0

\* A proof of the current log that verifies is one of the certificate it was made
\* for; and in a log where nothing moves up without a sibling every proof verifies.
\* (In others, a certificate that moved up has a proof that is read at the wrong
\* places.)
ProofsMatchLog ==
    \A i \in Index :
        LET proof == InclusionProof(treeHashes, i)
        IN  /\ \A j \in Index : VerifyInclusionProof(treeHashes[j + 1], proof)
                                    => treeHashes[j + 1] = treeHashes[i + 1]
            /\ Complete => VerifyInclusionProof(treeHashes[i + 1], proof)

-----------------------------------------------------------------------------

\* What makes the proofs inductive: the leaves are hashes of certificates.
LogInv == treeHashes \in Seq({LeafHash(cert) : cert \in Logged})

=============================================================================

