------------------------------ MODULE Election ------------------------------
(***************************************************************************)
(* One ElectionManager of src/src/utils/pq-homomorphic-voting.ts with its  *)
(* VoterRegistry, BallotBuilder, TallyingProtocol and AuditEngine.         *)
(*                                                                         *)
(* A voter secret stands for the nullifier hashed from it.  A ciphertext   *)
(* is the integer it encrypts: addition of ciphertexts adds the integers,  *)
(* and the error that decryption meets is one of Noise, either way.  The   *)
(* Merkle root is the set of leaves it was computed from, empty at first.  *)
(* The validity proof of a ranked or an approval ballot does not verify:   *)
(* its challenges are random and do not add up to the Fiat-Shamir hash.    *)
(*                                                                         *)
(* A call that throws before it changes anything is a stuttering step; the *)
(* calls that throw after a change are actions of their own.               *)
(***************************************************************************)
EXTENDS Integers, FiniteSets, Sequences, FiniteSetsExt, SequencesExt, FiniteSetTheorems, TLAPS

CONSTANTS
    Voter,           \* the voter identifiers
    Secret,          \* the voter secrets, one nullifier each
    Question,        \* config.questions
    First,           \* config.questions[0]
    Candidates,      \* the number of candidates of every question
    MessageSpace,    \* msgSpace of the constructor
    Noise,           \* by how much what decryption finds may be off, either way
    MaxDelegations,  \* bound: the delegations that are recorded at once
    NoResult         \* a question that is not tallied

\* What is assumed of them.
Assumed ==
    /\ First \in Question
    /\ Candidates \in Nat \ {0}
    /\ MessageSpace \in Nat \ {0}
    /\ Noise \subseteq Int

VARIABLES
    phase,           \* state.phase
    voters,          \* registry.voters, registry.eligibleSet
    nullifiers,      \* registry.nullifiers
    ballots,         \* state.ballots, each with its question
    ballotHashes,    \* audit.ballotHashes
    merkleRoot,      \* audit.merkleRoot
    delegations,     \* state.delegations
    results,         \* state.results
    voted            \* turnoutStats.voted

registry == <<voters, nullifiers>>
audit == <<ballotHashes, merkleRoot>>
vars == <<phase, voters, nullifiers, ballots, ballotHashes, merkleRoot,
          delegations, results, voted>>

Phase == {"SETUP", "REGISTRATION", "VOTING", "TALLYING", "RESULTS",
          "AUDITING", "CLOSED"}
BallotType == {"SINGLE_CHOICE", "RANKED_CHOICE", "APPROVAL"}
EncryptedBallot == [question : Question, nullifier : Secret,
                    type : BallotType, value : Nat]

BallotsOf(q) == {b \in ballots : b.question = q}

Init ==
    /\ phase = "SETUP"
    /\ voters = {}
    /\ nullifiers = {}
    /\ ballots = {}
    /\ ballotHashes = {}
    /\ merkleRoot = {}
    /\ delegations = << >>
    /\ results = [q \in Question |-> NoResult]
    /\ voted = 0

-----------------------------------------------------------------------------
(* Setup and registration.                                                 *)

Setup ==
    /\ phase = "SETUP"
    /\ phase' = "REGISTRATION"
    /\ UNCHANGED <<registry, ballots, audit, delegations, results, voted>>

RegisterVoter(v) ==
    /\ phase = "REGISTRATION"
    /\ v \notin voters
    /\ voters' = voters \cup {v}
    /\ UNCHANGED <<phase, nullifiers, ballots, audit, delegations, results,
                   voted>>

OpenVoting ==
    /\ phase = "REGISTRATION"
    /\ voters # {}
    /\ phase' = "VOTING"
    /\ UNCHANGED <<registry, ballots, audit, delegations, results, voted>>

-----------------------------------------------------------------------------
(* Voting.                                                                 *)

\* Faulty variant: the nullifier is looked up and not kept.
SubmitNullifierForgets(s) ==
    /\ s \notin nullifiers
    /\ UNCHANGED nullifiers

SubmitNullifier(s) ==
    /\ s \notin nullifiers
    /\ nullifiers' = nullifiers \cup {s}

\* Faulty variant: a ballot that is left out of the audit.
RecordBallotUnaudited(q, s, type, value) ==
    /\ ballots' = ballots \cup
         {[question |-> q, nullifier |-> s, type |-> type, value |-> value]}
    /\ voted' = voted + 1
    /\ UNCHANGED ballotHashes

RecordBallot(q, s, type, value) ==
    /\ ballots' = ballots \cup
         {[question |-> q, nullifier |-> s, type |-> type, value |-> value]}
    /\ ballotHashes' = ballotHashes \cup {s}
    /\ voted' = voted + 1

\* Faulty variant: the phase is not asserted.
CastVoteAnytime(v, s, q, vote) ==
    /\ v \in voters
    /\ vote < Candidates
    /\ SubmitNullifier(s)
    /\ RecordBallot(q, s, "SINGLE_CHOICE", vote)
    /\ UNCHANGED <<phase, voters, merkleRoot, delegations, results>>

CastVote(v, s, q, vote) ==
    /\ phase = "VOTING"
    /\ v \in voters
    /\ SubmitNullifier(s)
    /\ vote < Candidates
    /\ RecordBallot(q, s, "SINGLE_CHOICE", vote)
    /\ UNCHANGED <<phase, voters, merkleRoot, delegations, results>>

\* The vote is validated after the nullifier has been recorded.
CastVoteInvalid(v, s, vote) ==
    /\ phase = "VOTING"
    /\ v \in voters
    /\ SubmitNullifier(s)
    /\ vote >= Candidates
    /\ UNCHANGED <<phase, voters, ballots, audit, delegations, results, voted>>

\* Only the rank of the first candidate is encrypted; the voter is not asked
\* for.
CastRankedVote(s, q, rank) ==
    /\ phase = "VOTING"
    /\ SubmitNullifier(s)
    /\ RecordBallot(q, s, "RANKED_CHOICE", rank)
    /\ UNCHANGED <<phase, voters, merkleRoot, delegations, results>>

\* The number of approvals is encrypted modulo 2.
CastApprovalVote(s, q, approvals) ==
    /\ phase = "VOTING"
    /\ SubmitNullifier(s)
    /\ RecordBallot(q, s, "APPROVAL", approvals % 2)
    /\ UNCHANGED <<phase, voters, merkleRoot, delegations, results>>

RegisterDelegation(a, b, revocable) ==
    /\ phase = "VOTING"
    /\ {a, b} \subseteq voters
    /\ ~ \E i \in DOMAIN delegations :
           delegations[i].delegator = b /\ delegations[i].delegate = a
    /\ Len(delegations) < MaxDelegations
    /\ delegations' = Append(delegations, [delegator |-> a, delegate |-> b,
                                           revocable |-> revocable])
    /\ UNCHANGED <<phase, registry, ballots, audit, results, voted>>

\* The first revocable record of the pair goes, in any phase.
RevokeDelegation(a, b) ==
    LET match == {i \in DOMAIN delegations : delegations[i] =
                    [delegator |-> a, delegate |-> b, revocable |-> TRUE]}
    IN  /\ match # {}
        /\ delegations' = RemoveAt(delegations, Min(match))
        /\ UNCHANGED <<phase, registry, ballots, audit, results, voted>>

-----------------------------------------------------------------------------
(* Tally, results and audit.                                               *)

\* Faulty variant: the tree is left to be built later.
CloseVotingTreeless ==
    /\ phase = "VOTING"
    /\ phase' = "TALLYING"
    /\ UNCHANGED <<registry, ballots, audit, delegations, results, voted>>

\* With no ballots buildMerkleTree() throws after the phase has changed, and
\* the root stays empty.
CloseVoting ==
    /\ phase = "VOTING"
    /\ phase' = "TALLYING"
    /\ merkleRoot' = ballotHashes
    /\ UNCHANGED <<registry, ballots, ballotHashes, delegations, results,
                   voted>>

RingModulus == 12289
EncryptionScale == RingModulus \div MessageSpace

\* combineShares() takes its message space from DELTA, which is set for two
\* messages, and not from the space that the ballots were encrypted for.
DecryptionSpace == RingModulus \div (RingModulus \div 2)

\* What the threshold decryption returns for an encrypted sum m.
CombineShares(m, noise) ==
    LET raw == (EncryptionScale * m + noise) % RingModulus
        centered == IF raw > RingModulus \div 2 THEN raw - RingModulus ELSE raw
        rounded == (2 * DecryptionSpace * centered + RingModulus)
                     \div (2 * RingModulus)
    IN  rounded % DecryptionSpace

AggregateBallots(q) == MapThenSumSet(LAMBDA b : b.value, BallotsOf(q))

\* A question can be tallied again, with the same outcome but for the noise.
TallyQuestion(q) ==
    /\ phase = "TALLYING"
    /\ BallotsOf(q) # {}
    /\ \E noise \in Noise \cup {-n : n \in Noise} :
         results' = [results EXCEPT ![q] =
                       [totalVotes |-> Cardinality(BallotsOf(q)),
                        decryptedTally |-> CombineShares(AggregateBallots(q), noise)]]
    /\ UNCHANGED <<phase, registry, ballots, audit, delegations, voted>>

\* Nothing asks whether any question has been tallied.
PublishResults ==
    /\ phase = "TALLYING"
    /\ phase' = "RESULTS"
    /\ UNCHANGED <<registry, ballots, audit, delegations, results, voted>>

BeginAudit ==
    /\ phase = "RESULTS"
    /\ phase' = "AUDITING"
    /\ UNCHANGED <<registry, ballots, audit, delegations, results, voted>>

CloseElection ==
    /\ phase \in {"RESULTS", "AUDITING"}
    /\ phase' = "CLOSED"
    /\ UNCHANGED <<registry, ballots, audit, delegations, results, voted>>

VerifyBallotInclusion(s) == s \in ballotHashes /\ merkleRoot = ballotHashes
VerifyValidityProof(b) == b.type = "SINGLE_CHOICE"

\* verifyElection().valid: the checks are those of the first question, and
\* there are none unless it has a result.
VerifyElection ==
    results[First] # NoResult =>
        /\ \A b \in BallotsOf(First) : b.nullifier \in ballotHashes
        /\ \A b, c \in BallotsOf(First) : b.nullifier = c.nullifier => b = c
        /\ \A b \in BallotsOf(First) : VerifyValidityProof(b)
        /\ results[First].totalVotes = Cardinality(BallotsOf(First))
        /\ merkleRoot # {}

-----------------------------------------------------------------------------

Next ==
    \/ Setup
    \/ \E v \in Voter : RegisterVoter(v)
    \/ OpenVoting
    \/ \E v \in Voter, s \in Secret, q \in Question, vote \in 0 .. Candidates :
         CastVote(v, s, q, vote) \/ CastVoteInvalid(v, s, vote)
    \/ \E s \in Secret, q \in Question, n \in 0 .. Candidates :
         CastRankedVote(s, q, n) \/ CastApprovalVote(s, q, n)
    \/ \E a, b \in Voter, r \in BOOLEAN : RegisterDelegation(a, b, r)
    \/ \E a, b \in Voter : RevokeDelegation(a, b)
    \/ CloseVoting
    \/ \E q \in Question : TallyQuestion(q)
    \/ PublishResults
    \/ BeginAudit
    \/ CloseElection

Spec == Init /\ [][Next]_vars

-----------------------------------------------------------------------------
(* Properties.                                                             *)

\* No nullifier stands on two ballots, of the same question or of different
\* ones ("Double vote detected").
OneBallotPerNullifier ==
    \A b, c \in ballots : b.nullifier = c.nullifier => b = c

\* The turnout that closeVoting() and the summary report is the number of
\* ballots that were recorded, over all questions.
TurnoutCountsBallots == voted = Cardinality(ballots)

\* Once voting has closed, every voter who cast a ballot can verify that it is
\* included, and nothing else is.
EveryBallotIncluded ==
    phase \notin {"SETUP", "REGISTRATION", "VOTING"} =>
        /\ \A b \in ballots : VerifyBallotInclusion(b.nullifier)
        /\ \A s \in Secret : VerifyBallotInclusion(s) =>
             \E b \in ballots : b.nullifier = s

\* A result stands for all the ballots of its question, also after publication.
ResultsCountAllBallots ==
    \A q \in Question : results[q] # NoResult =>
        results[q].totalVotes = Cardinality(BallotsOf(q))

\* An election whose first question was answered by single choices passes the
\* universal verification whenever it is run.
SingleChoiceVerifies ==
    (\A b \in BallotsOf(First) : b.type = "SINGLE_CHOICE") => VerifyElection

\* A decrypted tally is the sum of the votes in the space they are encrypted
\* for ("recover message").
TallyRecovered ==
    \A q \in Question : results[q] # NoResult =>
        results[q].decryptedTally = AggregateBallots(q) % MessageSpace

-----------------------------------------------------------------------------
(* What an election keeps for any number of voters, secrets and questions. *)
(*                                                                         *)
(* The audit's leaves are exactly the nullifiers of the ballots, each of   *)
(* them recorded by the registry, so a nullifier that the registry accepts *)
(* is on no ballot yet; and from the moment voting closes, the ballots,    *)
(* the leaves and the root stay what they are.  The results are empty      *)
(* until then.  This is inductive and implies the properties.              *)
(*                                                                         *)
(* What a decrypted tally is worth is not proved here: the sum over a set  *)
(* needs an induction over data.                                           *)

Open == {"SETUP", "REGISTRATION", "VOTING"}

Types ==
    /\ phase \in Phase
    /\ nullifiers \subseteq Secret
    /\ ballots \subseteq EncryptedBallot
    /\ results = [q \in Question |-> results[q]]

\* The audit holds one leaf per ballot, the registry a nullifier per leaf.
Leaves ==
    /\ ballotHashes = {b.nullifier : b \in ballots}
    /\ ballotHashes \subseteq nullifiers
    /\ OneBallotPerNullifier

Counted ==
    /\ IsFiniteSet(ballots)
    /\ TurnoutCountsBallots

\* What closing the vote fixes.
Closed ==
    /\ phase \notin Open => merkleRoot = ballotHashes
    /\ phase \in Open => \A q \in Question : results[q] = NoResult
    /\ ResultsCountAllBallots

IInv == Types /\ Leaves /\ Counted /\ Closed

-----------------------------------------------------------------------------

\* It holds before the setup.
LEMMA InitHolds == Init => IInv
<1> SUFFICES ASSUME Init PROVE IInv
    OBVIOUS
<1>1. Types
    BY DEF Init, Types, Phase
<1>2. Leaves
    BY DEF Init, Leaves, OneBallotPerNullifier
<1>3. Counted
    BY FS_EmptySet DEF Init, Counted, TurnoutCountsBallots
<1>4. Closed
    BY DEF Init, Closed, Open, ResultsCountAllBallots
<1> QED BY <1>1, <1>2, <1>3, <1>4 DEF IInv

\* A nullifier that the registry accepts is on no ballot, so the ballot that
\* is recorded with it is new, and so is its leaf.
LEMMA NewBallot ==
    ASSUME IInv, phase = "VOTING",
           NEW s \in Secret, NEW q \in Question, NEW type \in BallotType,
           NEW value \in Nat,
           SubmitNullifier(s), RecordBallot(q, s, type, value),
           UNCHANGED <<phase, merkleRoot, results>>
    PROVE  IInv'
<1> DEFINE b == [question |-> q, nullifier |-> s, type |-> type, value |-> value]
<1>1. b \in EncryptedBallot
    BY DEF EncryptedBallot
<1>2. b.nullifier = s
    OBVIOUS
<1>3. ballots' = ballots \cup {b} /\ ballotHashes' = ballotHashes \cup {s}
      /\ voted' = voted + 1
    BY DEF RecordBallot
<1>4. s \notin nullifiers /\ nullifiers' = nullifiers \cup {s}
    BY DEF SubmitNullifier
<1> HIDE DEF b
<1>5. \A c \in ballots : c.nullifier # s
    BY <1>4 DEF IInv, Leaves
<1>6. b \notin ballots
    BY <1>2, <1>5
<1>7. Types'
    BY <1>1, <1>3, <1>4 DEF IInv, Types
<1>8. Leaves'
  <2>1. ballotHashes' = {c.nullifier : c \in ballots'}
    BY <1>2, <1>3 DEF IInv, Leaves
  <2>2. ballotHashes' \subseteq nullifiers'
    BY <1>3, <1>4 DEF IInv, Leaves
  <2>3. OneBallotPerNullifier'
    BY <1>2, <1>3, <1>5 DEF IInv, Leaves, OneBallotPerNullifier
  <2> QED BY <2>1, <2>2, <2>3 DEF Leaves
<1>9. Counted'
    BY <1>3, <1>6, FS_AddElement DEF IInv, Counted, TurnoutCountsBallots
<1>10. Closed'
    BY DEF IInv, Closed, Open, ResultsCountAllBallots
<1> QED BY <1>7, <1>8, <1>9, <1>10 DEF IInv

\* A step that leaves the ballots and the audit alone, and neither opens what
\* was closed nor closes the vote.
LEMMA QuietStep ==
    ASSUME IInv, phase' \in Phase, phase' \in Open <=> phase \in Open,
           nullifiers' \subseteq Secret, nullifiers \subseteq nullifiers',
           UNCHANGED <<ballots, ballotHashes, merkleRoot, results, voted>>
    PROVE  IInv'
<1>1. Types'
    BY DEF IInv, Types
<1>2. Leaves'
    BY DEF IInv, Leaves, OneBallotPerNullifier
<1>3. Counted'
    BY DEF IInv, Counted, TurnoutCountsBallots
<1>4. Closed'
    BY DEF IInv, Closed, ResultsCountAllBallots, BallotsOf
<1> QED BY <1>1, <1>2, <1>3, <1>4 DEF IInv

\* Every call of the election keeps it.
LEMMA StepHolds == ASSUME Assumed PROVE IInv /\ [Next]_vars => IInv'
<1> SUFFICES ASSUME IInv, [Next]_vars PROVE IInv'
    OBVIOUS
<1> USE DEF registry, audit
<1>a. phase \in Phase /\ nullifiers \subseteq Secret
    BY DEF IInv, Types
<1>1. CASE Setup
    BY <1>1, <1>a, QuietStep DEF Setup, Open, Phase
<1>2. CASE \E v \in Voter : RegisterVoter(v)
    BY <1>2, <1>a, QuietStep DEF RegisterVoter
<1>3. CASE OpenVoting
    BY <1>3, <1>a, QuietStep DEF OpenVoting, Open, Phase
<1>4. CASE \E v \in Voter, s \in Secret, q \in Question, vote \in 0 .. Candidates :
              CastVote(v, s, q, vote) \/ CastVoteInvalid(v, s, vote)
  <2>1. PICK v \in Voter, s \in Secret, q \in Question, vote \in 0 .. Candidates :
              CastVote(v, s, q, vote) \/ CastVoteInvalid(v, s, vote)
    BY <1>4
  <2>2. CASE CastVote(v, s, q, vote)
    <3>1. vote \in Nat /\ "SINGLE_CHOICE" \in BallotType
      BY DEF Assumed, BallotType
    <3> QED BY <2>2, <3>1, NewBallot DEF CastVote
  <2>3. CASE CastVoteInvalid(v, s, vote)
    BY <2>3, <1>a, QuietStep DEF CastVoteInvalid, SubmitNullifier
  <2> QED BY <2>1, <2>2, <2>3
<1>5. CASE \E s \in Secret, q \in Question, n \in 0 .. Candidates :
              CastRankedVote(s, q, n) \/ CastApprovalVote(s, q, n)
  <2>1. PICK s \in Secret, q \in Question, n \in 0 .. Candidates :
              CastRankedVote(s, q, n) \/ CastApprovalVote(s, q, n)
    BY <1>5
  <2>2. n \in Nat /\ n % 2 \in Nat /\ {"RANKED_CHOICE", "APPROVAL"} \subseteq BallotType
    BY DEF Assumed, BallotType
  <2>3. CASE CastRankedVote(s, q, n)
    BY <2>2, <2>3, NewBallot DEF CastRankedVote
  <2>4. CASE CastApprovalVote(s, q, n)
    BY <2>2, <2>4, NewBallot DEF CastApprovalVote
  <2> QED BY <2>1, <2>3, <2>4
<1>6. CASE \E x, y \in Voter, r \in BOOLEAN : RegisterDelegation(x, y, r)
    BY <1>6, <1>a, QuietStep DEF RegisterDelegation
<1>7. CASE \E x, y \in Voter : RevokeDelegation(x, y)
    BY <1>7, <1>a, QuietStep DEF RevokeDelegation
<1>8. CASE CloseVoting
  <2>1. Types'
    BY <1>8 DEF CloseVoting, IInv, Types, Phase
  <2>2. Leaves'
    BY <1>8 DEF CloseVoting, IInv, Leaves, OneBallotPerNullifier
  <2>3. Counted'
    BY <1>8 DEF CloseVoting, IInv, Counted, TurnoutCountsBallots
  <2>4. Closed'
    BY <1>8 DEF CloseVoting, IInv, Closed, Open, ResultsCountAllBallots
  <2> QED BY <2>1, <2>2, <2>3, <2>4 DEF IInv
<1>9. CASE \E q \in Question : TallyQuestion(q)
  <2>1. PICK q \in Question : TallyQuestion(q)
    BY <1>9
  <2>2. PICK noise \in Noise \cup {-n : n \in Noise} :
          results' = [results EXCEPT ![q] =
            [totalVotes |-> Cardinality(BallotsOf(q)),
             decryptedTally |-> CombineShares(AggregateBallots(q), noise)]]
    BY <2>1 DEF TallyQuestion
  <2>3. Types'
    BY <2>1, <2>2 DEF TallyQuestion, IInv, Types
  <2>4. Leaves'
    BY <2>1 DEF TallyQuestion, IInv, Leaves, OneBallotPerNullifier
  <2>5. Counted'
    BY <2>1 DEF TallyQuestion, IInv, Counted, TurnoutCountsBallots
  <2>7. ResultsCountAllBallots'
    <3> SUFFICES ASSUME NEW p \in Question, results'[p] # NoResult
                 PROVE  results'[p].totalVotes = Cardinality(BallotsOf(p))'
      BY DEF ResultsCountAllBallots
    <3>1. BallotsOf(p)' = BallotsOf(p)
      BY <2>1 DEF TallyQuestion, BallotsOf
    <3>2. CASE p = q
      BY <2>2, <3>1, <3>2 DEF IInv, Types
    <3>3. CASE p # q
      BY <2>2, <3>1, <3>3 DEF IInv, Types, Closed, ResultsCountAllBallots
    <3> QED BY <3>2, <3>3
  <2>8. Closed'
    BY <2>1, <2>7 DEF TallyQuestion, IInv, Closed, Open
  <2> QED BY <2>3, <2>4, <2>5, <2>8 DEF IInv
<1>10. CASE PublishResults
    BY <1>10, <1>a, QuietStep DEF PublishResults, Open, Phase
<1>11. CASE BeginAudit
    BY <1>11, <1>a, QuietStep DEF BeginAudit, Open, Phase
<1>12. CASE CloseElection
    BY <1>12, <1>a, QuietStep DEF CloseElection, Open, Phase
<1>13. CASE UNCHANGED vars
    BY <1>13, <1>a, QuietStep DEF vars
<1> QED BY <1>1, <1>2, <1>3, <1>4, <1>5, <1>6, <1>7, <1>8, <1>9, <1>10,
           <1>11, <1>12, <1>13 DEF Next

\* So it holds at every state.
LEMMA Invariance == ASSUME Assumed PROVE Spec => []IInv
BY InitHolds, StepHolds, PTL DEF Spec

-----------------------------------------------------------------------------

\* No nullifier stands on two ballots, whatever the questions and the kinds of
\* ballot: castVote, castRankedVote and castApprovalVote share one registry.
THEOREM NoDoubleVote == ASSUME Assumed PROVE Spec => []OneBallotPerNullifier
<1>1. IInv => OneBallotPerNullifier
    BY DEF IInv, Leaves
<1> QED BY <1>1, Invariance, PTL

\* The turnout is the number of recorded ballots.
THEOREM TurnoutExact == ASSUME Assumed PROVE Spec => []TurnoutCountsBallots
<1>1. IInv => TurnoutCountsBallots
    BY DEF IInv, Counted
<1> QED BY <1>1, Invariance, PTL

-----------------------------------------------------------------------------
(* What the module that checks the election needs to know.                 *)

\* A question is tallied only if somebody has answered it.
Tallied == results[First] # NoResult => BallotsOf(First) # {}

ElectionInv == IInv /\ Tallied

\* It holds before the setup.
LEMMA ElectionInitial == ASSUME Assumed PROVE Init => ElectionInv
<1>1. Init => Tallied
    BY DEF Assumed, Init, Tallied
<1> QED
    BY <1>1, InitHolds DEF ElectionInv

\* Every call keeps it.
LEMMA ElectionStep == ASSUME Assumed PROVE ElectionInv /\ [Next]_vars => ElectionInv'
<1> SUFFICES ASSUME IInv, Tallied, [Next]_vars PROVE IInv' /\ Tallied'
    BY DEF ElectionInv
<1> USE DEF registry, audit, Tallied
<1>1. CASE \E q \in Question : TallyQuestion(q)
    <2>1. PICK q \in Question : TallyQuestion(q)
        BY <1>1
    <2>2. BallotsOf(First)' = BallotsOf(First) /\ BallotsOf(q) # {}
        BY <2>1 DEF TallyQuestion, BallotsOf
    <2>3. First # q => results'[First] = results[First]
        BY <2>1 DEF Assumed, TallyQuestion, IInv, Types
    <2> QED
        BY <2>2, <2>3, StepHolds
<1>2. CASE ~ \E q \in Question : TallyQuestion(q)
    <2>1. results' = results /\ ballots \subseteq ballots'
        BY <1>2 DEF Next, vars, Setup, RegisterVoter, OpenVoting, CastVote,
           CastVoteInvalid, CastRankedVote, CastApprovalVote, RecordBallot,
           RegisterDelegation, RevokeDelegation, CloseVoting, PublishResults,
           BeginAudit, CloseElection
    <2>2. Tallied'
        BY <2>1 DEF BallotsOf
    <2> QED
        BY <2>2, StepHolds
<1> QED
    BY <1>1, <1>2

\* Every ballot verifies as included, a result covers all of them, and single choices
\* verify.
LEMMA ElectionSafe ==
    ASSUME Assumed, ElectionInv
    PROVE  EveryBallotIncluded /\ ResultsCountAllBallots /\ SingleChoiceVerifies
<1>1. EveryBallotIncluded
    BY DEF ElectionInv, IInv, Leaves, Closed, Open, EveryBallotIncluded, VerifyBallotInclusion
<1>2. ResultsCountAllBallots
    BY DEF ElectionInv, IInv, Closed
<1>3. SingleChoiceVerifies
    <2> SUFFICES ASSUME IInv, Tallied, results[First] # NoResult,
                        \A b \in BallotsOf(First) : b.type = "SINGLE_CHOICE"
                 PROVE  VerifyElection
        BY DEF ElectionInv, SingleChoiceVerifies, VerifyElection
    <2>1. phase \notin Open /\ merkleRoot = ballotHashes
        BY DEF Assumed, IInv, Closed
    <2>2. \A b \in BallotsOf(First) : b \in ballots /\ b.nullifier \in ballotHashes
        BY DEF IInv, Leaves, BallotsOf
    <2>3. merkleRoot # {}
        BY <2>1, <2>2 DEF Tallied
    <2> QED
        BY <2>2, <2>3
        DEF Assumed, IInv, Leaves, Closed, OneBallotPerNullifier,
            ResultsCountAllBallots, VerifyElection, VerifyValidityProof
<1> QED
    BY <1>1, <1>2, <1>3

=============================================================================
