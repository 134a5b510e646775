----------------------------- MODULE DelayBeacon -----------------------------
(***************************************************************************)
(* RandomnessBeacon and the FairLeaderElections that share one, of         *)
(* src/src/algorithms/verifiable-delay-functions.ts.  Hashes and the delay *)
(* function are injective: a commitment is the sequence of the candidates, *)
(* the output of a round is what went into its challenge.  A call that     *)
(* throws changes nothing and is a stuttering step.                        *)
(***************************************************************************)
EXTENDS Naturals, Sequences, FiniteSets, SequencesExt

CONSTANTS
    Election,      \* the elections that share the beacon
    Candidate,
    Entropy,       \* what the application adds
    MaxRounds,     \* bound: rounds
    MaxAdded,      \* bound: what is added to the beacon
    MaxCandidates  \* bound: candidates of an election at a time

VARIABLES
    rounds,          \* of each: its challenge, and the output it builds on
    entropySources,  \* what waits for the next round
    candidates,      \* of each election, in order of registration
    committed,       \* the elections whose registration is closed
    drawn,           \* what the output of a round and a number of candidates select
    results,         \* what elect() returned, and the candidates it chose from
    added            \* all that was ever added to the beacon

vars == <<rounds, entropySources, candidates, committed, drawn, results, added>>

Zeros == << >>

Init ==
    /\ rounds = << >>
    /\ entropySources = << >>
    /\ candidates = [e \in Election |-> << >>]
    /\ committed = {}
    /\ drawn = {}
    /\ results = {}
    /\ added = << >>

-----------------------------------------------------------------------------
(* The beacon.                                                             *)

AddTo(source) ==
    /\ Len(added) < MaxAdded
    /\ entropySources' = Append(entropySources, source)
    /\ added' = Append(added, source)

AddEntropy(source) ==
    /\ AddTo(source)
    /\ UNCHANGED <<rounds, candidates, committed, drawn, results>>

\* The output, by the challenge it is computed from.
Output(round) == Append(round.previousOutput, round.mix)

\* Faulty variant: what waits is cleared before it is mixed.
ChallengeCleared ==
    [previousOutput |-> IF rounds = << >> THEN Zeros ELSE Output(Last(rounds)),
     mix |-> << >>]

Challenge ==
    [previousOutput |-> IF rounds = << >> THEN Zeros ELSE Output(Last(rounds)),
     mix |-> entropySources]

Advance ==
    /\ Len(rounds) < MaxRounds
    /\ rounds' = Append(rounds, Challenge)
    /\ entropySources' = << >>

NextRound ==
    /\ Advance
    /\ UNCHANGED <<candidates, committed, drawn, results, added>>

\* The proof of a round says nothing of its place in the chain.
VerifyChain ==
    \A i \in 2 .. Len(rounds) : rounds[i].previousOutput = Output(rounds[i - 1])

-----------------------------------------------------------------------------
(* Leader elections.                                                       *)

\* The same candidate may register again.
RegisterCandidate(e, c) ==
    /\ e \notin committed
    /\ Len(candidates[e]) < MaxCandidates
    /\ candidates' = [candidates EXCEPT ![e] = Append(@, c)]
    /\ UNCHANGED <<rounds, entropySources, committed, drawn, results, added>>

Commitment(e) == [of |-> candidates[e]]

CloseRegistration(e) ==
    /\ candidates[e] # << >>
    /\ committed' = committed \cup {e}
    /\ AddTo(Commitment(e))
    /\ UNCHANGED <<rounds, candidates, drawn, results>>

\* selectionHash % candidates.length: any index, but the same whenever the same
\* output is asked for the same number.
Select(round, n, index) ==
    IF \E d \in drawn : d.round = round /\ d.n = n
    THEN [round |-> round, n |-> n, index |-> index] \in drawn /\ drawn' = drawn
    ELSE drawn' = drawn \cup {[round |-> round, n |-> n, index |-> index]}

\* A round of its own for every call; an election may be run again.
Elect(e) ==
    /\ e \in committed
    /\ Advance
    /\ \E index \in DOMAIN candidates[e] :
         /\ Select(Challenge, Len(candidates[e]), index)
         /\ results' = results \cup {[election |-> e, round |-> Challenge, index |-> index,
                                      winnerId |-> candidates[e][index],
                                      among |-> candidates[e]]}
    /\ UNCHANGED <<candidates, committed, added>>

Reset(e) ==
    /\ candidates' = [candidates EXCEPT ![e] = << >>]
    /\ committed' = committed \ {e}
    /\ UNCHANGED <<rounds, entropySources, drawn, results, added>>

\* verifyElection() counts the candidates of now; the round it is given need
\* not be one of the beacon's.
VerifyElection(e, result) ==
    LET n == Len(candidates[e])
    IN  \E d \in drawn : d.round = result.round /\ d.n = n /\ d.index = result.index

-----------------------------------------------------------------------------

Next ==
    \/ NextRound
    \/ \E source \in Entropy : AddEntropy(source)
    \/ \E e \in Election :
         \/ \E c \in Candidate : RegisterCandidate(e, c)
         \/ CloseRegistration(e)
         \/ Elect(e)
         \/ Reset(e)

Spec == Init /\ [][Next]_vars

-----------------------------------------------------------------------------
(* Properties.                                                             *)

\* "Candidates commit before the VDF challenge is known": whatever elections
\* share the beacon, are reset and are run again, a winner was chosen by a round
\* whose challenge, or that of a round it builds on, has the commitment to the
\* very candidates it was chosen from; while they stay registered the result
\* verifies.  Everything that was added went into exactly one round, in order.
WinnersBoundToCandidates ==
    /\ FlattenSeq([i \in DOMAIN rounds |-> rounds[i].mix]) \o entropySources = added
    /\ VerifyChain
    /\ \A r \in results :
         LET mixed == FlattenSeq(Output(r.round))
         IN  /\ \E i \in DOMAIN mixed : mixed[i] = [of |-> r.among]
             /\ candidates[r.election] = r.among => VerifyElection(r.election, r)

-----------------------------------------------------------------------------

Source == Entropy \cup [of : Seq(Candidate)]

\* The next challenge builds on all that was ever mixed, in rounds as it was mixed.
Mixed == IF rounds = << >> THEN Zeros ELSE Output(Last(rounds))

\* What makes it inductive: the commitment of an election whose registration is closed
\* was added, and whatever was added is mixed before the next output.
BeaconInv ==
    /\ rounds \in Seq([previousOutput : Seq(Seq(Source)), mix : Seq(Source)])
    /\ entropySources \in Seq(Source)
    /\ candidates \in [Election -> Seq(Candidate)]
    /\ Mixed = [i \in DOMAIN rounds |-> rounds[i].mix]
    /\ FlattenSeq(Mixed) \o entropySources = added
    /\ VerifyChain
    /\ \A e \in committed : \E i \in DOMAIN added : added[i] = Commitment(e)
    /\ \A r \in results :
         LET mixed == FlattenSeq(Output(r.round))
         IN  /\ \E i \in DOMAIN mixed : mixed[i] = [of |-> r.among]
             /\ \E d \in drawn : d.round = r.round /\ d.n = Len(r.among) /\ d.index = r.index

=============================================================================
