----------------------------- MODULE BeaconChain -----------------------------
(***************************************************************************)
(* EnhancedDistributedRandomBeacon of threshold-signatures.ts: rounds that *)
(* are chained by hashes and led by a party that the hash before chooses.  *)
(* Contributions are made for the round of the moment, and combined when   *)
(* somebody has enough of them, in whichever round that is.  A hash is     *)
(* what was hashed; the leader that a hash leads to is arbitrary.          *)
(***************************************************************************)
EXTENDS Integers, Sequences, FiniteSets

CONSTANTS
    NumParties, Threshold,
    MaxRounds       \* bound: rounds

VARIABLES
    beaconChain,
    currentLeader,
    contributed     \* contributions that parties hold

vars == <<beaconChain, currentLeader, contributed>>

Party == 1 .. NumParties
GenesisHash == <<"genesis">>
CurrentRound == Len(beaconChain)

\* Faulty variant: every round is chained to the genesis.
LastHashGenesis == GenesisHash

\* The hash that the next round is chained to.
LastHash == IF beaconChain = << >> THEN GenesisHash ELSE beaconChain[CurrentRound].randomness

\* getRoundMessage()
RoundMessage == [round |-> CurrentRound, previous |-> LastHash, leader |-> currentLeader]

Init ==
    /\ beaconChain = << >>
    /\ currentLeader \in Party
    /\ contributed = {}

\* contributePartial(): anybody may, the leader or not.
ContributePartial(party) ==
    /\ contributed' = contributed \cup {[party |-> party, message |-> RoundMessage]}
    /\ UNCHANGED <<beaconChain, currentLeader>>

\* A combined signature is the parts it was made of: other parts, other randomness.
Randomness(partials) == <<{p.party : p \in partials}, LastHash>>

\* finalizeRound(): of any contributions; the round counts whether or not its
\* signature is valid.
FinalizeRound(partials) ==
    /\ CurrentRound < MaxRounds
    /\ Cardinality(partials) = Threshold
    /\ beaconChain' = Append(beaconChain,
                        [round |-> CurrentRound, randomness |-> Randomness(partials),
                         signature |-> partials, leader |-> currentLeader,
                         previousHash |-> LastHash])
    /\ currentLeader' \in Party
    /\ UNCHANGED contributed

Next ==
    \/ \E party \in Party : ContributePartial(party)
    \/ \E partials \in SUBSET contributed : FinalizeRound(partials)

Spec == Init /\ [][Next]_vars

-----------------------------------------------------------------------------

\* verifyBeacon(): the hash before is looked up by the number of the round.
PreviousOf(result) ==
    IF result.round > 0 /\ CurrentRound > result.round - 1
    THEN beaconChain[result.round].randomness ELSE GenesisHash

MessageOf(result) ==
    [round |-> result.round, previous |-> PreviousOf(result), leader |-> result.leader]

\* verifyChain()
VerifyChain ==
    \A i \in DOMAIN beaconChain :
        /\ beaconChain[i].previousHash =
             IF i = 1 THEN GenesisHash ELSE beaconChain[i - 1].randomness
        /\ beaconChain[i].randomness[2] = beaconChain[i].previousHash

\* The chain verifies whatever was combined, and the message that verifyBeacon()
\* makes up for a round is the one that its signature is of, as long as nobody
\* combined contributions of another round; no two rounds have one randomness.
ChainVerifies ==
    /\ VerifyChain
    /\ \A i \in DOMAIN beaconChain :
         LET r == beaconChain[i]
         IN  /\ r.round = i - 1
             /\ (\A p \in r.signature : p.message.round = r.round)
                  => \A p \in r.signature : p.message = MessageOf(r)
    /\ \A i, j \in DOMAIN beaconChain :
         beaconChain[i].randomness = beaconChain[j].randomness => i = j

-----------------------------------------------------------------------------

\* A message of a round is of the hash before that round and its leader.
MessageRight(message) ==
    /\ message = [round |-> message.round, previous |-> message.previous, leader |-> message.leader]
    /\ message.round \in 0 .. CurrentRound
    /\ message.previous = IF message.round = 0 THEN GenesisHash
                          ELSE beaconChain[message.round].randomness
    /\ message.leader = IF message.round = CurrentRound THEN currentLeader
                        ELSE beaconChain[message.round + 1].leader

\* What makes the property inductive; also after its round a contribution tells of it.
ChainInv ==
    /\ beaconChain \in Seq({beaconChain[i] : i \in DOMAIN beaconChain})
    /\ VerifyChain
    /\ \A c \in contributed : MessageRight(c.message)
    /\ \A i \in DOMAIN beaconChain :
          /\ beaconChain[i].round = i - 1
          /\ beaconChain[i].signature \subseteq contributed
          /\ beaconChain[i].randomness # GenesisHash
    /\ \A i, j \in DOMAIN beaconChain :
          beaconChain[i].randomness = beaconChain[j].randomness => i = j

=============================================================================
