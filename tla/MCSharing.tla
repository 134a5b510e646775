----------------------------- MODULE MCSharing -----------------------------
(***************************************************************************)
(* Shared secrets and computing with them: SecretSharing over the field of *)
(* 5 elements, and each of the modules about custody, threshold signing,   *)
(* further kinds of sharing and multi-party computation, and the elections *)
(* whose ballots are counted by threshold decryption.  A behaviour is      *)
(* one of these.  The state of SecretSharing has variables of its own, the *)
(* others keep theirs, in the order in which they declare them, in slots;  *)
(* what a behaviour does not use is 0.                                     *)
(***************************************************************************)
EXTENDS SecretSharing

CONSTANTS
    Threshold,                                     \* of ThresholdSystem, ThresholdWallet, BeaconChain
    NumParties, MaxCeremonies, MaxRuns, MaxSessions, MaxNonces, MaxPartials,  \* of ThresholdSystem
    NumSigners, MaxArrays, MaxRefreshes, MaxNonce, MaxCombined,               \* of ThresholdWallet
    MaxRounds,                                     \* of BeaconChain
    Receiver, Payload, MaxSends,                   \* of EchoBroadcast
    Name, Protocol, MaxTriples,                    \* of MPCSession
    MPCParties,                                    \* of MPCSession and AuthenticatedShares
    Modulus, SharedValue, Chance, Lie, MaxShared,       \* of AuthenticatedShares
    GarbledInputs, GarbledGates,                   \* of GarbledCircuit
    Voter, Nullifier, Question, First, Candidates, MessageSpace, Noise, MaxDelegations, NoResult  \* of Election

ASSUME SigningAssumption == Threshold \in Nat \ {0}
ASSUME SendsAssumption == MaxSends \in Nat
ASSUME ModulusAssumption ==
    /\ Modulus \in Nat /\ Modulus > 1
    /\ \A d \in 2 .. Modulus - 1 : Modulus % d # 0
ASSUME SharesAssumption ==
    /\ MPCParties \in Nat \ {0}
    /\ SharedValue \subseteq Int /\ Chance \subseteq 0 .. Modulus - 1 /\ Lie \subseteq 0 .. Modulus - 1

VARIABLES part, slot1, slot2, slot3, slot4, slot5, slot6, slot7, slot8, slot9, slot10, slot11

\* The slots from the n-th on.
from10 == <<slot10, slot11>>
from8 == <<slot8, slot9, from10>>
from7 == <<slot7, from8>>
from6 == <<slot6, from7>>
from5 == <<slot5, from6>>
from4 == <<slot4, from5>>
from3 == <<slot3, from4>>
slots == <<slot1, slot2, from3>>

Empty10 == slot10 = 0 /\ slot11 = 0
Empty8 == slot8 = 0 /\ slot9 = 0 /\ Empty10
Empty7 == slot7 = 0 /\ Empty8
Empty6 == slot6 = 0 /\ Empty7
Empty5 == slot5 = 0 /\ Empty6
Empty4 == slot4 = 0 /\ Empty5
Empty3 == slot3 = 0 /\ Empty4
Empty1 == slot1 = 0 /\ slot2 = 0 /\ Empty3

\* Two bytes stand for two keys; the random bytes are one that is neither.
KeyOfTests == {0, 1, 2, 5, 7}
KeyOfZeros == {}

Bytewise == INSTANCE Custody
    WITH Key <- {KeyOfTests, KeyOfZeros}, Coefficient <- {{0, 6}}, Parties <- 3,
         Threshold <- {2, 3}, MaxKeys <- 2,
         keys <- slot1, answer <- slot2
System == INSTANCE ThresholdSystem
    WITH signingKeyPair <- slot1, beaconKeyPair <- slot2, kemKey <- slot3, keys <- slot4,
         ceremonies <- slot5, running <- slot6, runs <- slot7, sessions <- slot8,
         nonces <- slot9, made <- slot10, signatures <- slot11
Wallet == INSTANCE ThresholdWallet
    WITH MaxRounds <- MaxCombined,
         initializing <- slot1, started <- slot2, array <- slot3, signer <- slot4,
         wallet <- slot5, beacon <- slot6
Beacon == INSTANCE BeaconChain
    WITH beaconChain <- slot1, currentLeader <- slot2, contributed <- slot3
Access == INSTANCE AccessStructures
    WITH Field <- 0 .. 4, Parties <- 1 .. 3, Secret <- {0, 3},
         Row <- {<<0, 0>>, <<1, 0>>, <<1, 1>>, <<2, 4>>, <<0, 3>>},
         Target <- {<<1, 0>>, <<0, 2>>, <<1, 2>>}, Weights <- [1 .. 3 -> 0 .. 2],
         structure <- slot1, shares <- slot2
Schemes == INSTANCE SharingSchemes
    WITH Prime <- 11, NumParties <- 4, Threshold <- 2, BatchSize <- 2, Secret <- {3, 12},
         Random <- {0, 7},
         scheme <- slot1, secrets <- slot2, shares <- slot3, found <- slot4
Garbled == INSTANCE GarbledCircuit
    WITH MaxInputs <- GarbledInputs, MaxGates <- GarbledGates,
         permuteBits <- slot1, inputs <- slot2, gates <- slot3
Arithmetic == INSTANCE ArithmeticCircuits
    WITH Field <- 0 .. 2, Constant <- {2}, MaxInputs <- 2, MaxWires <- 4, MaxOutputs <- 1,
         gates <- slot1, nextWire <- slot2, currentLayer <- slot3
Bits == INSTANCE BooleanCircuits
    WITH MaxInputs <- 2, MaxWires <- 4,
         gates <- slot1, layers <- slot2, lsb <- slot3
Authenticated == INSTANCE AuthenticatedShares
    WITH Prime <- Modulus, NumParties <- MPCParties, Value <- SharedValue, Random <- Chance,
         MaxWires <- MaxShared,
         macKey <- slot1, wires <- slot2, plain <- slot3, unnoticed <- slot4, output <- slot5
Echoes == INSTANCE EchoBroadcast
    WITH broadcastSeq <- slot1, sendSeq <- slot2, network <- slot3, recvSeq <- slot4,
         received <- slot5, echoes <- slot6, equivocated <- slot7
Session == INSTANCE MPCSession
    WITH NumParties <- MPCParties,
         protocol <- slot1, phase <- slot2, connectedParties <- slot3, inputsReceived <- slot4,
         triples <- slot5, outputsReady <- slot6, aborted <- slot7
Private == INSTANCE PrivateApplications
    WITH Prime <- 11, Value <- {0, 2, 3, 7}, Random <- {0, 6}, Weight <- {1, 3},
         Element <- {1, 2}, BitLength <- 4, MaxInputs <- 3,
         call <- slot1, inputs <- slot2
Voting == INSTANCE Election
    WITH Secret <- Nullifier,
         phase <- slot1, voters <- slot2, nullifiers <- slot3, ballots <- slot4,
         ballotHashes <- slot5, merkleRoot <- slot6, delegations <- slot7, results <- slot8,
         voted <- slot9
ASSUME VotingAssumption == Voting!Assumed

-----------------------------------------------------------------------------

MCInit ==
    /\ Init
    /\ \/ part = "group" /\ Empty1
       \/ part = "custody" /\ Bytewise!Init /\ Empty3
       \/ part = "system" /\ System!Init
       \/ part = "wallet" /\ Wallet!Init /\ Empty7
       \/ part = "beacon" /\ Beacon!Init /\ Empty4
       \/ part = "access" /\ Access!Init /\ Empty3
       \/ part = "schemes" /\ Schemes!Init /\ Empty5
       \/ part = "garbled" /\ Garbled!Init /\ Empty4
       \/ part = "arithmetic" /\ Arithmetic!Init /\ Empty4
       \/ part = "bits" /\ Bits!Init /\ Empty4
       \/ part = "authenticated" /\ Authenticated!Init /\ Empty6
       \/ part = "echoes" /\ Echoes!Init /\ Empty8
       \/ part = "session" /\ Session!Init /\ Empty8
       \/ part = "private" /\ Private!Init /\ Empty3
       \/ part = "voting" /\ Voting!Init /\ Empty10
    /\ part # "group" => dealing = "dealer"

MCNext ==
    /\ part' = part
    /\ \/ part = "group" /\ Next /\ UNCHANGED slots
       \/ part = "custody" /\ Bytewise!Next /\ UNCHANGED <<vars, from3>>
       \/ part = "system" /\ System!Next /\ UNCHANGED <<vars>>
       \/ part = "wallet" /\ Wallet!Next /\ UNCHANGED <<vars, from7>>
       \/ part = "beacon" /\ Beacon!Next /\ UNCHANGED <<vars, from4>>
       \/ part = "access" /\ Access!Next /\ UNCHANGED <<vars, from3>>
       \/ part = "schemes" /\ Schemes!Next /\ UNCHANGED <<vars, from5>>
       \/ part = "garbled" /\ Garbled!Next /\ UNCHANGED <<vars, from4>>
       \/ part = "arithmetic" /\ Arithmetic!Next /\ UNCHANGED <<vars, from4>>
       \/ part = "bits" /\ Bits!Next /\ UNCHANGED <<vars, from4>>
       \/ part = "authenticated" /\ Authenticated!Next /\ UNCHANGED <<vars, from6>>
       \/ part = "echoes" /\ Echoes!Next /\ UNCHANGED <<vars, from8>>
       \/ part = "session" /\ Session!Next /\ UNCHANGED <<vars, from8>>
       \/ part = "private" /\ Private!Next /\ UNCHANGED <<vars, from3>>
       \/ part = "voting" /\ Voting!Next /\ UNCHANGED <<vars, from10>>

MCSpec == MCInit /\ [][MCNext]_<<part, vars, slots>>

-----------------------------------------------------------------------------

\* Who may find the secret does: any T shares of the group, a quorum of the bytes
\* of a key (and less than that nothing), the authorized sets of an access
\* structure, and those who hold shares of any other scheme.
SecretsFound ==
    /\ QuorumsFindSecret
    /\ part = "custody" => Bytewise!QuorumExactlyNeeded
    /\ part = "access" => Access!AuthorizedFindSecret
    /\ part = "schemes" => Schemes!SchemesFindSecrets

\* Of ThresholdSystem, ThresholdWallet and BeaconChain: a nonce answers one
\* challenge, the responses that were taken add up, the wallet and the beacon of
\* a system have its shares or older ones, and the beacon's chain verifies.
SigningSound ==
    /\ part = "system" => System!NonceOneChallenge /\ System!FrostAddsUp
    /\ part = "wallet" => Wallet!OneSetOfShares
    /\ part = "beacon" => Beacon!ChainVerifies

\* Of GarbledCircuit: the decoded outputs are what the circuit computes.
GarblingRight == part = "garbled" => Garbled!GarblingComputesCircuit

\* Of BooleanCircuits, ArithmeticCircuits and PrivateApplications: what the parties
\* compute together, gate by gate on their shares, is what the circuit says and what
\* the application would find in the clear.
ComputationsRight ==
    /\ part = "bits" => Bits!BooleanComputesRight
    /\ part = "arithmetic" => Arithmetic!CircuitsComputeRight
    /\ part = "private" => Private!ApplicationsAgree

\* Of AuthenticatedShares, EchoBroadcast and MPCSession: an output that passed
\* its check is right unless a lie went unnoticed before, receivers whose echoes
\* agree have one payload, and results are those of everybody's inputs.
CheatingFound ==
    /\ part = "authenticated" => Authenticated!CheckedOutputsRight
    /\ part = "echoes" => Echoes!EchoesAgree
    /\ part = "session" => Session!ComputesForAll

\* Of Election: after the close every ballot is included, results count all the ballots
\* of their question, and elections by single choice verify.
EveryBallotIncluded == part = "voting" => Voting!EveryBallotIncluded
ResultsCountAllBallots == part = "voting" => Voting!ResultsCountAllBallots
SingleChoiceVerifies == part = "voting" => Voting!SingleChoiceVerifies

=============================================================================
