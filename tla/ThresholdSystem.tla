--------------------------- MODULE ThresholdSystem ---------------------------
(***************************************************************************)
(* Threshold signing of threshold-signatures.ts: ThresholdSignatureSystem  *)
(* with its ceremonies and signing sessions, over ThresholdDilithium (the  *)
(* standard protocol) and FrostLattice (two rounds), and the refresh of    *)
(* LatticeKeyGeneration.                                                   *)
(*                                                                         *)
(* A key is a number, the version of its shares another.  A response       *)
(* y + c * w * s is the record of what went into it: the nonce, what the   *)
(* challenge was hashed from, whom the weight was computed for, and the    *)
(* share.  Messages are one per session.                                   *)
(***************************************************************************)
EXTENDS Integers, Sequences, FiniteSets

CONSTANTS
    NumParties, Threshold,
    MaxCeremonies,  \* bound: ceremonies
    MaxRuns,        \* bound: executions of them
    MaxSessions,    \* bound: signing sessions
    MaxNonces,      \* bound: nonces of FROST
    MaxPartials     \* bound: partial signatures of a standard session

VARIABLES
    signingKeyPair, \* the key and the version of its shares, or NoKey
    beaconKeyPair,  \* what the beacon was made with
    kemKey,         \* the key of threshold decryption, made together with the other
    keys,           \* how many keys were generated
    ceremonies,     \* type and status of each
    running,        \* executions of key generation that wait for their DKG
    runs,           \* how many executions there were
    sessions,       \* signing sessions; those that are over are null
    nonces,         \* how many nonces were made
    made,           \* every FROST response that was computed
    signatures      \* every FROST signature that was returned

keyVars == <<signingKeyPair, beaconKeyPair, kemKey, keys>>
ceremonyVars == <<ceremonies, running, runs>>
signingVars == <<sessions, nonces, made, signatures>>
vars == <<keyVars, ceremonyVars, signingVars>>

Party == 1 .. NumParties
NoKey == [key |-> 0, version |-> 0]
Over == [type |-> "null"]
Session == DOMAIN sessions
Initialized == signingKeyPair # NoKey

Init ==
    /\ signingKeyPair = NoKey
    /\ beaconKeyPair = NoKey
    /\ kemKey = 0
    /\ keys = 0
    /\ ceremonies = << >>
    /\ running = << >>
    /\ runs = 0
    /\ sessions = << >>
    /\ nonces = 0
    /\ made = {}
    /\ signatures = {}

-----------------------------------------------------------------------------
(* Ceremonies. *)

Create(type) ==
    /\ Len(ceremonies) < MaxCeremonies
    /\ ceremonies' = Append(ceremonies, [type |-> type, status |-> "pending"])
    /\ UNCHANGED <<running, runs>>

StartKeygenCeremony == Create("keygen") /\ UNCHANGED <<keyVars, signingVars>>

StartRefreshCeremony ==
    /\ Initialized
    /\ Create("refresh")
    /\ UNCHANGED <<keyVars, signingVars>>

\* executeKeygenCeremony() up to its await: of any ceremony, whatever its type is and
\* whether or not it was executed before.
ExecuteKeygenCeremony(c) ==
    /\ runs < MaxRuns
    /\ runs' = runs + 1
    /\ running' = Append(running, c)
    /\ ceremonies' = [ceremonies EXCEPT ![c].status = "in-progress"]
    /\ UNCHANGED <<keyVars, signingVars>>

Without(seq, i) == SubSeq(seq, 1, i - 1) \o SubSeq(seq, i + 1, Len(seq))

\* What was made with the old key is made anew.
NewKeyPair == [key |-> keys + 1, version |-> 1]

\* executeKeygenCeremony() from its await on.
KeygenDone(i) ==
    /\ running' = Without(running, i)
    /\ ceremonies' = [ceremonies EXCEPT ![running[i]].status = "complete"]
    /\ keys' = keys + 1
    /\ signingKeyPair' = NewKeyPair
    /\ beaconKeyPair' = NewKeyPair
    /\ kemKey' = keys + 1
    /\ UNCHANGED <<runs, signingVars>>

\* The DKG throws, or takes too long.
KeygenFailed(i) ==
    /\ running' = Without(running, i)
    /\ ceremonies' = [ceremonies EXCEPT ![running[i]].status = "failed"]
    /\ UNCHANGED <<runs, keyVars, signingVars>>

\* refreshKeys(): new shares of the same key.  The beacon keeps the pair it has.
RefreshKeys(pair) == [pair EXCEPT !.version = @ + 1]

ExecuteRefresh(c) ==
    /\ Initialized
    /\ runs < MaxRuns
    /\ runs' = runs + 1
    /\ signingKeyPair' = RefreshKeys(signingKeyPair)
    /\ ceremonies' = [ceremonies EXCEPT ![c].status = "complete"]
    /\ UNCHANGED <<beaconKeyPair, kemKey, keys, running, signingVars>>

-----------------------------------------------------------------------------
(* Signing. *)

\* createSigningSession() and FrostLattice.createSession()
CreateSigningSession(protocol) ==
    /\ Initialized
    /\ Len(sessions) < MaxSessions
    /\ sessions' = Append(sessions,
                     IF protocol = "frost"
                     THEN [type |-> "frost", status |-> "commitment",
                           commitments |-> << >>, shares |-> << >>]
                     ELSE [type |-> "standard", partials |-> << >>])
    /\ UNCHANGED <<keyVars, ceremonyVars, nonces, made, signatures>>

Update(id, session) == sessions' = [sessions EXCEPT ![id] = session]

\* partialSign(): the nonce is derived from the share and the message, and every
\* party computes a challenge of its own from it.
PartialSign(party) == [party |-> party, pair |-> signingKeyPair]

ContributePartial(id, party) ==
    LET s == sessions[id]
    IN  /\ s.type = "standard"
        /\ Len(s.partials) < MaxPartials
        /\ Update(id, [s EXCEPT !.partials = Append(@, PartialSign(party))])
        /\ UNCHANGED <<keyVars, ceremonyVars, nonces, made, signatures>>

\* Map.set()
Put(map, party, value) ==
    [p \in DOMAIN map \cup {party} |-> IF p = party THEN value ELSE map[p]]

\* Faulty variant: who has not committed yet still may.
CommitsLate(s, party) == party \notin DOMAIN s.commitments

\* In which round a contribution is.
Commits(s, party) == s.status = "commitment"

\* generateNonceCommitment(): a second commitment replaces the first.
GenerateNonceCommitment(id, party) ==
    LET s == sessions[id]
    IN  /\ s.type = "frost"
        /\ Commits(s, party)
        /\ nonces < MaxNonces
        /\ nonces' = nonces + 1
        /\ Update(id, [s EXCEPT !.commitments = Put(@, party, nonces + 1)])
        /\ UNCHANGED <<keyVars, ceremonyVars, made, signatures>>

\* The challenge is hashed from every commitment, with a matrix that is derived from
\* the public key, and the message.
Challenge(s) == [commitments |-> s.commitments, key |-> signingKeyPair.key]

\* Faulty variant: the weights are for who has signed so far.
WeightedForSigned(s, party) == DOMAIN s.shares \cup {party}

\* The Lagrange coefficient of a share is for all who committed.
WeightedFor(s, party) == DOMAIN s.commitments

\* generateSigningShare(): with the share that the party has now.
SigningShare(s, party) ==
    [nonce |-> s.commitments[party], challenge |-> Challenge(s),
     weightedFor |-> WeightedFor(s, party), pair |-> signingKeyPair]

GenerateSigningShare(id, party) ==
    LET s == sessions[id]
    IN  /\ s.type = "frost"
        /\ ~Commits(s, party)
        /\ party \in DOMAIN s.commitments
        /\ Update(id, [s EXCEPT !.shares = Put(@, party, SigningShare(s, party))])
        /\ made' = made \cup {SigningShare(s, party)}
        /\ UNCHANGED <<keyVars, ceremonyVars, nonces, signatures>>

\* transitionFrostToSigning() and beginSigningPhase()
TransitionFrostToSigning(id) ==
    LET s == sessions[id]
    IN  /\ s.type = "frost"
        /\ Cardinality(DOMAIN s.commitments) >= Threshold
        /\ Update(id, [s EXCEPT !.status = "signing"])
        /\ UNCHANGED <<keyVars, ceremonyVars, nonces, made, signatures>>

\* aggregate(): adds up the responses there are, and is content with Threshold.
Aggregate(s) ==
    [committed |-> s.commitments, shares |-> s.shares, challenge |-> Challenge(s),
     valid |-> TRUE]

FinalizeFrost(id) ==
    LET s == sessions[id]
    IN  /\ s.type = "frost"
        /\ Cardinality(DOMAIN s.shares) >= Threshold
        /\ signatures' = signatures \cup {Aggregate(s)}
        /\ Update(id, Over)
        /\ UNCHANGED <<keyVars, ceremonyVars, nonces, made>>

\* combinePartialSignatures() takes the first ones, of whomever they are: a party may
\* contribute twice.
FinalizeStandard(id) ==
    LET s == sessions[id]
    IN  /\ s.type = "standard"
        /\ Len(s.partials) >= Threshold
        /\ Update(id, Over)
        /\ UNCHANGED <<keyVars, ceremonyVars, nonces, made, signatures>>

Next ==
    \/ StartKeygenCeremony
    \/ StartRefreshCeremony
    \/ \E c \in DOMAIN ceremonies : ExecuteKeygenCeremony(c) \/ ExecuteRefresh(c)
    \/ \E i \in DOMAIN running : KeygenDone(i) \/ KeygenFailed(i)
    \/ \E protocol \in {"standard", "frost"} : CreateSigningSession(protocol)
    \/ \E id \in Session :
         \/ \E party \in Party : \/ ContributePartial(id, party)
                                 \/ GenerateNonceCommitment(id, party)
                                 \/ GenerateSigningShare(id, party)
         \/ TransitionFrostToSigning(id)
         \/ FinalizeFrost(id)
         \/ FinalizeStandard(id)

Spec == Init /\ [][Next]_vars

-----------------------------------------------------------------------------

\* No nonce answers two challenges with the same key: whoever had both responses
\* could solve for the share.  A party may respond several times, sessions and
\* refreshes may interleave, but what the challenge is made of stays as it was when
\* the first response was computed.
NonceOneChallenge ==
    \A a, b \in made : (a.nonce = b.nonce /\ a.pair.key = b.pair.key) => a.challenge = b.challenge

\* What the responses add up to is a signature: every nonce of the challenge is in
\* them once, they are for one challenge, and the weights belong together.
Whole(sig) ==
    /\ \A p \in DOMAIN sig.shares :
         /\ sig.shares[p].nonce = sig.challenge.commitments[p]
         /\ sig.shares[p].challenge = sig.challenge
         /\ sig.shares[p].weightedFor = DOMAIN sig.shares
    /\ DOMAIN sig.shares = DOMAIN sig.challenge.commitments
    /\ \A p, q \in DOMAIN sig.shares : sig.shares[p].pair = sig.shares[q].pair

\* A FROST signature that aggregate() returned adds up whenever all who committed
\* responded and neither a key generation nor a refresh came between their responses
\* or before the aggregation.  (Otherwise it does not, though `valid' says so.)
FrostAddsUp ==
    \A sig \in signatures :
        (/\ DOMAIN sig.shares = DOMAIN sig.committed
         /\ \A p \in DOMAIN sig.shares : sig.shares[p].pair.key = sig.challenge.key
         /\ \A p, q \in DOMAIN sig.shares : sig.shares[p].pair = sig.shares[q].pair)
        => Whole(sig)

-----------------------------------------------------------------------------

Pair == [key : Nat, version : Nat]
Commitments == UNION {[parties -> Nat] : parties \in SUBSET Party}
Response ==
    [nonce : Nat, challenge : [commitments : Commitments, key : Nat],
     weightedFor : SUBSET Party, pair : Pair]
FrostSession ==
    [type : {"frost"}, status : {"commitment", "signing"}, commitments : Commitments,
     shares : UNION {[parties -> Response] : parties \in SUBSET Party}]
StandardSession == [type : {"standard"}, partials : Seq([party : Party, pair : Pair])]
Signature ==
    [committed : Commitments, shares : UNION {[parties -> Response] : parties \in SUBSET Party},
     challenge : [commitments : Commitments, key : Nat], valid : {TRUE}]

AnySession == FrostSession \cup StandardSession \cup {Over}

SigningTypeOK ==
    /\ keys \in Nat /\ nonces \in Nat /\ signingKeyPair \in Pair
    /\ sessions \in Seq(AnySession)
    /\ made \subseteq Response
    /\ signatures \subseteq Signature

FrostSessions == {id \in Session : sessions[id].type = "frost"}

\* A response as generateSigningShare() computes it of these commitments.
Fits(a, commitments, party) ==
    /\ a.nonce = commitments[party]
    /\ a.challenge = [commitments |-> commitments, key |-> a.pair.key]
    /\ a.weightedFor = DOMAIN commitments

\* The shares of these fit them.
AllFit(shares, commitments) ==
    \A p \in DOMAIN shares : p \in DOMAIN commitments /\ Fits(shares[p], commitments, p)

\* A nonce is in the commitments of one session, and those are as they were for every
\* response with it.
NonceCommitted ==
    /\ \A id \in FrostSessions : \A p \in DOMAIN sessions[id].commitments :
          /\ sessions[id].commitments[p] <= nonces
          /\ \A other \in FrostSessions : \A q \in DOMAIN sessions[other].commitments :
                sessions[other].commitments[q] = sessions[id].commitments[p] => other = id
          /\ \A a \in made : a.nonce = sessions[id].commitments[p] =>
                /\ sessions[id].status = "signing"
                /\ a.challenge.commitments = sessions[id].commitments
    /\ \A a \in made : a.nonce <= nonces /\ a.challenge.key = a.pair.key
    /\ \A a, b \in made : a.nonce = b.nonce => a.challenge.commitments = b.challenge.commitments

\* What makes the two properties inductive: also after a refresh, and after another key
\* generation, a response fits the commitments of its session, and these stay what they
\* are from the first response on.
SigningInv ==
    /\ SigningTypeOK
    /\ NonceCommitted
    /\ \A id \in FrostSessions :
          /\ AllFit(sessions[id].shares, sessions[id].commitments)
          /\ sessions[id].status = "commitment" => DOMAIN sessions[id].shares = {}
    /\ \A sig \in signatures :
          /\ AllFit(sig.shares, sig.committed)
          /\ sig.challenge.commitments = sig.committed

=============================================================================
