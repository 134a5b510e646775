---------------------------- MODULE SecretSharing ----------------------------
(***************************************************************************)
(* How a group comes to share a secret and keeps it: ShamirLattice,        *)
(* SecretShare, PedersenDKG, JointFeldman, DKGCeremony, ProactiveRefresh   *)
(* and ProactiveSecretSharing of src/src/algorithms/threshold-signatures.ts *)
(* over a small prime field.  The shares lie in the array that the         *)
(* application passes from call to call; shares are lost and recovered in  *)
(* between.                                                                *)
(*                                                                         *)
(* A share that was received carries its dealer: with the 256-bit prime of *)
(* the code two dealers never send equal values.  Hashes that no code      *)
(* compares (share commitments, proofs, logs) are left out.                *)
(***************************************************************************)
EXTENDS Integers, Sequences, FiniteSets, FiniteSetsExt, SequencesExt

CONSTANTS
    Prime,        \* DEFAULT_FIELD_PRIME, for the field and the group alike
    Generator,    \* of the group that commitments are made in
    N,            \* numParties
    T,            \* threshold
    MaxRetries,   \* maxRetries of the ceremony
    Random,       \* bound: the values that the random generator returns
    MaxEpochs,    \* bound: refreshes
    MaxRecoveries \* bound: recoveries

ASSUME ParameterAssumption ==
    /\ N \in Nat /\ T \in 2 .. N /\ N < Prime
    /\ Random \subseteq 0 .. (Prime - 1)

Field == 0 .. (Prime - 1)
Party == 1 .. N

VARIABLES
    dealing,   \* how the group gets its shares
    attempt,   \* the attempts of the ceremony
    status,    \* "dealing", "complete" or "failed"
    held,      \* the array of shares
    epoch,     \* refreshes so far
    recovered, \* recoveries so far
    secret,    \* what the shares stand for
    spoilt     \* whether a refresh or a recovery was asked for something that
               \* these algorithms do not do

vars == <<dealing, attempt, status, held, epoch, recovered, secret, spoilt>>

Dealing == {"dealer", "additive", "pedersen", "joint-feldman"}

Init ==
    /\ dealing \in Dealing
    /\ attempt = 0
    /\ status = "dealing"
    /\ held = << >>
    /\ epoch = 0
    /\ recovered = 0
    /\ secret = 0
    /\ spoilt = FALSE

-----------------------------------------------------------------------------
(* The field and its polynomials.                                          *)

Mod(a) == a % Prime

\* Euclid's algorithm gives 0 for 0.
ModInverse(a) ==
    IF a = 0 THEN 0 ELSE CHOOSE b \in Field : Mod(a * b) = 1

ModPow[base \in Field, exp \in Field] ==
    IF exp = 0 THEN 1 ELSE Mod(base * ModPow[base, exp - 1])

FieldSum(S, f(_)) == Mod(MapThenSumSet(f, S))
FieldProduct(S, f(_)) == MapThenFoldSet(LAMBDA a, b : Mod(a * b), 1, f, LAMBDA X : CHOOSE x \in X : TRUE, S)

Polynomial == [0 .. (T - 1) -> Random]

Evaluate(coefficients, x) ==
    FieldSum(DOMAIN coefficients, LAMBDA j : coefficients[j] * x^j)

Share(index, value) == [index |-> index, value |-> value]

GenerateShares(coefficients, n) ==
    [i \in 1 .. n |-> Share(i, Evaluate(coefficients, i))]

\* The weight of the share of party i among the given ones, for the value of the
\* polynomial at x.
LagrangeAt(x, i, indices) ==
    LET others == indices \ {i}
    IN  Mod(FieldProduct(others, LAMBDA j : Mod(x - j)) *
            ModInverse(FieldProduct(others, LAMBDA j : Mod(i - j))))

LagrangeCoefficient(i, indices) == LagrangeAt(0, i, indices)

\* The first T shares are used, the rest is ignored.
ReconstructSecret(shares) ==
    LET indices == {shares[i].index : i \in 1 .. T}
    IN  FieldSum(1 .. T, LAMBDA i :
            shares[i].value * LagrangeCoefficient(shares[i].index, indices))

-----------------------------------------------------------------------------
(* Dealing.                                                                *)

Dealt(shares, value) ==
    /\ status' = "complete"
    /\ held' = shares
    /\ secret' = value

Deal(coefficients) ==
    /\ dealing = "dealer"
    /\ status = "dealing"
    /\ Dealt(GenerateShares(coefficients, N), coefficients[0])
    /\ UNCHANGED <<dealing, attempt, epoch, recovered, spoilt>>

\* The last additive share makes up the sum.
AdditiveShare(value, r) ==
    [i \in Party |-> IF i < N THEN r[i]
                     ELSE Mod(value - MapThenSumSet(LAMBDA j : r[j], 1 .. (N - 1)))]

\* Every additive share is shared again, c[i] being the rest of its polynomial;
\* party i keeps the sum of what it is sent.
AdditiveToShamir(additive, c) ==
    [i \in Party |-> Share(i, FieldSum(Party, LAMBDA j :
        additive[j] + MapThenSumSet(LAMBDA k : c[j][k] * i^k, 1 .. (T - 1))))]

Convert(value, r, c) ==
    /\ dealing = "additive"
    /\ status = "dealing"
    /\ Dealt(AdditiveToShamir(AdditiveShare(value, r), c), value)
    /\ UNCHANGED <<dealing, attempt, epoch, recovered, spoilt>>

-----------------------------------------------------------------------------
(* Distributed key generation: every party deals, and commits to its       *)
(* polynomial.                                                             *)

Commitment(coefficients) ==
    [j \in DOMAIN coefficients |-> ModPow[Mod(Generator), coefficients[j]]]

\* The powers of the index are reduced like field elements.
VerifyShare(share, commitment) ==
    ModPow[Mod(Generator), share.value] =
        FieldProduct(DOMAIN commitment, LAMBDA j :
            ModPow[commitment[j], Mod(share.index^j)])

\* Who complains of whom.  Nobody checks the own share.
Complaints(f) ==
    {c \in Party \X Party :
        /\ c[1] # c[2]
        /\ ~VerifyShare(Share(c[1], Evaluate(f[c[2]], c[1])), Commitment(f[c[2]]))}

Disqualified(complaints) == {c[2] : c \in complaints}

\* Faulty variant: a party leaves out only the dealers that it accused itself.
FinalSharesOwnView(f, complaints) ==
    [j \in Party |-> Share(j, FieldSum({i \in Party : <<j, i>> \notin complaints},
                                       LAMBDA i : Evaluate(f[i], j)))]

FinalShares(f, complaints) ==
    [j \in Party |-> Share(j, FieldSum(Party \ Disqualified(complaints),
                                       LAMBDA i : Evaluate(f[i], j)))]

GroupSecret(f, complaints) ==
    FieldSum(Party \ Disqualified(complaints), LAMBDA i : f[i][0])

\* One attempt of DKGCeremony.execute().  The result of the last one is taken
\* whoever was accused in it.
DKGAttempt(f) ==
    LET complaints == IF dealing = "pedersen" THEN Complaints(f) ELSE {}
    IN  /\ dealing \in {"pedersen", "joint-feldman"}
        /\ status = "dealing"
        /\ attempt' = attempt + 1
        /\ IF complaints # {} /\ attempt + 1 < MaxRetries
             THEN UNCHANGED <<status, held, secret>>
             ELSE Dealt(FinalShares(f, complaints), GroupSecret(f, complaints))
        /\ UNCHANGED <<dealing, epoch, recovered, spoilt>>

\* Once timeoutMs has passed every attempt that is left fails.
DKGTimeout ==
    /\ dealing \in {"pedersen", "joint-feldman"}
    /\ status = "dealing"
    /\ attempt' = MaxRetries
    /\ status' = "failed"
    /\ UNCHANGED <<dealing, held, epoch, recovered, secret, spoilt>>

-----------------------------------------------------------------------------
(* Refresh and recovery.                                                   *)

\* What the n parties' polynomials without constant term sum up to.
RefreshPolynomial(n) ==
    LET Sums == {Mod(MapThenSumSet(LAMBDA i : r[i], 1 .. n)) : r \in [1 .. n -> Random]}
    IN  {[j \in 0 .. (T - 1) |-> IF j = 0 THEN 0 ELSE c[j]] : c \in [1 .. (T - 1) -> Sums]}

\* Faulty variant: the polynomials are random altogether.
AddDeltasUnrestricted(shares, delta) ==
    [j \in DOMAIN shares |-> Share(shares[j].index,
        Mod(shares[j].value + Evaluate([delta EXCEPT ![0] = delta[1]], j)))]

\* The delta for x = j goes to the share in place j, whatever its index.
AddDeltas(shares, delta) ==
    [j \in DOMAIN shares |->
        Share(shares[j].index, Mod(shares[j].value + Evaluate(delta, j)))]

Aligned(shares) == \A j \in DOMAIN shares : shares[j].index = j

Refresh(delta) ==
    /\ status = "complete"
    /\ epoch < MaxEpochs
    /\ Len(held) >= T
    /\ held' = AddDeltas(held, delta)
    /\ epoch' = epoch + 1
    /\ spoilt' = (spoilt \/ ~Aligned(held))
    /\ UNCHANGED <<dealing, attempt, status, recovered, secret>>

VerifyRefresh(oldShares, newShares) ==
    ReconstructSecret(oldShares) = ReconstructSecret(newShares)

\* A party loses its share; the application's array closes up.
LoseShare(i) ==
    /\ status = "complete"
    /\ Len(held) > T
    /\ held' = RemoveAt(held, i)
    /\ UNCHANGED <<dealing, attempt, status, epoch, recovered, secret, spoilt>>

\* Faulty variant: the secret is interpolated instead of the lost share.
RecoveryPacketAtZero(helper, target, helpers) ==
    Mod(LagrangeAt(0, helper.index, helpers) * helper.value)

RecoveryPacket(helper, target, helpers) ==
    Mod(LagrangeAt(target, helper.index, helpers) * helper.value)

\* Every helper sends a packet that is made for the set of all helpers; the
\* first T packets are summed.  The application puts the share at place i.
RecoverShare(target, helpers, i) ==
    LET indices == {held[k].index : k \in helpers}
        packets == [k \in 1 .. Cardinality(helpers) |->
                      RecoveryPacket(held[SetToSortSeq(helpers, <)[k]], target, indices)]
    IN  /\ status = "complete"
        /\ recovered < MaxRecoveries
        /\ target \notin {held[k].index : k \in DOMAIN held}
        /\ Len(packets) >= T
        /\ held' = InsertAt(held, i,
                     Share(target, FieldSum(1 .. T, LAMBDA k : packets[k])))
        /\ recovered' = recovered + 1
        /\ spoilt' = (spoilt \/ Cardinality(helpers) > T)
        /\ UNCHANGED <<dealing, attempt, status, epoch, secret>>

-----------------------------------------------------------------------------

Next ==
    \/ \E c \in Polynomial : Deal(c)
    \/ \E s \in Random, r \in [1 .. (N - 1) -> Random],
          c \in [Party -> [1 .. (T - 1) -> Random]] : Convert(s, r, c)
    \/ \E f \in [Party -> Polynomial] : DKGAttempt(f)
    \/ DKGTimeout
    \/ \E delta \in RefreshPolynomial(Len(held)) : Refresh(delta)
    \/ \E i \in DOMAIN held : LoseShare(i)
    \/ \E target \in Party, helpers \in SUBSET DOMAIN held, i \in 1 .. (Len(held) + 1) :
         RecoverShare(target, helpers, i)

Spec == Init /\ [][Next]_vars

-----------------------------------------------------------------------------
(* Properties.                                                             *)

Quorums == {q \in SUBSET (DOMAIN held) : Cardinality(q) = T}

\* Whichever T parties come together find the secret: after every way of
\* dealing (with disqualified dealers too), any number of refreshes, losses and
\* recoveries, unless a refresh was given an array with a gap or out of order,
\* or a recovery more than T helpers.
QuorumsFindSecret ==
    status = "complete" /\ ~spoilt =>
        \A q \in Quorums :
            ReconstructSecret([i \in 1 .. T |-> held[SetToSortSeq(q, <)[i]]]) = secret

\* verifyRefresh() accepts every refresh of an array that has no gap and is in
\* order, even if the shares had been spoilt before.
RefreshesVerify ==
    [][epoch' # epoch /\ Aligned(held) => VerifyRefresh(held, held')]_vars

=============================================================================
