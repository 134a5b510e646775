--------------------------- MODULE DelayFunctions ---------------------------
(***************************************************************************)
(* The delay functions of                                                  *)
(* src/src/algorithms/verifiable-delay-functions.ts with their proofs, the *)
(* chains made of them and the timelock encryption: repeated squaring      *)
(* modulo a product of two primes (Wesolowski's and Pietrzak's proofs),    *)
(* the lattice walk and the isogeny walk (checkpoints).                    *)
(*                                                                         *)
(* SHA-256 is a small mixing function; a challenge is a number, the hash   *)
(* of the string that it is in the code.  A lattice vector has one         *)
(* component.  Times are left out.                                         *)
(***************************************************************************)
EXTENDS Integers, Sequences, SequencesExt

CONSTANTS
    P, Q,        \* the primes of the modulus
    Primes,      \* what hashToPrime() finds
    LatticeQ,    \* q of the lattice walk
    CurveP,      \* p of the isogeny walk, 3 modulo 4
    Challenge,   \* challenges that a caller passes
    Squarings,   \* steps asked of the RSA functions
    Walk,        \* steps asked of the lattice and isogeny functions
    Schedule     \* what buildChain() is asked for

VARIABLES
    evaluated,   \* what was evaluated and returned last
    chain        \* the links of ChainedVDF

vars == <<evaluated, chain>>

N == P * Q
Nothing == [of |-> "nothing"]

Init ==
    /\ evaluated = Nothing
    /\ chain = << >>

-----------------------------------------------------------------------------
(* Arithmetic and hashes.                                                  *)

ModPow(base, exp, modulus) ==
    LET power[e \in 0 .. exp] ==
          IF e = 0 THEN 1
          ELSE LET half == power[e \div 2]
               IN  (half * half * (IF e % 2 = 1 THEN base % modulus ELSE 1)) % modulus
    IN  power[exp] % modulus

HashToBigInt(inputs) ==
    LET h[i \in 0 .. Len(inputs)] ==
          IF i = 0 THEN 3 ELSE (h[i - 1] * 31 + inputs[i] * 17 + 7) % 10007
    IN  h[Len(inputs)]

HashToPrime(x, y) == Primes[(HashToBigInt(<<x, y>>) % Len(Primes)) + 1]

EncodeInput(challenge) == (challenge % (N - 2)) + 2

-----------------------------------------------------------------------------
(* Repeated squaring.                                                      *)

\* Every intermediate value, x after no steps.
Squared(x, T) ==
    LET y[i \in 0 .. T] == IF i = 0 THEN x ELSE (y[i - 1] * y[i - 1]) % N
    IN  y

\* floor(2^T / l), by long division along with the squarings.
Quotient(l, T) ==
    LET quotient[i \in 0 .. T] ==
          IF i = 0 THEN <<0, 1>>
          ELSE <<quotient[i - 1][1] * 2 + (quotient[i - 1][2] * 2) \div l,
                 (quotient[i - 1][2] * 2) % l>>
    IN  quotient[T][1]

Wesolowski(x, T) ==
    LET y == Squared(x, T)[T]
        l == HashToPrime(x, y)
    IN  [value |-> y, proof |-> [pi |-> ModPow(x, Quotient(l, T), N), l |-> l, T |-> T]]

VerifyWesolowski(x, output) ==
    LET l == output.proof.l
    IN  /\ l = HashToPrime(x, output.value)
        /\ output.value = (ModPow(output.proof.pi, l, N) *
                           ModPow(x, ModPow(2, output.proof.T, l), N)) % N

\* The values in the middle, from the whole down to single steps.
PietrzakProve(intermediates, T) ==
    LET prove[length \in 0 .. T] ==
          LET half == length \div 2
          IN  [start \in Nat |->
                 IF length <= 1 THEN << >>
                 ELSE <<intermediates[start + half]>>
                        \o prove[half][start] \o prove[length - half][start + half]]
    IN  prove[T][0]

Pietrzak(x, T) ==
    LET intermediates == Squared(x, T)
    IN  [value |-> intermediates[T],
         proof |-> [elements |-> PietrzakProve(intermediates, T), T |-> T]]

\* The right half is checked and the answer dropped, which is why the number of
\* elements of the left half matters to nothing.
VerifyPietrzak(input, output) ==
    LET elements == output.proof.elements
        verify[T \in 0 .. output.proof.T] ==
          [claim \in (0 .. N - 1) \X (0 .. N - 1) \X (1 .. Len(elements) + 1) |->
             LET x == claim[1]
                 y == claim[2]
                 idx == claim[3]
                 mu == elements[idx]
                 r == (HashToBigInt(<<x, y, mu>>) % (N - 2)) + 2
             IN  IF T = 0 THEN x = y
                 ELSE IF T = 1 THEN (x * x) % N = y
                 ELSE /\ idx <= Len(elements)
                      /\ \/ verify[T \div 2][<<x, mu, idx + 1>>]
                         \/ verify[T \div 2][<<(ModPow(x, r, N) * mu) % N,
                                               (ModPow(mu, r, N) * y) % N, idx + 1>>]]
    IN  verify[output.proof.T][<<input, output.value, 1>>]

\* Who knows the factors reduces the exponent by the order of the group.
WithTrapdoor(x, T) == ModPow(x, ModPow(2, T, (P - 1) * (Q - 1)), N)

-----------------------------------------------------------------------------
(* The walks, whose proofs are checkpoints.                                *)

LatticeInput(challenge) == HashToBigInt(<<challenge, 0>>) % LatticeQ

\* A * s + c * s, folded by squaring the centred value.
LatticeStep(s, i) ==
    LET c == HashToBigInt(<<s, i>>) % LatticeQ
        v == (2 * s + c * s) % LatticeQ
        centred == IF 2 * v > LatticeQ THEN v - LatticeQ ELSE v
    IN  (centred * centred) % LatticeQ

CurveInput(challenge) == (6 + HashToBigInt(<<challenge>>)) % CurveP

IsogenyStep(a, i) ==
    LET kernelX == HashToBigInt(<<a, CurveP, i, 2>>) % CurveP
        numerator == (3 * kernelX * kernelX + 2 * a * kernelX + 1) % CurveP
        denominator == (kernelX * kernelX + 1) % CurveP
    IN  (numerator * ModPow(IF denominator = 0 THEN 1 ELSE denominator, CurveP - 2, CurveP))
            % CurveP

\* The states after rounds from .. to - 1, the given one first.
Trace(vdf, state, from, to) ==
    FoldLeft(LAMBDA ss, i : Append(ss, IF vdf = "lattice" THEN LatticeStep(Last(ss), i)
                                                         ELSE IsogenyStep(Last(ss), i)),
             <<state>>, [k \in 1 .. (to - from) |-> from + k - 1])

EvaluateSegment(vdf, state, from, to) == Last(Trace(vdf, state, from, to))

CheckpointInterval(vdf, T) ==
    LET interval == T \div (IF vdf = "lattice" THEN 32 ELSE 16)
    IN  IF interval = 0 THEN 1 ELSE interval

\* The state is kept after the round whose number is a multiple of the interval.
EvaluateWalk(vdf, state, T) ==
    LET trace == Trace(vdf, state, 0, T)
        interval == CheckpointInterval(vdf, T)
    IN  [value |-> Last(trace),
         proof |-> [checkpoints |-> [k \in 1 .. ((T + interval - 1) \div interval) |->
                                       trace[(k - 1) * interval + 2]],
                    interval |-> interval, T |-> T]]

\* The segment from checkpoint k begins with the round after which it was kept.
\* Which pairs are compared is drawn at random: here, all those in "sample".
SegmentsVerify(vdf, output, sample) ==
    LET checkpoints == output.proof.checkpoints
        interval == output.proof.interval
        from(k) == (k - 1) * interval
        least(a, b) == IF a < b THEN a ELSE b
    IN  /\ \A k \in sample :
             EvaluateSegment(vdf, checkpoints[k], from(k),
                             least(from(k) + interval, output.proof.T))
                 = checkpoints[k + 1]
        /\ EvaluateSegment(vdf, Last(checkpoints), from(Len(checkpoints)), output.proof.T)
               = output.value

\* Without checkpoints the lattice proof makes verify() throw.
VerifyLattice(challenge, output, sample) ==
    /\ output.proof.checkpoints # << >>
    /\ EvaluateSegment("lattice", LatticeInput(challenge), 0, output.proof.interval)
           = output.proof.checkpoints[1]
    /\ SegmentsVerify("lattice", output, sample)

\* The challenge is not looked at.
VerifyIsogeny(output, sample) ==
    output.proof.checkpoints # << >> => SegmentsVerify("isogeny", output, sample)

-----------------------------------------------------------------------------
(* Evaluations and their verification.                                     *)

Evaluate(type, challenge, T) ==
    CASE type = "wesolowski" -> Wesolowski(EncodeInput(challenge), T)
      [] type = "pietrzak" -> Pietrzak(EncodeInput(challenge), T)
      [] type = "lattice" -> EvaluateWalk("lattice", LatticeInput(challenge), T)
      [] type = "isogeny" -> EvaluateWalk("isogeny", CurveInput(challenge), T)

VerifyBundle(type, challenge, output, sample) ==
    CASE type = "wesolowski" -> VerifyWesolowski(EncodeInput(challenge), output)
      [] type = "pietrzak" -> VerifyPietrzak(EncodeInput(challenge), output)
      [] type = "lattice" -> VerifyLattice(challenge, output, sample)
      [] type = "isogeny" -> VerifyIsogeny(output, sample)

EvaluateOne(type, challenge, T) ==
    /\ evaluated' = [of |-> type, challenge |-> challenge, output |-> Evaluate(type, challenge, T)]
    /\ UNCHANGED chain

-----------------------------------------------------------------------------
(* Timelock encryption: the key is the hash of the value.                  *)

\* The encryptor has the factors, or only the modulus.
Encrypt(challenge, T, trapdoor) ==
    LET x == EncodeInput(challenge)
    IN  /\ evaluated' = [of |-> "timelock", challenge |-> challenge, lockDurationSteps |-> T,
                         key |-> IF trapdoor THEN WithTrapdoor(x, T) ELSE Squared(x, T)[T]]
        /\ UNCHANGED chain

Decrypts(ciphertext) ==
    LET T == ciphertext.lockDurationSteps
    IN  Squared(EncodeInput(ciphertext.challenge), T)[T] = ciphertext.key

-----------------------------------------------------------------------------
(* Chains.                                                                 *)

Link(entry, challenge) ==
    [vdfType |-> entry.type, input |-> challenge,
     output |-> Evaluate(entry.type, challenge, entry.steps)]

\* Faulty variant: every link starts from the first challenge.
NextChallengeSame(links, initial) == initial

NextChallenge(links, initial) ==
    IF links = << >> THEN initial ELSE HashToBigInt(<<Last(links).output.value>>)

\* A type that is not configured makes buildChain() throw; the links before it
\* stay.
BuildChain(initial, schedule, configured) ==
    LET missing == {i \in DOMAIN schedule : schedule[i].type \notin configured}
        made == IF missing = {} THEN schedule
                ELSE SubSeq(schedule, 1, (CHOOSE i \in missing : \A j \in missing : i <= j) - 1)
        links[i \in 0 .. Len(made)] ==
          IF i = 0 THEN << >>
          ELSE Append(links[i - 1], Link(made[i], NextChallenge(links[i - 1], initial)))
    IN  /\ chain' = links[Len(made)]
        /\ UNCHANGED evaluated

\* The verifier looks the functions up under identifiers that only chains use.
VerifyChain(links, samples, registered) ==
    \A i \in DOMAIN links :
        /\ links[i].vdfType \in registered
        /\ VerifyBundle(links[i].vdfType, links[i].input, links[i].output, samples[i])
        /\ i > 1 => links[i].input = HashToBigInt(<<links[i - 1].output.value>>)

-----------------------------------------------------------------------------

\* Bound: one call, whose answer stays.
Next ==
  /\ evaluated = Nothing
  /\ chain = << >>
  /\ \/ \E challenge \in Challenge, T \in Squarings :
          \/ \E type \in {"wesolowski", "pietrzak"} : EvaluateOne(type, challenge, T)
          \/ \E trapdoor \in BOOLEAN : Encrypt(challenge, T, trapdoor)
     \/ \E challenge \in Challenge, T \in Walk, type \in {"lattice", "isogeny"} :
          EvaluateOne(type, challenge, T)
     \/ \E challenge \in Challenge, schedule \in Schedule,
           configured \in {{"wesolowski"}, {"wesolowski", "isogeny"}} :
          BuildChain(challenge, schedule, configured)

Spec == Init /\ [][Next]_vars

-----------------------------------------------------------------------------
(* Properties.                                                             *)

\* The inductive invariant: what was evaluated was evaluated honestly, and every
\* link but the first starts from the hash of the one before.
DelayInv ==
    /\ evaluated.of \in {"wesolowski", "pietrzak"} =>
         LET T == evaluated.output.proof.T
         IN  /\ evaluated.challenge \in Challenge /\ T \in Squarings
             /\ evaluated.output = Evaluate(evaluated.of, evaluated.challenge, T)
    /\ evaluated.of = "timelock" =>
         LET x == EncodeInput(evaluated.challenge)
             T == evaluated.lockDurationSteps
         IN  /\ evaluated.challenge \in Challenge /\ T \in Squarings
             /\ evaluated.key \in {WithTrapdoor(x, T), Squared(x, T)[T]}
    /\ DOMAIN chain = 1 .. Len(chain) /\ Len(chain) \in Nat
    /\ \A i \in DOMAIN chain :
         /\ i = 1 => chain[i].input \in Challenge
         /\ i > 1 => chain[i].input = HashToBigInt(<<chain[i - 1].output.value>>)
         /\ chain[i].vdfType = "wesolowski" =>
              LET T == chain[i].output.proof.T
              IN  T \in Nat /\ chain[i].output = Wesolowski(EncodeInput(chain[i].input), T)

\* What was computed honestly is accepted: both proofs of repeated squaring, at
\* every number of steps, for every element that a challenge may lead to, also
\* those that have a factor in common with the modulus; and chains of them.
\* A timelock encrypted with the factors opens without them.
HonestSquaringsVerify ==
    /\ evaluated.of \in {"wesolowski", "pietrzak"} =>
         VerifyBundle(evaluated.of, evaluated.challenge, evaluated.output, {})
    /\ evaluated.of = "timelock" => Decrypts(evaluated)
    /\ (\A i \in DOMAIN chain : chain[i].vdfType = "wesolowski") =>
         VerifyChain(chain, [i \in DOMAIN chain |-> {}], {"wesolowski"})

\* "Re-execute from each checkpoint to the next, verifying consistency": what a
\* walk computed is accepted, whichever checkpoints are compared.
HonestWalksVerify ==
    evaluated.of \in {"lattice", "isogeny"} =>
        (evaluated.output.proof.T > 0 =>
           VerifyBundle(evaluated.of, evaluated.challenge, evaluated.output,
                        1 .. (Len(evaluated.output.proof.checkpoints) - 1)))

=============================================================================
