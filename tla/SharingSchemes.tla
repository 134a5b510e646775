--------------------------- MODULE SharingSchemes ---------------------------
(***************************************************************************)
(* The sharing schemes of pq-secure-mpc.ts: Shamir, additive (over the     *)
(* field and by exclusive or), replicated, packed Shamir and Feldman.  A   *)
(* dealer shares; the application may add sharings, and hands a list of    *)
(* shares over, in any order, some perhaps twice.                          *)
(***************************************************************************)
EXTENDS Integers, Sequences, FiniteSets, Functions, FiniteSetsExt, SequencesExt

CONSTANTS
    Prime,
    NumParties,
    Threshold,
    BatchSize,
    Secret,     \* secrets that are shared
    Random      \* random field elements that are drawn

VARIABLES
    scheme,
    secrets,    \* one, or BatchSize of them when packed
    shares,     \* of each party: what it holds of each part
    found       \* what reconstruct() returned, and from which list

vars == <<scheme, secrets, shares, found>>

Party == 1 .. NumParties
Mod(a) == a % Prime
Total(f, S) == MapThenFoldSet(LAMBDA a, b : Mod(a + b), 0, LAMBDA i : f[i],
                              LAMBDA T : CHOOSE t \in T : TRUE, S)
Product(f, S) == MapThenFoldSet(LAMBDA a, b : Mod(a * b), 1, LAMBDA i : f[i],
                                LAMBDA T : CHOOSE t \in T : TRUE, S)

\* modInverse(); 0 has none, and the call throws.
ModInverse(a) == CHOOSE b \in 0 .. Prime - 1 : Mod(a * b) = 1

\* The polynomial through points <<x, y>>, at a place.
Basis(points, i, at) ==
    LET others == DOMAIN points \ {i}
    IN  Mod(Product([j \in others |-> Mod(at - points[j][1])], others) *
            ModInverse(Product([j \in others |-> Mod(points[i][1] - points[j][1])], others)))
Interpolated(points, at) ==
    Total([i \in DOMAIN points |-> Mod(points[i][2] * Basis(points, i, at))], DOMAIN points)

Init ==
    /\ scheme = "none"
    /\ secrets = << >>
    /\ shares = << >>
    /\ found = << >>

Dealt(name, of, to) ==
    /\ scheme = "none"
    /\ scheme' = name
    /\ secrets' = of
    /\ shares' = to
    /\ found' = << >>

\* Of Shamir and Feldman: the polynomial with the secret first.
Evaluate(coeffs, x) ==
    LET after[j \in 0 .. Threshold] ==
          IF j = 0 THEN [y |-> 0, xPow |-> 1]
          ELSE LET before == after[j - 1]
               IN  [y |-> Mod(before.y + coeffs[j] * before.xPow), xPow |-> Mod(before.xPow * x)]
    IN  after[Threshold].y

ShareShamir(name, secret, randoms) ==
    LET coeffs == <<Mod(secret)>> \o randoms
    IN  Dealt(name, <<secret>>, [p \in Party |-> <<Evaluate(coeffs, p)>>])

\* share() and xorShare(): all but the last are random.  Bytes that are added by
\* exclusive or are subsets of their bits.
ShareAdditive(secret, randoms) ==
    LET sum == Total(randoms, DOMAIN randoms)
    IN  Dealt("additive", <<secret>>,
              [p \in Party |-> <<IF p = NumParties THEN Mod(secret - sum) ELSE randoms[p]>>])

XorAll(list) == {b \in UNION ToSet(list) : Cardinality({i \in DOMAIN list : b \in list[i]}) % 2 = 1}
XorShare(secret, randoms) ==
    LET last == SymDiff(secret, XorAll(randoms))
    IN  Dealt("xor", <<secret>>,
              [p \in Party |-> <<IF p = NumParties THEN last ELSE randoms[p]>>])

\* Of three parties, each with two of three parts.
ReplicatedShares(secret, r1, r2) ==
    LET r3 == Mod(Mod(secret) - (r1 + r2)) IN <<<<r1, r2>>, <<r2, r3>>, <<r3, r1>>>>
ShareReplicated(secret, r1, r2) ==
    Dealt("replicated", <<secret>>, ReplicatedShares(secret, r1, r2))

\* add() of every party's share to its share of another secret.
AddReplicated(secret, r1, r2) ==
    LET other == ReplicatedShares(secret, r1, r2)
    IN  /\ scheme = "replicated" /\ Len(secrets) = 1
        /\ secrets' = Append(secrets, secret)
        /\ shares' = [p \in 1 .. 3 |->
                        [k \in 1 .. 2 |-> Mod(shares[p][k] + other[p][k])]]
        /\ found' = << >>
        /\ UNCHANGED scheme

\* The secrets at -1, -2, ..., random values behind the parties.
KnownPoints(packed, randoms) ==
    [i \in 1 .. BatchSize |-> <<Mod(-i), Mod(packed[i])>>] \o
    [i \in 1 .. Threshold |-> <<Mod(NumParties + i), randoms[i]>>]
SharePacked(packed, randoms) ==
    LET points == KnownPoints(packed, randoms)
    IN  /\ BatchSize + Threshold - 1 <= NumParties
        /\ Dealt("packed", packed, [p \in Party |-> <<Interpolated(points, p)>>])

\* Faulty variant: counted from the place before.
PlaceBefore(s) == Mod(-s)

\* Where the secret of an index, from 0, is looked for.
EvalPoint(s) == Mod(-(s + 1))

\* The shares of a list that reconstruct() uses: the first ones.
Subset(list) ==
    IF scheme \in {"shamir", "feldman"} THEN SubSeq(list, 1, Threshold)
    ELSE IF scheme = "packed" THEN SubSeq(list, 1, BatchSize + Threshold)
    ELSE list
Enough(list) ==
    CASE scheme \in {"shamir", "feldman"} -> Len(list) >= Threshold
      [] scheme = "packed" -> Len(list) >= BatchSize + Threshold
      [] scheme = "replicated" -> Len(list) = 3 /\ {1, 2} \subseteq ToSet(list)
      [] scheme = "additive" -> Len(list) = NumParties
      [] OTHER -> list # << >>

\* Two shares of a party have no inverse between them.
Interpolates(list) == IsInjective(Subset(list))

Points(list) == [i \in DOMAIN list |-> <<list[i], shares[list[i]][1]>>]

\* reconstruct() of each scheme, or that it throws.
Reconstructed(list) ==
    LET used == Subset(list)
    IN  CASE ~Enough(list) -> <<"throws">>
          [] scheme \in {"shamir", "feldman", "packed"} /\ ~Interpolates(list) -> <<"throws">>
          [] scheme \in {"shamir", "feldman"} -> <<Interpolated(Points(used), 0)>>
          [] scheme = "packed" ->
               [s \in 1 .. BatchSize |-> Interpolated(Points(used), EvalPoint(s - 1))]
          [] scheme = "additive" ->
               <<Total([i \in DOMAIN list |-> shares[list[i]][1]], DOMAIN list)>>
          [] scheme = "xor" -> <<XorAll([i \in DOMAIN list |-> shares[list[i]][1]])>>
          [] scheme = "replicated" -> <<Mod(shares[1][1] + shares[1][2] + shares[2][2])>>

Reconstruct(list) ==
    /\ scheme # "none"
    /\ ToSet(list) \subseteq DOMAIN shares
    /\ found' = <<list, Reconstructed(list)>>
    /\ UNCHANGED <<scheme, secrets, shares>>

Lists == UNION {[1 .. n -> Party] : n \in 1 .. NumParties}
Bits == SUBSET {0, 1}

Next ==
    \/ \E secret \in Secret, randoms \in [1 .. Threshold - 1 -> Random], name \in {"shamir", "feldman"} :
          ShareShamir(name, secret, randoms)
    \/ \E secret \in Secret, randoms \in [1 .. NumParties - 1 -> Random] :
          ShareAdditive(secret, randoms)
    \/ \E secret \in Bits, randoms \in [1 .. NumParties - 1 -> {{0}, {0, 1}}] :
          XorShare(secret, randoms)
    \/ \E secret \in Secret, r1, r2 \in Random : ShareReplicated(secret, r1, r2)
    \/ \E secret \in Secret, r1, r2 \in Random : AddReplicated(secret, r1, r2)
    \/ \E packed \in [1 .. BatchSize -> Secret], randoms \in [1 .. Threshold -> Random] :
          SharePacked(packed, randoms)
    \/ found = << >> /\ \E list \in Lists : Reconstruct(list)

Spec == Init /\ [][Next]_vars

-----------------------------------------------------------------------------

\* FeldmanVSS.verify(): of the hash that is computed only the length is looked at.
Verify(degree) == degree = Threshold - 1

\* What the shares are of.
Shared ==
    IF scheme = "replicated" THEN <<Total(secrets, DOMAIN secrets)>>
    ELSE IF scheme = "xor" THEN secrets ELSE [s \in DOMAIN secrets |-> Mod(secrets[s])]

\* A list that has shares enough of different parties finds the secrets, in whatever
\* order it is and whatever stands behind those that are used; replicated sharings
\* that were added find the sum.  Shares of a party twice are never taken for a
\* quorum where shares are interpolated; where they are added up they may be.
SchemesFindSecrets ==
    found # << >> =>
        LET list == found[1]
            everybody == IsInjective(list) /\ ToSet(list) = DOMAIN shares
        IN  CASE scheme \in {"shamir", "feldman", "packed"} ->
                   found[2] = IF Enough(list) /\ Interpolates(list) THEN Shared ELSE <<"throws">>
              [] OTHER -> everybody => found[2] = Shared

=============================================================================
