------------------------------ MODULE Custody ------------------------------
(***************************************************************************)
(* src/src/utils/threshold-custody.ts: the custody of a private key as     *)
(* Shamir shares over GF(2^8), with the arithmetic as the code does it.    *)
(* Every byte of a key is shared by itself, so a key is one byte.  A byte  *)
(* is the set of its bits' places.  A share also says which of the split   *)
(* keys it is of, which no code can see; a commitment is the key itself,   *)
(* its hash taken to be injective.  Calls that throw for what the caller   *)
(* passes leave no answer and are stuttering steps.                        *)
(***************************************************************************)
EXTENDS Integers, Sequences, FiniteSets, SequencesExt, FiniteSetsExt

CONSTANTS
    Key,          \* bound: the keys that are split
    Coefficient,  \* bound: the bytes that the random generator returns
    Parties,      \* n
    Threshold,    \* bound: the thresholds, of splitKey() and of the other calls
    MaxKeys       \* bound: the calls of splitKey()

VARIABLES
    keys,    \* every split key: its threshold and its shares
    answer   \* what reconstructKey() or thresholdSign() was asked and returned

vars == <<keys, answer>>

Bit == 0 .. 7
Byte == SUBSET Bit
NoAnswer == [call |-> "none"]

-----------------------------------------------------------------------------
(* The field.                                                              *)

Gadd(a, b) == (a \ b) \cup (b \ a)

\* Shifted left, and reduced by 0x1b.
Doubled(a) == Gadd({i + 1 : i \in a \ {7}}, IF 7 \in a THEN {0, 1, 3, 4} ELSE {})

\* The turns of the loop, one per bit of b.
Gmul(a, b) ==
    LET x1 == Doubled(a)
        x2 == Doubled(x1)
        x3 == Doubled(x2)
        x4 == Doubled(x3)
        x5 == Doubled(x4)
        x6 == Doubled(x5)
        x == <<a, x1, x2, x3, x4, x5, x6, Doubled(x6)>>
    IN  {k \in Bit : Cardinality({i \in b : k \in x[i + 1]}) % 2 = 1}

Square(a) == Gmul(a, a)

\* Faulty variant: a^126.
GinvShort(a) ==
    LET a2 == Square(a)
        a4 == Square(a2)
        a8 == Square(a4)
        a16 == Square(a8)
        a32 == Square(a16)
    IN  FoldLeft(Gmul, a2, <<a4, a8, a16, a32, Square(a32)>>)

\* a^254.
Ginv(a) ==
    LET a2 == Square(a)
        a4 == Square(a2)
        a8 == Square(a4)
        a16 == Square(a8)
        a32 == Square(a16)
        a64 == Square(a32)
    IN  FoldLeft(Gmul, a2, <<a4, a8, a16, a32, a64, Square(a64)>>)

Point(n) == {k \in Bit : (n \div 2^k) % 2 = 1}

-----------------------------------------------------------------------------
(* Splitting and reconstructing a byte.                                    *)

\* Horner's rule, from the highest coefficient down.
Evaluate(coeffs, x) ==
    FoldRight(LAMBDA c, y : Gadd(Gmul(y, x), c), coeffs, {})

SplitByte(key, coeffs) ==
    [n \in 1 .. Parties |-> Evaluate(<<key>> \o coeffs, Point(n))]

ReconstructByte(xs, ys) ==
    LET num(i) == FoldLeft(Gmul, {0}, [j \in DOMAIN xs |-> IF j = i THEN {0} ELSE xs[j]])
        den(i) == FoldLeft(Gmul, {0},
                    [j \in DOMAIN xs |-> IF j = i THEN {0} ELSE Gadd(xs[i], xs[j])])
        term == [i \in DOMAIN xs |-> Gmul(ys[i], Gmul(num(i), Ginv(den(i))))]
    IN  FoldLeft(Gadd, {}, term)

-----------------------------------------------------------------------------
(* The handlers.                                                           *)

Init ==
    /\ keys = << >>
    /\ answer = NoAnswer

SplitKey(key, threshold, coeffs) ==
    /\ Len(keys) < MaxKeys
    /\ answer = NoAnswer
    /\ 2 <= threshold /\ threshold <= Parties
    /\ keys' = Append(keys, [key |-> key, threshold |-> threshold,
                             shares |-> SplitByte(key, coeffs)])
    /\ UNCHANGED answer

Held == {[of |-> k, index |-> n] : k \in DOMAIN keys, n \in 1 .. Parties}

Used(shares, threshold) == SubSeq(shares, 1, threshold)

\* Two shares with one index are not noticed.
Reconstruct(shares, threshold) ==
    LET subset == Used(shares, threshold)
    IN  ReconstructByte([i \in DOMAIN subset |-> Point(subset[i].index)],
                        [i \in DOMAIN subset |-> keys[subset[i].of].shares[subset[i].index]])

\* A commitment, if there is one (0: none), is that of the key "of".
Matches(key, of) == of # 0 => key = keys[of].key

ReconstructKey(shares, threshold, of) ==
    /\ answer = NoAnswer
    /\ Len(shares) >= threshold
    /\ LET key == Reconstruct(shares, threshold)
       IN  /\ Matches(key, of)
           /\ answer' = [call |-> "reconstructKey", used |-> SubSeq(shares, 1, threshold),
                         commitment |-> of, key |-> key]
    /\ UNCHANGED keys

\* The signature is made with whatever was reconstructed.
ThresholdSign(shares, threshold) ==
    /\ answer = NoAnswer
    /\ Len(shares) >= threshold
    /\ answer' = [call |-> "thresholdSign", used |-> SubSeq(shares, 1, threshold),
                  commitment |-> 0, key |-> Reconstruct(shares, threshold)]
    /\ UNCHANGED keys

Next ==
    \/ \E key \in Key, t \in Threshold :
         \E coeffs \in [1 .. t - 1 -> Coefficient] : SplitKey(key, t, coeffs)
    \/ \E t \in Threshold : \E length \in t .. Parties :
         \E shares \in [1 .. length -> Held] :
           \/ \E of \in {0} \cup DOMAIN keys : ReconstructKey(shares, t, of)
           \/ ThresholdSign(shares, t)

Spec == Init /\ [][Next]_vars

-----------------------------------------------------------------------------
(* Properties.                                                             *)

\* The shares that an answer used are of one key, with different indices, and
\* as many as that key needs.
TrueQuorum(used) ==
    /\ \A i, j \in DOMAIN used : /\ used[i].of = used[j].of
                                 /\ used[i].index = used[j].index => i = j
    /\ Len(used) >= keys[used[1].of].threshold

\* "any t shares reconstruct the key exactly (Lagrange over GF(2^8))", in any
\* order, and a signature by a quorum is one with the key; "any t-1 shares reveal
\* ZERO information", for a threshold of two: to each share and each key there is
\* exactly one coefficient that explains it.
QuorumExactlyNeeded ==
    /\ (answer.call # "none" /\ TrueQuorum(answer.used))
       => answer.key = keys[answer.used[1].of].key
    /\ answer = NoAnswer =>
         \A k \in DOMAIN keys, n \in 1 .. Parties, key \in Key :
             keys[k].threshold = 2 =>
                 Cardinality({c \in Byte : Evaluate(<<key, c>>, Point(n)) =
                                           keys[k].shares[n]}) = 1

=============================================================================
