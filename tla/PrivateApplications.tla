------------------------- MODULE PrivateApplications -------------------------
(***************************************************************************)
(* The applications at the end of pq-secure-mpc.ts: comparison, auctions,  *)
(* aggregation, set intersection and bit decomposition, each with values   *)
(* modulo a prime where the mathematics has numbers.  A behaviour gathers  *)
(* the inputs of one of them, one by one.                                  *)
(***************************************************************************)
EXTENDS Integers, Sequences, FiniteSets, FiniteSetsExt, SequencesExt

CONSTANTS
    Prime,
    Value,      \* bids and values that are given
    Random,     \* random parts of shares
    Weight,
    Element,    \* elements of the two sets
    BitLength,  \* bits of a number the comparison circuit is for
    MaxInputs   \* bound: inputs of a call

VARIABLES
    call,
    inputs      \* bids, weighted values or elements with their owner

vars == <<call, inputs>>

Mod(a) == a % Prime
SumOf(f) == FoldLeft(LAMBDA a, b : Mod(a + b), 0, f)
ModInverse(a) == CHOOSE b \in 0 .. Prime - 1 : Mod(a * b) = 1

Init == call = "none" /\ inputs = << >>

Give(kind, input) ==
    /\ call \in {"none", kind}
    /\ Len(inputs) < MaxInputs
    /\ call' = kind
    /\ inputs' = Append(inputs, input)

Next ==
    \/ \E value \in Value, random \in Random : Give("auction", [value |-> value, random |-> random])
    \/ \E value \in Value, weight \in Weight : Give("sum", [value |-> value, weight |-> weight])
    \/ \E element \in Element, owner \in {"A", "B"} :
          Give("sets", [element |-> element, owner |-> owner])

Spec == Init /\ [][Next]_vars

-----------------------------------------------------------------------------
(* Comparison and auctions. *)

\* Faulty variant: the other half is one element larger.
HalfAbove == Prime \div 2 + 1

\* The larger of two values less than this apart is known by their difference.
Half == Prime \div 2

\* PrivateComparison.compare()
Compare(a, b) == LET d == Mod(a - b) IN d > 0 /\ d <= Half

\* resolveFirstPrice(): the first of the highest bids.
FirstPrice(bids) ==
    FoldLeft(LAMBDA winner, i : IF winner = 0 \/ bids[i].value > bids[winner].value THEN i ELSE winner,
             0, [i \in DOMAIN bids |-> i])

\* resolveSecondPrice(): a stable sort, the highest first.
SecondPrice(bids) ==
    LET before(i, j) == \/ bids[i].value > bids[j].value
                        \/ bids[i].value = bids[j].value /\ i < j
        sorted == SetToSortSeq(DOMAIN bids, before)
    IN  [winner |-> sorted[1], price |-> bids[sorted[2]].value]

\* mpcAuction(): the difference of the shares is opened, bid against winner so far.
BidShares(bid) == <<bid.random, Mod(bid.value - bid.random)>>
MpcAuction(bids) ==
    LET diff(i, j) == SumOf([p \in 1 .. 2 |-> Mod(BidShares(bids[i])[p] - BidShares(bids[j])[p])])
    IN  FoldLeft(LAMBDA winner, i : IF diff(winner, i) > Half THEN i ELSE winner,
                 1, [i \in DOMAIN bids |-> i])

-----------------------------------------------------------------------------
(* Aggregation. *)

ComputeSum(values) == SumOf([i \in DOMAIN values |-> Mod(values[i].value)])
ComputeMean(values) == Mod(ComputeSum(values) * ModInverse(Mod(Len(values))))
SumSquares(values) == SumOf([i \in DOMAIN values |-> Mod(values[i].value * values[i].value)])
ComputeVariance(values) ==
    LET mean == ComputeMean(values)
    IN  Mod(SumSquares(values) * ModInverse(Mod(Len(values))) - mean * mean)
ComputeWeightedSum(values) == SumOf([i \in DOMAIN values |-> Mod(values[i].value * values[i].weight)])

-----------------------------------------------------------------------------
(* Sets, given as lists. *)

Given(owner) == SelectSeq(inputs, LAMBDA input : input.owner = owner)

\* computePSI(): every element of A once, in the order of their first time.
ComputePSI(a, b) ==
    LET firsts == {i \in DOMAIN a : \A j \in 1 .. i - 1 : a[j].element # a[i].element}
        common == {i \in firsts : \E j \in DOMAIN b : b[j].element = a[i].element}
        order == SetToSortSeq(common, LAMBDA i, j : i < j)
    IN  [n \in DOMAIN order |-> a[order[n]].element]

\* psiCardinality(): counts along the list of B.
PsiCardinality(a, b) ==
    Len(SelectSeq(b, LAMBDA input : input.element \in {a[i].element : i \in DOMAIN a}))

-----------------------------------------------------------------------------
(* Bits, the lowest first. *)

Decompose(value, length) == [i \in 1 .. length |-> (Mod(value) \div 2 ^ (i - 1)) % 2]
ReconstructBits(bits) == Mod(FoldRight(LAMBDA bit, rest : 2 * rest + bit, bits, 0))

\* buildComparisonCircuit(): the differences of the bits, added up.
ComparisonCircuit(a, b) ==
    LET bits == [n \in {1, 2} |-> Decompose(IF n = 1 THEN a ELSE b, BitLength)]
    IN  FoldLeft(LAMBDA sum, i : Mod(sum + bits[1][i] - bits[2][i]), 0,
                 [i \in 1 .. BitLength |-> BitLength + 1 - i])

-----------------------------------------------------------------------------

Values == [i \in DOMAIN inputs |-> inputs[i].value]
Near == \A i, j \in DOMAIN inputs : Values[i] - Values[j] <= Half

\* The auctions agree on the winner, ties included, and the price is the highest of
\* the other bids, while bids are less than half the field apart; there compare() is
\* the order too.
AuctionsAgree ==
    (call = "auction" /\ Near) =>
        LET winner == FirstPrice(inputs)
            others == {Values[i] : i \in DOMAIN inputs \ {winner}}
        IN  /\ MpcAuction(inputs) = winner
            /\ Len(inputs) >= 2 => SecondPrice(inputs) = [winner |-> winner, price |-> Max(others)]
            /\ \A i, j \in DOMAIN inputs : Compare(Values[i], Values[j]) <=> Values[i] > Values[j]

\* Sums, means and variances that are whole numbers below the prime are the true ones.
AggregatesTrue ==
    call = "sum" =>
        LET total == FoldLeft(LAMBDA a, b : a + b, 0, Values)
            squares == FoldLeft(LAMBDA a, b : a + b * b, 0, Values)
            n == Len(inputs)
        IN  /\ total < Prime => ComputeSum(inputs) = total
            /\ \A mean \in 0 .. Prime - 1 : n * mean = total => ComputeMean(inputs) = mean
            /\ \A v \in 0 .. Prime - 1 :
                 n * n * v = n * squares - total * total => ComputeVariance(inputs) = v
            /\ (\A i \in DOMAIN inputs : inputs[i].weight = 1) =>
                 ComputeWeightedSum(inputs) = ComputeSum(inputs)

\* The intersection is that of the sets; the count is its size if B repeats nothing.
IntersectionTrue ==
    call = "sets" =>
        LET a == Given("A")
            b == Given("B")
            of(list) == {list[i].element : i \in DOMAIN list}
            found == ComputePSI(a, b)
        IN  /\ ToSet(found) = of(a) \cap of(b)
            /\ Len(found) = Cardinality(ToSet(found))
            /\ Len(b) = Cardinality(of(b)) => PsiCardinality(a, b) = Len(found)

\* Bits give the number back, and numbers that differ in one bit compare by the
\* circuit: 1 if the first is larger, else -1.
BitsTrue ==
    call = "auction" =>
        \A i, j \in DOMAIN inputs :
            LET bits(k) == Decompose(Values[k], BitLength)
                differ == {n \in 1 .. BitLength : bits(i)[n] # bits(j)[n]}
            IN  /\ Mod(Values[i]) < 2 ^ BitLength => ReconstructBits(bits(i)) = Mod(Values[i])
                /\ Cardinality(differ) = 1 =>
                     ComparisonCircuit(Values[i], Values[j]) =
                       IF Mod(Values[i]) > Mod(Values[j]) THEN 1 ELSE Mod(-1)

ApplicationsAgree == AuctionsAgree /\ AggregatesTrue /\ IntersectionTrue /\ BitsTrue

=============================================================================
