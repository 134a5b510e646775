---------------------------- MODULE SamplingPool ----------------------------
(***************************************************************************)
(* src/src/utils/entropy/sampling.ts: the pool that every sampler of the   *)
(* package takes its bytes from, and the samplers that must not be biased: *)
(* randomUniformInt(), randomBigIntBelow() and fisherYatesShuffle().  A    *)
(* byte has ByteBits bits, so that several of them are needed early.  Each *)
(* turn of a rejection loop is a step; "pending" holds the draws that the  *)
(* call in progress has yet to make, and no other call starts before it    *)
(* returns.  What it returns is Result of the value that was good, and     *)
(* Shuffled of the draws of a shuffle.                                     *)
(***************************************************************************)
EXTENDS Integers, Sequences, FiniteSets, Functions

CONSTANTS
    PoolSize,   \* POOL_SIZE
    ByteBits,   \* the bits of a byte
    MaxLimit,   \* bound: maxExclusive
    MaxDeck,    \* bound: the array that is shuffled
    MaxTakes    \* bound: the calls of take()

VARIABLES
    poolOffset,
    taken,      \* every result of take(), in order: fill of the pool, place, length
    pending     \* what the call in progress draws next: kind and maxExclusive

vars == <<poolOffset, taken, pending>>

Init ==
    /\ poolOffset = 0
    /\ taken = << >>
    /\ pending = << >>

-----------------------------------------------------------------------------
(* The pool.                                                               *)

\* Faulty variant: only an empty pool is filled again.
MustRefillEmpty(need) == poolOffset >= PoolSize
MustRefill(need) == poolOffset + need > PoolSize

\* The fill that the pool holds: how often it was filled before.
Fill ==
    LET pooled == {i \in DOMAIN taken : taken[i].fill >= 0}
    IN  IF pooled = {} THEN 0
        ELSE taken[CHOOSE i \in pooled : \A j \in pooled : j <= i].fill

Direct(n) == [fill |-> -1, from |-> 0, length |-> n]

\* A large read leaves the pool alone.
Take(n) ==
    /\ Len(taken) < MaxTakes
    /\ \/ /\ n >= PoolSize
          /\ taken' = Append(taken, Direct(n))
          /\ UNCHANGED poolOffset
       \/ /\ n < PoolSize
          /\ LET fill == IF MustRefill(n) THEN Fill + 1 ELSE Fill
                 from == IF MustRefill(n) THEN 0 ELSE poolOffset
             IN  /\ taken' = Append(taken, [fill |-> fill, from |-> from, length |-> n])
                 /\ poolOffset' = from + n

\* randomBits(), centeredBinomial() and randomUnitFloat() take once.
TakeOnce(n) ==
    /\ pending = << >>
    /\ Take(n)
    /\ UNCHANGED pending

-----------------------------------------------------------------------------
(* Rejection sampling.                                                     *)

Smallest(S) == CHOOSE k \in S : \A j \in S : k <= j

\* 2 to the power n.
TwoTo[n \in Nat] == IF n = 0 THEN 1 ELSE 2 * TwoTo[n - 1]

\* Faulty variant: the logarithm is rounded down.
BytesNeededRoundedDown(m) ==
    Smallest({k \in 1 .. 6 : TwoTo[ByteBits * (k + 1)] > m})

\* Math.ceil(Math.log2(maxExclusive) / 8), for limits up to 2^48.
BytesNeeded(m) == Smallest({k \in 1 .. 6 : TwoTo[ByteBits * k] >= m})

BitLength(m) == Smallest({b \in 1 .. m : TwoTo[b] > m})

\* How many bytes one turn of the loop takes.
Width(d) ==
    IF d.kind = "int" THEN BytesNeeded(d.max)
    ELSE (BitLength(d.max) + ByteBits - 1) \div ByteBits

Domain(d) == 0 .. TwoTo[ByteBits * Width(d)] - 1

MaxUnbiased(m) == (TwoTo[ByteBits * BytesNeeded(m)] \div m) * m

\* A big integer is masked to the bits of its limit, then compared.
Masked(d, v) == v % TwoTo[BitLength(d.max)]

Accepted(d, v) ==
    IF d.kind = "int" THEN v < MaxUnbiased(d.max) ELSE Masked(d, v) < d.max

Result(d, v) == IF d.kind = "int" THEN v % d.max ELSE Masked(d, v)

RandomUniformInt(m) ==
    /\ pending = << >>
    /\ pending' = <<[kind |-> "int", max |-> m]>>
    /\ UNCHANGED <<poolOffset, taken>>

RandomBigIntBelow(m) ==
    /\ pending = << >>
    /\ pending' = <<[kind |-> "bigint", max |-> m]>>
    /\ UNCHANGED <<poolOffset, taken>>

\* The limits of the draws of a shuffle: n, n - 1, ..., 2.
Limits(n) == [k \in 1 .. n - 1 |-> n + 1 - k]

\* The array 1, ..., n after each of its exchanges, from the last place down, for
\* the draws c.
Exchanged(a, i, j) == [a EXCEPT ![i] = a[j], ![j] = a[i]]
Arrays(n, c) ==
    LET array[k \in 0 .. n - 1] ==
            IF k = 0 THEN [i \in 1 .. n |-> i]
            ELSE Exchanged(array[k - 1], n + 1 - k, c[k] + 1)
    IN  array
Shuffled(n, c) == Arrays(n, c)[n - 1]

FisherYatesShuffle(n) ==
    /\ pending = << >>
    /\ pending' = [k \in DOMAIN Limits(n) |-> [kind |-> "int", max |-> Limits(n)[k]]]
    /\ UNCHANGED <<poolOffset, taken>>

\* One turn of the loop.
Draw ==
    /\ pending # << >>
    /\ Take(Width(Head(pending)))
    /\ \E v \in Domain(Head(pending)) :
         pending' = IF Accepted(Head(pending), v) THEN Tail(pending) ELSE pending

Next ==
    \/ \E n \in 1 .. PoolSize : TakeOnce(n)
    \/ \E m \in 2 .. MaxLimit : RandomUniformInt(m) \/ RandomBigIntBelow(m)
    \/ \E n \in 2 .. MaxDeck : FisherYatesShuffle(n)
    \/ Draw

Spec == Init /\ [][Next]_vars

-----------------------------------------------------------------------------
(* Properties.                                                             *)

\* Of one fill of the pool no byte is handed out twice, none is left over from
\* beyond the end, and the samplers get as many as they ask for.
FreshBytes ==
    \A i, j \in DOMAIN taken :
        LET a == taken[i]
            b == taken[j]
        IN  a.fill >= 0 =>
              /\ a.from + a.length <= PoolSize
              /\ (i < j /\ a.fill = b.fill) => a.from + a.length <= b.from

\* What makes it inductive: what was taken of the fill that the pool holds is before
\* the offset.
PoolInv ==
    /\ poolOffset \in 0 .. PoolSize
    /\ taken \in Seq([fill : Int, from : Nat, length : Nat])
    /\ pending \in Seq([kind : {"int", "bigint"}, max : 2 .. MaxLimit \cup 2 .. MaxDeck])
    /\ Fill \in Nat
    /\ \A i \in DOMAIN taken :
         taken[i].fill >= 0 =>
           /\ taken[i].fill <= Fill
           /\ taken[i].from + taken[i].length <=
                (IF taken[i].fill = Fill THEN poolOffset ELSE PoolSize)
    /\ FreshBytes

Draws(n) == {c \in [1 .. n - 1 -> 0 .. n - 1] : \A k \in 1 .. n - 1 : c[k] < Limits(n)[k]}

Good(d) == {v \in Domain(d) : Accepted(d, v)}
Giving(d, r) == {v \in Good(d) : Result(d, v) = r}

\* Every result of a draw comes of equally many values of its bytes, and at least
\* every other value is good, so the loop ends.
DrawUnbiased(d) ==
    /\ \A r \in 0 .. d.max - 1 : Cardinality(Giving(d, r)) * d.max = Cardinality(Good(d))
    /\ 2 * Cardinality(Good(d)) >= Cardinality(Domain(d))

\* "Unbiased": no draw of the call in progress prefers a result, and when it
\* shuffles, each permutation comes of exactly one way to draw.
Unbiased ==
    /\ \A k \in DOMAIN pending : DrawUnbiased(pending[k])
    /\ \A n \in 2 .. MaxDeck :
         (pending # << >> /\ Len(pending) = n - 1)
         => \A p \in {f \in [1 .. n -> 1 .. n] : IsInjective(f)} :
               Cardinality({c \in Draws(n) : Shuffled(n, c) = p}) = 1

=============================================================================
