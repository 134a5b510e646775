------------------------------ MODULE HmacDrbg ------------------------------
(***************************************************************************)
(* HmacDrbg of src/src/utils/entropy/ingest.ts.  HMAC is taken to be       *)
(* injective, so a key is the sequence of the updates that led to it, each *)
(* with the number of blocks drawn before it and the seed it was given (0  *)
(* for none), and a value V is the key it was last computed with and how   *)
(* often since that key was set.                                           *)
(***************************************************************************)
EXTENDS Naturals, Sequences

CONSTANTS
    Seed,      \* the seeds, numbers above 0
    MaxBlocks, \* bound: the 32-byte blocks of a call of generate()
    MaxCalls   \* bound: the calls of generate() and reseed()

VARIABLES
    K, V,      \* the fields of that name
    out,       \* the blocks that were handed out, in order
    calls

vars == <<K, V, out, calls>>

\* update(): a new key, and V computed with it.
KeyAfter(n, seed) == Append(K, <<n, seed>>)

\* Faulty variant: reseeding starts afresh.
ReseedKeyAfresh(seed) == << <<0, seed>> >>
ReseedKey(seed) == KeyAfter(V.n, seed)

Init ==
    \E seed \in Seed :
        /\ K = << <<0, seed>> >>
        /\ V = [key |-> K, n |-> 0]
        /\ out = << >>
        /\ calls = 0

Reseed(seed) ==
    /\ calls < MaxCalls
    /\ calls' = calls + 1
    /\ K' = ReseedKey(seed)
    /\ V' = [key |-> K', n |-> 0]
    /\ UNCHANGED out

\* V is one step behind the first block; update(null) follows the last.
Generate(blocks) ==
    /\ calls < MaxCalls
    /\ calls' = calls + 1
    /\ out' = out \o [i \in 1 .. blocks |-> [key |-> K, n |-> V.n + i]]
    /\ K' = KeyAfter(V.n + blocks, 0)
    /\ V' = [key |-> K', n |-> 0]

Next ==
    \/ \E seed \in Seed : Reseed(seed)
    \/ \E blocks \in 1 .. MaxBlocks : Generate(blocks)

Spec == Init /\ [][Next]_vars

-----------------------------------------------------------------------------
(* Properties.                                                             *)

\* A block can be computed once: it is not handed out twice, also when a seed is
\* used again, and cannot be computed from the state that is left, which gives V
\* itself and the blocks after it under K.
BlocksUsedOnce ==
    /\ \A i, j \in DOMAIN out : out[i] = out[j] => i = j
    /\ \A i \in DOMAIN out : ~(out[i].key = K /\ out[i].n >= V.n)

-----------------------------------------------------------------------------

\* What makes it inductive: a key is longer than all that were used before it.
DrbgInv ==
    /\ K \in Seq(Nat \X Nat)
    /\ V = [key |-> K, n |-> 0]
    /\ out \in Seq([key : Seq(Nat \X Nat), n : Nat])
    /\ \A i \in DOMAIN out : Len(out[i].key) < Len(K)
    /\ \A i, j \in DOMAIN out : out[i] = out[j] => i = j

=============================================================================
