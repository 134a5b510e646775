------------------------- MODULE AtMostOnceChannel -------------------------
(***************************************************************************)
(* What a pair of secure channels promises an application: each direction  *)
(* carries numbered payloads, hands each of them over at most once and in  *)
(* any order, and stops accepting new ones for good when its sender begins *)
(* to close.  Keys, frames and the replay window are not part of it.       *)
(***************************************************************************)
EXTENDS Naturals

CONSTANTS Peer, Number

VARIABLES
    offered,      \* the numbers each peer's application has sent
    taken,        \* how often each number was handed to the peer's application
    speaking      \* whether the peer may still send

vars == <<offered, taken, speaking>>

Init ==
    /\ offered = [p \in Peer |-> {}]
    /\ taken = [p \in Peer |-> [n \in Number |-> 0]]
    /\ speaking = [p \in Peer |-> TRUE]

Offer(p, n) ==
    /\ speaking[p]
    /\ n \notin offered[p]
    /\ offered' = [offered EXCEPT ![p] = @ \cup {n}]
    /\ UNCHANGED <<taken, speaking>>

\* q takes a number that p offered.
Take(p, q, n) ==
    /\ p # q
    /\ n \in offered[p]
    /\ taken[q][n] = 0
    /\ taken' = [taken EXCEPT ![q][n] = 1]
    /\ UNCHANGED <<offered, speaking>>

FallSilent(p) ==
    /\ speaking[p]
    /\ speaking' = [speaking EXCEPT ![p] = FALSE]
    /\ UNCHANGED <<offered, taken>>

Next ==
    \/ \E p \in Peer, n \in Number : Offer(p, n)
    \/ \E p, q \in Peer, n \in Number : Take(p, q, n)
    \/ \E p \in Peer : FallSilent(p)

Spec == Init /\ [][Next]_vars

=============================================================================
