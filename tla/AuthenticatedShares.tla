------------------------- MODULE AuthenticatedShares -------------------------
(***************************************************************************)
(* SPDZ of pq-secure-mpc.ts: values that are shared additively together    *)
(* with a message authentication code, which is the value times a key that *)
(* nobody knows.  Sums are local; a product takes a Beaver triple and two  *)
(* openings; what is opened is checked against the codes.                  *)
(*                                                                         *)
(* A shared value is the list of its parties' shares.  One party may lie   *)
(* whenever something is opened: about its share, and at the end about its *)
(* code too.                                                               *)
(***************************************************************************)
EXTENDS Integers, Sequences

CONSTANTS
    Prime,      \* of the field
    NumParties,
    Value,      \* values that are put in, and constants
    Random,     \* what the random generator gives
    Lie,        \* what a party adds to a share that it opens
    MaxWires    \* bound: shared values

VARIABLES
    macKey,
    wires,      \* the shared values
    plain,      \* what they should be
    unnoticed,  \* somebody lied in an opening that nobody checked
    output      \* what was reconstructed last

vars == <<macKey, wires, plain, unnoticed, output>>

Field == 0 .. Prime - 1
Party == 1 .. NumParties
Mod(a) == a % Prime

\* reconstruct() adds up the shares of the first party, the first two, and so on.
Total(f) ==
    LET upTo[n \in 0 .. NumParties] == IF n = 0 THEN 0 ELSE upTo[n - 1] + f[n]
    IN  upTo[NumParties]
Sum(f) == Mod(Total(f))
NoOutput == [valid |-> FALSE]

\* AdditiveSecretSharing.share(): the last party's share makes the sum right.
AdditiveShare(secret, random) ==
    [p \in Party |-> IF p < NumParties THEN random
                     ELSE Mod(secret - (NumParties - 1) * random)]

\* authenticatedShare()
AuthenticatedShare(secret, r, s) ==
    [value |-> AdditiveShare(secret, r), mac |-> AdditiveShare(Mod(macKey * secret), s)]

\* The shares of the key are made with 1 for a random number.
MacKeyShare == AdditiveShare(macKey, 1)

Add(x, y) == [value |-> [p \in Party |-> Mod(x.value[p] + y.value[p])],
              mac |-> [p \in Party |-> Mod(x.mac[p] + y.mac[p])]]

Subtract(x, y) == [value |-> [p \in Party |-> Mod(x.value[p] - y.value[p])],
                   mac |-> [p \in Party |-> Mod(x.mac[p] - y.mac[p])]]

MulConstant(x, constant) == [value |-> [p \in Party |-> Mod(x.value[p] * constant)],
                             mac |-> [p \in Party |-> Mod(x.mac[p] * constant)]]

\* Faulty variant: only the first party adjusts its code, as it does its value.
AddConstantFirst(x, constant) ==
    [value |-> [x.value EXCEPT ![1] = Mod(@ + constant)],
     mac |-> [x.mac EXCEPT ![1] = Mod(@ + MacKeyShare[1] * constant)]]

\* addConstant(): the first party adds it to its value, all adjust their codes.
AddConstant(x, constant) ==
    [value |-> [x.value EXCEPT ![1] = Mod(@ + constant)],
     mac |-> [p \in Party |-> Mod(x.mac[p] + MacKeyShare[p] * constant)]]

\* generateTriple()
Triple(a, b, r, s) ==
    [a |-> AuthenticatedShare(a, r, s), b |-> AuthenticatedShare(b, s, r),
     c |-> AuthenticatedShare(Mod(a * b), r, s)]

\* multiply(): z = c + d * b + e * a + d * e
Product(triple, d, e) ==
    AddConstant(Add(Add(triple.c, MulConstant(triple.b, d)), MulConstant(triple.a, e)),
                Mod(d * e))

\* verifyMAC(): the codes less the key times what was opened sum to zero.
VerifyMAC(mac, opened) == Sum([p \in Party |-> mac[p] - MacKeyShare[p] * opened]) = 0

-----------------------------------------------------------------------------

Init ==
    /\ macKey \in Field
    /\ wires = << >>
    /\ plain = << >>
    /\ unnoticed = FALSE
    /\ output = NoOutput

NewWire(x, value) ==
    /\ Len(wires) < MaxWires
    /\ wires' = Append(wires, x)
    /\ plain' = Append(plain, Mod(value))
    /\ UNCHANGED <<macKey, output>>

\* inputShare() with generateRandom(): the party publishes how far its value is from a
\* shared random one, and all adjust that.
InputShare(value, random, r, s) ==
    LET shared == AuthenticatedShare(random, r, s)
    IN  /\ NewWire(AddConstant(shared, Mod(value - Sum(shared.value))), value)
        /\ UNCHANGED unnoticed

AddWires(i, j) == NewWire(Add(wires[i], wires[j]), plain[i] + plain[j]) /\ UNCHANGED unnoticed

\* secureCompare() is the difference.
CompareWires(i, j) ==
    NewWire(Subtract(wires[i], wires[j]), plain[i] - plain[j]) /\ UNCHANGED unnoticed

ScaleWire(i, constant) ==
    NewWire(MulConstant(wires[i], constant), plain[i] * constant) /\ UNCHANGED unnoticed

ShiftWire(i, constant) ==
    NewWire(AddConstant(wires[i], constant), plain[i] + constant) /\ UNCHANGED unnoticed

\* multiply() with its two openings, of x - a and y - b.  The caller opens them, and
\* checks them or does not; after a failed check there is no product.
MultiplyWires(i, j, a, b, r, s, lie, checked) ==
    LET triple == Triple(a, b, r, s)
        x == Subtract(wires[i], triple.a)
        y == Subtract(wires[j], triple.b)
        d == Mod(Sum(x.value) + lie)
        e == Sum(y.value)
    IN  /\ checked => VerifyMAC(x.mac, d) /\ VerifyMAC(y.mac, e)
        /\ NewWire(Product(triple, d, e), plain[i] * plain[j])
        /\ unnoticed' = (unnoticed \/ (lie # 0 /\ ~checked))

\* outputReconstruct(), with a share and a code that may both be false.
OutputReconstruct(i, lie, macLie) ==
    LET value == Mod(Sum(wires[i].value) + lie)
        mac == [wires[i].mac EXCEPT ![1] = Mod(@ + macLie)]
    IN  /\ output' = [value |-> value, valid |-> VerifyMAC(mac, value), right |-> plain[i],
                      guessed |-> lie # 0 /\ macLie = Mod(macKey * lie), honest |-> lie = 0 /\ macLie = 0]
        /\ UNCHANGED <<macKey, wires, plain, unnoticed>>

Next ==
    \/ \E value \in Value, random, r, s \in Random : InputShare(value, random, r, s)
    \/ \E i, j \in DOMAIN wires :
         \/ AddWires(i, j)
         \/ CompareWires(i, j)
         \/ \E a, b, r, s \in Random, lie \in Lie, checked \in BOOLEAN :
              MultiplyWires(i, j, a, b, r, s, lie, checked)
    \/ \E i \in DOMAIN wires, constant \in Value : ScaleWire(i, constant) \/ ShiftWire(i, constant)
    \/ \E i \in DOMAIN wires, lie, macLie \in Lie : OutputReconstruct(i, lie, macLie)

Spec == Init /\ [][Next]_vars

-----------------------------------------------------------------------------

\* What is reconstructed is valid when nobody lied, and right when it is valid: unless
\* the key is 0, the liar guessed it, or a lie went into a product through an opening
\* that nobody checked, which the codes of the product know nothing of.
CheckedOutputsRight ==
    (output # NoOutput /\ ~unnoticed /\ macKey # 0) =>
        /\ output.honest => output.valid
        /\ output.valid => output.value = output.right \/ output.guessed

-----------------------------------------------------------------------------

Shared == [value : [Party -> Field], mac : [Party -> Field]]

\* What makes it inductive: the codes of a shared value are those of what its shares
\* add up to, even after a lie; that it is what it should be, only without one.
AuthenticationInv ==
    /\ macKey \in Field
    /\ unnoticed \in BOOLEAN
    /\ wires \in Seq(Shared) /\ plain \in Seq(Field) /\ DOMAIN plain = DOMAIN wires
    /\ \A i \in DOMAIN wires :
          /\ Sum(wires[i].mac) = Mod(macKey * Total(wires[i].value))
          /\ (~unnoticed /\ macKey # 0) => Sum(wires[i].value) = plain[i]
    /\ CheckedOutputsRight

=============================================================================
