--------------------------- MODULE BooleanCircuits ---------------------------
(***************************************************************************)
(* Boolean circuits of pq-secure-mpc.ts: the builder, the garbled circuits *)
(* of GarbledCircuitGenerator (exclusive or for free) with their evaluator *)
(* as runGarbled() puts them together, and GMW on shared bits.             *)
(*                                                                         *)
(* A label is the set of the random strings whose exclusive or it is; that *)
(* of delta is in one label of every wire and not in the other.            *)
(***************************************************************************)
EXTENDS Integers, Sequences, FiniteSets, FiniteSetsExt, SequencesExt

CONSTANTS
    MaxInputs,  \* bound: input wires
    MaxWires    \* bound: all wires

VARIABLES
    gates,
    layers,     \* of each wire
    lsb         \* the last bit of the random label of each wire

vars == <<gates, layers, lsb>>

Bit == {0, 1}
Wire == DOMAIN layers
Xor(a, b) == (a + b) % 2
Gate(type, in, layer) == [type |-> type, in |-> in, out |-> Len(layers) + 1, layer |-> layer]
Of(types) == {g \in DOMAIN gates : gates[g].type \in types}
Outputs == {gates[g].out : g \in Of({"OUTPUT"})}

Init ==
    /\ gates = << >>
    /\ layers = << >>
    /\ lsb = << >>

AddInput ==
    /\ Of({"AND", "OR", "XOR", "NOT", "OUTPUT"}) = {}
    /\ Len(layers) < MaxInputs
    /\ gates' = Append(gates, Gate("INPUT", << >>, 0))
    /\ layers' = Append(layers, 0)
    /\ \E b \in Bit : lsb' = Append(lsb, b)

\* andGate(), orGate(), xorGate(), notGate(); a random label is taken when the gate is
\* garbled, by AND and OR.
AddGate(type, in) ==
    LET layer == Max({layers[in[k]] : k \in DOMAIN in}) + 1
    IN  /\ Of({"OUTPUT"}) = {}
        /\ Len(layers) < MaxWires
        /\ gates' = Append(gates, Gate(type, in, layer))
        /\ layers' = Append(layers, layer)
        /\ IF type \in {"AND", "OR"} THEN \E b \in Bit : lsb' = Append(lsb, b)
           ELSE lsb' = Append(lsb, 0)

\* One output, marked last; it is the last wire, for an earlier one is the last of a
\* shorter circuit.
MarkOutput(wire) ==
    /\ Of({"OUTPUT"}) = {}
    /\ gates' = Append(gates, [Gate("OUTPUT", <<wire>>, layers[wire] + 1) EXCEPT !.out = wire])
    /\ UNCHANGED <<layers, lsb>>

Next ==
    \/ AddInput
    \/ \E a, b \in Wire, type \in {"AND", "OR", "XOR"} : AddGate(type, <<a, b>>)
    \/ \E a \in Wire : AddGate("NOT", <<a>>)
    \/ layers # << >> /\ MarkOutput(Len(layers))

Spec == Init /\ [][Next]_vars

\* The gates that compute, by layers.
Computing ==
    LET chosen == Of({"AND", "OR", "XOR", "NOT"})
        earlier(g, h) == \/ gates[g].layer < gates[h].layer
                         \/ gates[g].layer = gates[h].layer /\ g < h
        order == SetToSortSeq(chosen, earlier)
    IN  [n \in DOMAIN order |-> gates[order[n]]]

-----------------------------------------------------------------------------
(* Garbling. *)

Delta == 0
Label(random, value) == IF value = 1 THEN SymDiff(random, {Delta}) ELSE random

\* The last bit of a label; that of delta is 1.
PermuteBit(label) ==
    Cardinality({r \in label : IF r = Delta THEN TRUE ELSE lsb[r] = 1}) % 2

\* Faulty variant: the wire of a NOT keeps its labels.
NotLabel(a) == a

\* garbleNOT(): the two labels change places.
SwappedLabel(a) == SymDiff(a, {Delta})

\* The label for 0 of every wire: what garble() leaves in its map.
ZeroLabels ==
    LET after[w \in Wire] ==
          LET g == CHOOSE g \in Of({"INPUT", "AND", "OR", "XOR", "NOT"}) : gates[g].out = w
          IN  CASE gates[g].type \in {"INPUT", "AND", "OR"} -> {w}
                [] gates[g].type = "XOR" -> SymDiff(after[gates[g].in[1]], after[gates[g].in[2]])
                [] gates[g].type = "NOT" -> SwappedLabel(after[gates[g].in[1]])
    IN  after

\* garbleAND(), for OR too: the label of the output for every row, encrypted with the
\* labels of the inputs and the number of the gate.  The rows are in the order of the
\* permute bits.
GarbleAND(zero, g, gateIdx) ==
    LET row(a, b) == 2 * PermuteBit(Label(zero[g.in[1]], a)) + PermuteBit(Label(zero[g.in[2]], b))
    IN  [r \in 0 .. 3 |->
           LET ab == CHOOSE ab \in Bit \X Bit : row(ab[1], ab[2]) = r
           IN  [keys |-> <<Label(zero[g.in[1]], ab[1]), Label(zero[g.in[2]], ab[2]), gateIdx>>,
                label |-> Label(zero[g.out], ab[1] * ab[2])]]

\* garble(): every gate has a number, also those that have no table.
Garbled(zero) ==
    [n \in DOMAIN Computing |->
        IF Computing[n].type \in {"AND", "OR"} THEN GarbleAND(zero, Computing[n], n - 1) ELSE << >>]

\* What comes out when the keys are others: some string of its own.
Garbage(n) == {-n}
GarbledDecrypt(a, b, gateIdx, entry, n) ==
    IF entry.keys = <<a, b, gateIdx>> THEN entry.label ELSE Garbage(n)

\* The evaluator looks in whichever row the bits of the labels say; those of garbage
\* may say any, and no row decrypts.
LooksIn(a, b) ==
    IF \E r \in a \cup b : r < 0 THEN 0 ELSE 2 * PermuteBit(a) + PermuteBit(b)

\* GarbledCircuitEvaluator.evaluate(): here only gates with a table are numbered.
Evaluated(garbled, input) ==
    LET step(state, n) ==
          LET g == Computing[n]
              a == state.label[g.in[1]]
              b == state.label[g.in[Len(g.in)]]
          IN  CASE g.type = "XOR" -> [state EXCEPT !.label[g.out] = SymDiff(a, b)]
                [] g.type = "NOT" -> [state EXCEPT !.label[g.out] = a]
                [] OTHER -> [label |-> [state.label EXCEPT ![g.out] =
                                GarbledDecrypt(a, b, state.gateIdx, garbled[n][LooksIn(a, b)], n)],
                             gateIdx |-> state.gateIdx + 1]
        after[n \in 0 .. Len(Computing)] ==
          IF n = 0 THEN [label |-> [w \in Wire |-> IF w \in DOMAIN input THEN input[w] ELSE {}],
                         gateIdx |-> 0]
          ELSE LET before == after[n - 1] IN step(before, n)
    IN  after[Len(Computing)].label

\* Output decoding: 0, 1, or an exception.
Decoded(zero, label) ==
    CASE label = zero -> 0 [] label = Label(zero, 1) -> 1 [] OTHER -> "fails"

\* runGarbled()
RunGarbled(bits, wire) ==
    LET zero == ZeroLabels
        input == [w \in DOMAIN bits |-> Label(zero[w], bits[w])]
    IN  Decoded(zero[wire], Evaluated(Garbled(zero), input)[wire])

-----------------------------------------------------------------------------
(* GMW of two parties. *)

Party == {1, 2}

\* preprocessANDGates() counts the AND gates only, and OR gates take from the same list.
Preprocessed == 1 .. Cardinality(Of({"AND"}))

\* evaluateAND(): beyond the list there is nothing to add.
EvaluateAND(a, b, ot) == Xor(a * b, ot)

\* What oblivious transfer is to supply for a product: the terms across parties.
Cross(a, b) == Xor(a[1] * b[2], a[2] * b[1])

\* evaluateCircuit() of both parties together, with the transfers' results; and
\* whether all of these were what they should be.
EvaluateCircuit(shares, ots) ==
    LET ot(k) == IF k \in Preprocessed THEN ots[k] ELSE [p \in Party |-> 0]
        step(state, n) ==
          LET g == Computing[n]
              a == state.share[g.in[1]]
              b == state.share[g.in[Len(g.in)]]
              and == [p \in Party |-> EvaluateAND(a[p], b[p], ot(state.taken + 1)[p])]
              fits == Xor(ot(state.taken + 1)[1], ot(state.taken + 1)[2]) = Cross(a, b)
          IN  CASE g.type = "XOR" ->
                     [state EXCEPT !.share[g.out] = [p \in Party |-> Xor(a[p], b[p])]]
                [] g.type = "NOT" -> [state EXCEPT !.share[g.out] = [a EXCEPT ![1] = Xor(@, 1)]]
                [] g.type = "AND" ->
                     [share |-> [state.share EXCEPT ![g.out] = and],
                      taken |-> state.taken + 1, fits |-> state.fits /\ fits]
                [] g.type = "OR" ->
                     [share |-> [state.share EXCEPT ![g.out] =
                                   [p \in Party |-> Xor(Xor(a[p], b[p]), and[p])]],
                      taken |-> state.taken + 1, fits |-> state.fits /\ fits]
        after[n \in 0 .. Len(Computing)] ==
          IF n = 0 THEN [share |-> [w \in Wire |-> IF w \in DOMAIN shares THEN shares[w]
                                                   ELSE [p \in Party |-> 0]],
                         taken |-> 0, fits |-> TRUE]
          ELSE LET before == after[n - 1] IN step(before, n)
    IN  after[Len(Computing)]

-----------------------------------------------------------------------------

InputWires == {gates[g].out : g \in Of({"INPUT"})}

\* The circuit in the clear.
Plain(bits) ==
    LET after[w \in Wire] ==
          LET g == CHOOSE g \in Of({"INPUT", "AND", "OR", "XOR", "NOT"}) : gates[g].out = w
              a == after[gates[g].in[1]]
              b == after[gates[g].in[2]]
          IN  CASE gates[g].type = "INPUT" -> bits[w]
                [] gates[g].type = "AND" -> a * b
                [] gates[g].type = "OR" -> a + b - a * b
                [] gates[g].type = "XOR" -> Xor(a, b)
                [] gates[g].type = "NOT" -> 1 - a
    IN  after

\* Garbler and evaluator number the gates alike.
NumberedAlike ==
    \A m, n \in DOMAIN Computing :
        m < n /\ Computing[n].type \in {"AND", "OR"} => Computing[m].type \in {"AND", "OR"}

\* A garbled circuit of AND, XOR and NOT gates decodes to what the circuit computes,
\* whatever the permute bits are, if no free gate is in a layer before one with a
\* table.  In GMW the shares add up to it whenever the transfers supplied the cross
\* terms, OR gates included.
BooleanComputesRight ==
    Outputs # {} =>
        /\ (Of({"OR"}) = {} /\ NumberedAlike) =>
             \A bits \in [InputWires -> Bit], w \in Outputs : RunGarbled(bits, w) = Plain(bits)[w]
        /\ \A bits, r \in [InputWires -> Bit], ots \in [Preprocessed -> [Party -> Bit]] :
             LET result == EvaluateCircuit([w \in InputWires |-> <<r[w], Xor(bits[w], r[w])>>], ots)
             IN  result.fits => \A w \in Outputs :
                   Xor(result.share[w][1], result.share[w][2]) = Plain(bits)[w]

=============================================================================
