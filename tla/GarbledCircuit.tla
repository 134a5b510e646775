--------------------------- MODULE GarbledCircuit ---------------------------
(***************************************************************************)
(* GarbledCircuitBuilder of threshold-signatures.ts: wires with two random *)
(* labels, whose last bits say in which row of a gate's table they look,   *)
(* gates, evaluation and decoding.  A label is its wire and the value it   *)
(* stands for; an encrypted label is what encrypted it and what it is.     *)
(***************************************************************************)
EXTENDS Integers, Sequences, FiniteSets

CONSTANTS
    MaxInputs,  \* bound: input wires
    MaxGates    \* bound: gates

VARIABLES
    permuteBits,    \* of each wire, the bit of the label for 0
    inputs,         \* how many wires are inputs
    gates

vars == <<permuteBits, inputs, gates>>

Bit == {0, 1}
Wire == DOMAIN permuteBits
Label(wire, value) == [wire |-> wire, value |-> value]
PermuteBit(label) == (permuteBits[label.wire] + label.value) % 2

Op(type, a, b) ==
    CASE type = "AND" -> a * b
      [] type = "OR" -> a + b - a * b
      [] type = "XOR" -> (a + b) % 2
      [] type = "NOT" -> 1 - a

Init ==
    /\ permuteBits = << >>
    /\ inputs = 0
    /\ gates = << >>

\* newWire() of an input; all are made before the first gate.
NewInput ==
    /\ gates = << >>
    /\ inputs < MaxInputs
    /\ inputs' = inputs + 1
    /\ \E p \in Bit : permuteBits' = Append(permuteBits, p)
    /\ UNCHANGED gates

EncryptLabel(key0, key1, label) == [keys |-> <<key0, key1>>, label |-> label]

\* Faulty variant: the rows are where the values say.
RowUnpermuted(type, label0, label1) ==
    IF type = "NOT" THEN label0.value ELSE 2 * label0.value + label1.value

\* Which row of the table two labels look in.
Row(type, label0, label1) ==
    IF type = "NOT" THEN PermuteBit(label0) ELSE 2 * PermuteBit(label0) + PermuteBit(label1)

\* addGate() and addNOT(): the table is permuted as the input labels are.
Table(type, w0, w1, out) ==
    LET entries == {<<Label(w0, a), Label(w1, b)>> : a \in Bit, b \in Bit}
        used == IF type = "NOT" THEN {e \in entries : e[1] = e[2]} ELSE entries
    IN  [r \in {Row(type, e[1], e[2]) : e \in used} |->
           LET e == CHOOSE e \in used : Row(type, e[1], e[2]) = r
           IN  EncryptLabel(e[1], e[2], Label(out, Op(type, e[1].value, e[2].value)))]

AddGate(type, w0, w1) ==
    LET out == Len(permuteBits) + 1
    IN  /\ Len(gates) < MaxGates
        /\ type = "NOT" => w0 = w1
        /\ \E p \in Bit : permuteBits' = Append(permuteBits, p)
        /\ gates' = Append(gates, [type |-> type, in0 |-> w0, in1 |-> w1, out |-> out,
                                   table |-> Table(type, w0, w1, out)])
        /\ UNCHANGED inputs

Next ==
    \/ NewInput
    \/ \E type \in {"AND", "OR", "XOR", "NOT"}, w0, w1 \in Wire : AddGate(type, w0, w1)

Spec == Init /\ [][Next]_vars

-----------------------------------------------------------------------------

\* The evaluator looks at the bits of labels, not at their values.
RowSeen(type, label0, label1) ==
    IF type = "NOT" THEN PermuteBit(label0) ELSE 2 * PermuteBit(label0) + PermuteBit(label1)

Garbage == [wire |-> 0, value |-> 0]
DecryptLabel(key0, key1, c) == IF c.keys = <<key0, key1>> THEN c.label ELSE Garbage

\* evaluate(): the labels of all wires, gate by gate.
Evaluate(labels) ==
    LET after[n \in 0 .. Len(gates)] ==
          IF n = 0 THEN labels
          ELSE LET known == after[n - 1]
                   g == gates[n]
                   l0 == known[g.in0]
                   l1 == known[g.in1]
               IN  Append(known, DecryptLabel(l0, l1, g.table[RowSeen(g.type, l0, l1)]))
    IN  after[Len(gates)]

\* decode(): whatever is not the label for 0 is a 1.
Decode(wire, label) == IF label = Label(wire, 0) THEN 0 ELSE 1

\* The circuit without garbling.
Plain(bits) ==
    LET after[n \in 0 .. Len(gates)] ==
          IF n = 0 THEN bits
          ELSE LET known == after[n - 1]
                   g == gates[n]
               IN  Append(known, Op(g.type, known[g.in0], known[g.in1]))
    IN  after[Len(gates)]

\* Whatever the circuit and its permutation bits, every gate hands on a real label of
\* its wire, and what is decoded is what the circuit computes in the clear, for every
\* input; also when a gate has one wire for both inputs, or a wire feeds many gates.
GarblingComputesCircuit ==
    \A bits \in [1 .. inputs -> Bit] :
        LET labels == Evaluate([w \in 1 .. inputs |-> Label(w, bits[w])])
        IN  \A w \in Wire : /\ labels[w].wire = w
                            /\ Decode(w, labels[w]) = Plain(bits)[w]

-----------------------------------------------------------------------------

\* What makes the property inductive: every gate is of wires before its own, and in
\* the row where two of their labels look the table has the label of the result for
\* just these.
GateRight(n) ==
    LET g == gates[n]
    IN  /\ g.type \in {"AND", "OR", "XOR", "NOT"} /\ g.out = inputs + n
        /\ g.in0 \in 1 .. g.out - 1 /\ g.in1 \in 1 .. g.out - 1
        /\ g.type = "NOT" => g.in0 = g.in1
        /\ \A a, b \in Bit :
             (g.type = "NOT" => a = b) =>
                 g.table[Row(g.type, Label(g.in0, a), Label(g.in1, b))]
                     = EncryptLabel(Label(g.in0, a), Label(g.in1, b),
                                    Label(g.out, Op(g.type, a, b)))

GarblingInv ==
    /\ inputs \in Nat
    /\ gates \in Seq({gates[n] : n \in DOMAIN gates})
    /\ permuteBits \in Seq(Bit) /\ Len(permuteBits) = inputs + Len(gates)
    /\ \A n \in DOMAIN gates : GateRight(n)

=============================================================================
