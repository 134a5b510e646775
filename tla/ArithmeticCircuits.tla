-------------------------- MODULE ArithmeticCircuits --------------------------
(***************************************************************************)
(* Arithmetic circuits of pq-secure-mpc.ts: the builder with its layers,   *)
(* the optimizer, the evaluation in the clear of runSPDZ(), and that of    *)
(* evaluateLocal(), where every party has additive shares and products     *)
(* take Beaver triples.                                                    *)
(***************************************************************************)
EXTENDS Integers, Sequences, FiniteSets, FiniteSetsExt, SequencesExt

CONSTANTS
    Field,      \* 0 .. prime - 1
    Constant,   \* of gates with a constant
    MaxInputs,  \* bound: input wires
    MaxWires,   \* bound: all wires
    MaxOutputs  \* bound: outputs, which are marked last

VARIABLES
    gates,
    nextWire,
    currentLayer

vars == <<gates, nextWire, currentLayer>>

Party == {1, 2}
Mod(a) == a % Cardinality(Field)
Wire == 0 .. nextWire - 1
Of(circuit, types) == {g \in DOMAIN circuit : circuit[g].type \in types}
Gate(type, in, out, constant, layer) ==
    [type |-> type, in |-> in, out |-> out, constant |-> constant, layer |-> layer]

\* The first gate with an output is the one that produces it; OUTPUT gates come after.
Producer(circuit, wire) == Min({g \in DOMAIN circuit : circuit[g].out = wire})
GateLayer(wire) == gates[Producer(gates, wire)].layer

Init ==
    /\ gates = << >>
    /\ nextWire = 0
    /\ currentLayer = 0

AddInput ==
    /\ \A g \in DOMAIN gates : gates[g].type = "INPUT"
    /\ Len(gates) < MaxInputs
    /\ gates' = Append(gates, Gate("INPUT", << >>, nextWire, 0, 0))
    /\ nextWire' = nextWire + 1
    /\ UNCHANGED currentLayer

Later(a, b) == IF a > b THEN a ELSE b

\* Faulty variant: one after the first input.
LayerAfterFirst(in) == GateLayer(in[1]) + 1

LayerAfter(in) == Later(GateLayer(in[1]), GateLayer(in[Len(in)])) + 1

\* addGate(), mulGate(), subGate(), constMulGate(), constAddGate()
AddGate(type, in, constant) ==
    /\ nextWire < MaxWires
    /\ Of(gates, {"OUTPUT"}) = {}
    /\ gates' = Append(gates, Gate(type, in, nextWire, constant, LayerAfter(in)))
    /\ nextWire' = nextWire + 1
    /\ currentLayer' = Later(currentLayer, LayerAfter(in))

MarkOutput(wire) ==
    /\ Cardinality(Of(gates, {"OUTPUT"})) < MaxOutputs
    /\ gates' = Append(gates, Gate("OUTPUT", <<wire>>, wire, 0, currentLayer + 1))
    /\ UNCHANGED <<nextWire, currentLayer>>

Next ==
    \/ AddInput
    \/ \E a, b \in Wire, type \in {"ADD", "SUB", "MUL"} : AddGate(type, <<a, b>>, 0)
    \/ \E a \in Wire, c \in Constant, type \in {"CONST_ADD", "CONST_MUL"} : AddGate(type, <<a>>, c)
    \/ \E wire \in Wire : MarkOutput(wire)

Spec == Init /\ [][Next]_vars

-----------------------------------------------------------------------------
(* Evaluation. *)

\* Gates by layers, those of a layer as they were added.
Sorted(circuit) ==
    LET earlier(g, h) == \/ circuit[g].layer < circuit[h].layer
                         \/ circuit[g].layer = circuit[h].layer /\ g < h
        order == SetToSortSeq(DOMAIN circuit, earlier)
    IN  [n \in DOMAIN order |-> circuit[order[n]]]

Undefined == -1

\* runSPDZ(): the wires after all gates, in the clear.  A wire that has no value yet
\* counts as 0.
Clear(circuit, input) ==
    LET sorted == Sorted(circuit)
        read(known, w) == IF known[w] = Undefined THEN 0 ELSE known[w]
        value(known, g) ==
            LET a == read(known, g.in[1])
                b == read(known, g.in[Len(g.in)])
            IN  CASE g.type = "ADD" -> a + b
                  [] g.type = "SUB" -> a - b
                  [] g.type = "MUL" -> a * b
                  [] g.type = "CONST_ADD" -> a + g.constant
                  [] g.type = "CONST_MUL" -> a * g.constant
        after[n \in 0 .. Len(sorted)] ==
            IF n = 0 THEN [w \in Wire |-> Undefined]
            ELSE LET known == after[n - 1]
                     g == sorted[n]
                 IN  CASE g.type = "INPUT" -> [known EXCEPT ![g.out] = input[g.out]]
                       [] g.type = "OUTPUT" -> known
                       [] OTHER -> [known EXCEPT ![g.out] = Mod(value(known, g))]
    IN  after[Len(sorted)]

\* Shares of a value, and of the triple that the n-th product takes.
Shares(value, random) == [p \in Party |-> IF p = 1 THEN random ELSE Mod(value - random)]
Triple(n) == [a |-> Shares(n, 1), b |-> Shares(n + 1, 0), c |-> Shares(n * (n + 1), n)]
Opened(shares) == Mod(shares[1] + shares[2])

\* evaluateLocal() of all parties together: products take the triples in the order of
\* the layers, and what is opened for them is indexed alike.
Local(circuit, input) ==
    LET sorted == Sorted(circuit)
        product(x, y, n) ==
            LET t == Triple(n)
                d == Opened([p \in Party |-> x[p] - t.a[p]])
                e == Opened([p \in Party |-> y[p] - t.b[p]])
            IN  [p \in Party |-> t.c[p] + d * t.b[p] + e * t.a[p] + (IF p = 1 THEN d * e ELSE 0)]
        value(known, g, n) ==
            LET x == known[g.in[1]]
                y == known[g.in[Len(g.in)]]
            IN  CASE g.type = "ADD" -> [p \in Party |-> x[p] + y[p]]
                  [] g.type = "SUB" -> [p \in Party |-> x[p] - y[p]]
                  [] g.type = "MUL" -> product(x, y, n)
                  [] g.type = "CONST_ADD" -> [x EXCEPT ![1] = @ + g.constant]
                  [] g.type = "CONST_MUL" -> [p \in Party |-> x[p] * g.constant]
        after[n \in 0 .. Len(sorted)] ==
            IF n = 0 THEN [known |-> [w \in Wire |-> Shares(0, 0)], products |-> 0]
            ELSE LET before == after[n - 1]
                     g == sorted[n]
                     made == LET v == value(before.known, g, before.products)
                             IN  [p \in Party |-> Mod(v[p])]
                 IN  CASE g.type = "INPUT" ->
                            [before EXCEPT !.known[g.out] = Shares(input[g.out], 1)]
                       [] g.type = "OUTPUT" -> before
                       [] OTHER -> [known |-> [before.known EXCEPT ![g.out] = made],
                                    products |-> before.products + (IF g.type = "MUL" THEN 1 ELSE 0)]
    IN  [w \in Wire |-> Opened(after[Len(sorted)].known[w])]

-----------------------------------------------------------------------------
(* The optimizer. *)

\* An outer and an inner multiplication by a constant.
Nested(circuit) ==
    {p \in Of(circuit, {"CONST_MUL"}) \X Of(circuit, {"CONST_MUL"}) :
        circuit[p[2]].out = circuit[p[1]].in[1]}

\* mergeConstantGates(): the outer gate multiplies by both, and the inner one is taken
\* out, whoever else uses it.
MergeConstantGates(circuit) ==
    LET merged[n \in 0 .. MaxWires] ==
          IF n = 0 THEN circuit
          ELSE LET c == merged[n - 1]
               IN  IF Nested(c) = {} THEN c
                   ELSE LET i == Min({p[1] : p \in Nested(c)})
                            j == CHOOSE j \in DOMAIN c : <<i, j>> \in Nested(c)
                        IN  RemoveAt([c EXCEPT ![i].in = c[j].in,
                                               ![i].constant = Mod(@ * c[j].constant)], j)
    IN  merged[MaxWires]

\* What the outputs depend on.
Reachable(circuit) ==
    LET inputsOf(w) == LET producers == {g \in DOMAIN circuit : circuit[g].out = w}
                       IN  IF producers = {} THEN {} ELSE ToSet(circuit[Min(producers)].in)
        within[n \in 0 .. MaxWires] ==
          IF n = 0 THEN {circuit[g].in[1] : g \in Of(circuit, {"OUTPUT"})}
          ELSE LET known == within[n - 1] IN known \cup UNION {inputsOf(w) : w \in known}
    IN  within[MaxWires]

EliminateDeadWires(circuit) ==
    LET reachable == Reachable(circuit)
    IN  SelectSeq(circuit, LAMBDA g : g.out \in reachable \/ g.type = "OUTPUT")

Optimize(circuit) == EliminateDeadWires(MergeConstantGates(circuit))

-----------------------------------------------------------------------------

Inputs == [{gates[g].out : g \in Of(gates, {"INPUT"})} -> Field]
Outputs == {gates[g].out : g \in Of(gates, {"OUTPUT"})}
Agree(a, b) == \A w \in Outputs : a[w] = b[w]

\* Nobody but the outer multiplication uses what an inner one gives.
InnerUsedOnce ==
    \A p \in Nested(gates) :
        Cardinality({g \in DOMAIN gates : \E k \in DOMAIN gates[g].in :
                        gates[g].in[k] = gates[p[2]].out}) = 1

\* What every gate computes, in the order in which the gates were added.
Reference(input) ==
    LET after[w \in Wire] ==
          LET g == gates[Producer(gates, w)]
          IN  CASE g.type = "INPUT" -> input[w]
                [] g.type = "ADD" -> Mod(after[g.in[1]] + after[g.in[2]])
                [] g.type = "SUB" -> Mod(after[g.in[1]] - after[g.in[2]])
                [] g.type = "MUL" -> Mod(after[g.in[1]] * after[g.in[2]])
                [] g.type = "CONST_ADD" -> Mod(after[g.in[1]] + g.constant)
                [] g.type = "CONST_MUL" -> Mod(after[g.in[1]] * g.constant)
    IN  after

\* Evaluating by layers, in the clear or on shares with triples, gives what the gates
\* say, whichever way the circuit was built; and the optimized circuit has the same
\* outputs, provided that no product by a constant that it merges away is used twice.
CircuitsComputeRight ==
    Outputs # {} =>
        LET optimized == IF InnerUsedOnce THEN Optimize(gates) ELSE gates
        IN  \A input \in Inputs :
              LET right == Reference(input)
              IN  \A circuit \in {gates, optimized} :
                    Agree(Clear(circuit, input), right) /\ Agree(Local(circuit, input), right)

=============================================================================
