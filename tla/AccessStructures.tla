-------------------------- MODULE AccessStructures --------------------------
(***************************************************************************)
(* Who may put a secret together (MultiPartyComputation of                 *)
(* threshold-signatures.ts): monotone span programs, solved by Gaussian    *)
(* elimination over a small prime field, thresholds turned into span       *)
(* programs, and weighted thresholds whose parties hold several shares.    *)
(***************************************************************************)
EXTENDS Integers, Sequences, FiniteSets, FiniteSetsExt, SequencesExt

CONSTANTS
    Field,      \* 0 .. prime - 1
    Parties,    \* numbers of the parties, from 1 on
    Row,        \* rows that span programs have
    Target,     \* target vectors of span programs
    Weights,    \* functions from parties to weights
    Secret      \* secrets that are shared

VARIABLES
    structure,  \* the access structure, or None
    shares      \* what each party was given

vars == <<structure, shares>>

FieldSize == Cardinality(Field)
Dim == 2
None == [type |-> "none"]
Mod(a) == a % FieldSize
ModInverse(a) == IF a = 0 THEN 0 ELSE CHOOSE b \in Field : Mod(a * b) = 1
Vector == [1 .. Dim -> Field]

\* <row, v>
Inner(row, v) == Mod(row[1] * v[1] + row[2] * v[2])

-----------------------------------------------------------------------------
(* Span programs. *)

SpanProgram(matrix, target) ==
    [type |-> "monotone-span", matrix |-> matrix, target |-> target]

\* thresholdToSpanProgram(): party i has the row 1, i.
ThresholdToSpanProgram == SpanProgram([i \in Parties |-> <<1, Mod(i)>>], <<1, 0>>)

\* The place of the target that the secret is solved for.
TargetNonZero(target) == CHOOSE i \in 1 .. Dim : target[i] # 0 /\ \A j \in 1 .. i - 1 : target[j] = 0

\* The random vector, with the one component that makes <target, rho> the secret.
Rho(secret, target, random) ==
    LET k == TargetNonZero(target)
        rest == Inner(target, [random EXCEPT ![k] = 0])
    IN  [random EXCEPT ![k] = Mod((secret - rest) * ModInverse(target[k]))]

\* shareWithSpanProgram()
ShareWithSpanProgram(secret, s, random) ==
    [i \in Parties |-> Inner(s.matrix[i], Rho(secret, s.target, random))]

\* Faulty variant: the rows above the pivot keep the column.
ColumnBelow(state, col) ==
    LET m == state.rows
        pivotRow == Len(state.pivotCols) + 1
        candidates == {r \in pivotRow .. Dim : m[r][col] # 0}
    IN  IF candidates = {} THEN state
        ELSE LET r == Min(candidates)
                 swapped == [m EXCEPT ![pivotRow] = m[r], ![r] = m[pivotRow]]
                 inverse == ModInverse(swapped[pivotRow][col])
                 pivot == [j \in DOMAIN m[1] |-> Mod(swapped[pivotRow][j] * inverse)]
             IN  [rows |-> [i \in 1 .. Dim |->
                              IF i = pivotRow THEN pivot
                              ELSE IF i < pivotRow THEN swapped[i]
                              ELSE [j \in DOMAIN m[1] |->
                                      Mod(swapped[i][j] - swapped[i][col] * pivot[j])]],
                  pivotCols |-> Append(state.pivotCols, col)]

\* One column of the elimination: find a pivot at or below pivotRow, swap it there,
\* make it 1 and clear the rest of the column.
Column(state, col) ==
    LET m == state.rows
        pivotRow == Len(state.pivotCols) + 1
        candidates == {r \in pivotRow .. Dim : m[r][col] # 0}
    IN  IF candidates = {} THEN state
        ELSE LET r == Min(candidates)
                 swapped == [m EXCEPT ![pivotRow] = m[r], ![r] = m[pivotRow]]
                 inverse == ModInverse(swapped[pivotRow][col])
                 pivot == [j \in DOMAIN m[1] |-> Mod(swapped[pivotRow][j] * inverse)]
             IN  [rows |-> [i \in 1 .. Dim |->
                              IF i = pivotRow THEN pivot
                              ELSE [j \in DOMAIN m[1] |->
                                      Mod(swapped[i][j] - swapped[i][col] * pivot[j])]],
                  pivotCols |-> Append(state.pivotCols, col)]

Eliminated(augmented, columns) ==
    LET after[n \in 0 .. columns] ==
          IF n = 0 THEN [rows |-> augmented, pivotCols |-> << >>]
          ELSE LET before == after[n - 1] IN Column(before, n)
    IN  after[columns]

\* reconstructFromSpanProgram(): solves for the coefficients of the rows that take
\* part.  Nothing checks that the system had a solution.
ReconstructFromSpanProgram(held, s) ==
    LET rows == SetToSortSeq(DOMAIN held, <)
        n == Len(rows)
        augmented == [c \in 1 .. Dim |-> [r \in 1 .. n + 1 |->
                         IF r <= n THEN s.matrix[rows[r]][c] ELSE s.target[c]]]
        solved == Eliminated(augmented, n)
        lambda(r) == LET at == {i \in DOMAIN solved.pivotCols : solved.pivotCols[i] = r}
                     IN  IF at = {} THEN 0 ELSE solved.rows[Min(at)][n + 1]
    IN  Mod(MapThenSumSet(LAMBDA r : lambda(r) * held[rows[r]], 1 .. n))

\* isAuthorized(): whoever has a row is, for reconstructing never fails.
IsAuthorized(S, s) ==
    CASE s.type = "monotone-span" -> S # {}
      [] s.type = "weighted" -> MapThenSumSet(LAMBDA p : s.weights[p], S) >= s.threshold

-----------------------------------------------------------------------------
(* Weighted thresholds. *)

Total(weights) == MapThenSumSet(LAMBDA p : weights[p], Parties)

\* weightedShare(): consecutive numbers of Shamir shares, as many as the weight.
WeightedShare(weights) ==
    [p \in Parties |->
        LET before == MapThenSumSet(LAMBDA q : weights[q], {q \in Parties : q < p})
        IN  [k \in 1 .. weights[p] |-> before + k]]

\* weightedReconstruct(): the sub-shares in the order of the list, as many as needed.
WeightedReconstruct(list, s, held) ==
    LET all == FlattenSeq([i \in DOMAIN list |-> held[list[i]]])
    IN  SubSeq(all, 1, s.threshold)

-----------------------------------------------------------------------------

Init ==
    /\ structure = None
    /\ shares = << >>

CreateSpanProgram ==
    \E matrix \in [Parties -> Row], target \in Target :
        /\ structure' = SpanProgram(matrix, target)
        /\ UNCHANGED shares

CreateThreshold == structure' = ThresholdToSpanProgram /\ UNCHANGED shares

\* createWeightedThreshold() and weightedShare()
CreateWeightedThreshold ==
    \E weights \in Weights : \E threshold \in 1 .. Total(weights) :
        /\ structure' = [type |-> "weighted", weights |-> weights, threshold |-> threshold]
        /\ shares' = WeightedShare(weights)

Share ==
    /\ structure.type = "monotone-span"
    /\ \E secret \in Secret, random \in Vector :
         shares' = [secret |-> secret, of |-> ShareWithSpanProgram(secret, structure, random)]
    /\ UNCHANGED structure

Next ==
    \/ structure = None /\ (CreateSpanProgram \/ CreateThreshold \/ CreateWeightedThreshold)
    \/ shares = << >> /\ Share

Spec == Init /\ [][Next]_vars

-----------------------------------------------------------------------------

\* What a span program is for: the rows of S combine to the target.
InSpan(S, s) ==
    \E lambda \in [S -> Field] :
        \A c \in 1 .. Dim :
            Mod(MapThenSumSet(LAMBDA p : lambda[p] * s.matrix[p][c], S)) = s.target[c]

Held(S) == [p \in S |-> shares.of[p]]

\* Whoever an access structure authorizes finds the secret from what the members of
\* the set hold: of a span program when their rows combine to the target, of a
\* threshold when they are enough, of weights when these add up, in whichever order
\* the parties are listed.  (A set whose rows do not combine to the target is called
\* authorized just the same, and is given some number.)
AuthorizedFindSecret ==
    /\ structure.type = "monotone-span" =>
         \A S \in SUBSET Parties \ {{}} :
           /\ InSpan(S, structure) =>
                /\ IsAuthorized(S, structure)
                /\ shares # << >> =>
                     ReconstructFromSpanProgram(Held(S), structure) = shares.secret
           /\ (structure = ThresholdToSpanProgram /\ \A p \in Parties : p < FieldSize) => (InSpan(S, structure) <=> Cardinality(S) >= Dim)
    /\ structure.type = "weighted" =>
         \A S \in SUBSET Parties :
           IsAuthorized(S, structure) =>
             \A list \in SetToSeqs(S) :
               LET used == WeightedReconstruct(list, structure, shares)
               IN  Len(used) = structure.threshold /\ Cardinality(ToSet(used)) = Len(used)

=============================================================================
