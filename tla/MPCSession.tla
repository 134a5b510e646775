----------------------------- MODULE MPCSession -----------------------------
(***************************************************************************)
(* The phases of MPCSession of pq-secure-mpc.ts.  Parties name themselves; *)
(* nothing compares the names with the parties there are.                  *)
(***************************************************************************)
EXTENDS Naturals, FiniteSets

CONSTANTS
    Name,           \* names a caller may use
    NumParties,
    Protocol,       \* "spdz", "gmw", "garbled"
    MaxTriples      \* bound: triples asked for

VARIABLES
    protocol,
    phase,
    connectedParties,
    inputsReceived,
    triples,
    outputsReady,
    aborted         \* abort() was called

vars == <<protocol, phase, connectedParties, inputsReceived, triples, outputsReady, aborted>>

Init ==
    /\ protocol \in Protocol
    /\ phase = "Setup"
    /\ connectedParties = {}
    /\ inputsReceived = {}
    /\ triples = 0
    /\ outputsReady = FALSE
    /\ aborted = FALSE

\* The next phase once everybody is there.
Counted(members, after) == IF Cardinality(members) = NumParties THEN after ELSE phase

ConnectParty(party) ==
    /\ phase = "Setup"
    /\ connectedParties' = connectedParties \cup {party}
    /\ phase' = Counted(connectedParties', "Preprocessing")
    /\ UNCHANGED <<protocol, inputsReceived, triples, outputsReady, aborted>>

Preprocess(numTriples) ==
    /\ phase = "Preprocessing"
    /\ triples' = IF protocol = "spdz" THEN numTriples ELSE triples
    /\ phase' = "InputSharing"
    /\ UNCHANGED <<protocol, connectedParties, inputsReceived, outputsReady, aborted>>

RecordInput(party) ==
    /\ phase = "InputSharing"
    /\ inputsReceived' = inputsReceived \cup {party}
    /\ phase' = Counted(inputsReceived', "Computation")
    /\ UNCHANGED <<protocol, connectedParties, triples, outputsReady, aborted>>

BeginOutput ==
    /\ phase = "Computation"
    /\ phase' = "OutputReconstruction"
    /\ UNCHANGED <<protocol, connectedParties, inputsReceived, triples, outputsReady, aborted>>

\* complete() and abort() ask for no phase.
Complete ==
    /\ phase' = "Complete"
    /\ outputsReady' = TRUE
    /\ UNCHANGED <<protocol, connectedParties, inputsReceived, triples, aborted>>

Abort ==
    /\ phase' = "Aborted"
    /\ aborted' = TRUE
    /\ UNCHANGED <<protocol, connectedParties, inputsReceived, triples, outputsReady>>

Next ==
    \/ \E party \in Name : ConnectParty(party)
    \/ \E n \in 0 .. MaxTriples : Preprocess(n)
    \/ \E party \in Name : RecordInput(party)
    \/ BeginOutput
    \/ Complete
    \/ Abort

Spec == Init /\ [][Next]_vars

-----------------------------------------------------------------------------

\* The computation is for as many different names as there are parties, each with its
\* input, however often one of them connects or sends it; and a session that was
\* aborted is never computing again.
ComputesForAll ==
    phase \in {"Computation", "OutputReconstruction"} =>
        /\ Cardinality(connectedParties) = NumParties
        /\ Cardinality(inputsReceived) = NumParties
        /\ ~aborted

-----------------------------------------------------------------------------

\* What makes the property inductive: no way leads back from the phases that complete()
\* and abort() set.
SessionInv ==
    /\ phase \in {"Setup", "Preprocessing", "InputSharing", "Computation",
                  "OutputReconstruction", "Complete", "Aborted"}
    /\ aborted => phase \in {"Complete", "Aborted"}
    /\ phase \in {"Preprocessing", "InputSharing", "Computation", "OutputReconstruction"} =>
          Cardinality(connectedParties) = NumParties
    /\ phase \in {"Computation", "OutputReconstruction"} =>
          Cardinality(inputsReceived) = NumParties

=============================================================================
