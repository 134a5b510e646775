--------------------------- MODULE HardwareModule ---------------------------
(***************************************************************************)
(* The simulated hardware security module of pq-certificate-authority.ts   *)
(* (HSMInterface): key slots behind a login, and an audit log.  Signing    *)
(* throws after the use was counted and before it was logged, because the  *)
(* key is given to the library where it wants the message.                 *)
(***************************************************************************)
EXTENDS Integers, Sequences, FiniteSets

CONSTANTS
    MaxSlots,   \* slots that the module has
    MaxKeys,    \* bound: keys that are ever generated
    MaxUses,    \* bound: how often a key is used
    MaxLog      \* bound: entries of the audit log

VARIABLES
    authenticated,
    slots,      \* the access counts of the keys, by slot number; -1 for no key
    generated,  \* how many keys were generated
    auditLog

vars == <<authenticated, slots, generated, auditLog>>

Slot == 1 .. MaxKeys
NoSlot == 0
Occupied == {s \in Slot : slots[s] >= 0}

Init ==
    /\ authenticated = FALSE
    /\ slots = [s \in Slot |-> -1]
    /\ generated = 0
    /\ auditLog = << >>

LogOperation(operation, slot, success) ==
    /\ Len(auditLog) < MaxLog
    /\ auditLog' = Append(auditLog, [operation |-> operation, slot |-> slot,
                                     success |-> success])

\* Faulty variant: a wrong PIN leaves an open session open.
LoginOr(correct) ==
    /\ authenticated' = (correct \/ authenticated)
    /\ LogOperation("LOGIN", NoSlot, correct)
    /\ UNCHANGED <<slots, generated>>

\* login(): a wrong PIN also ends a session that was open.
Login(correct) ==
    /\ authenticated' = correct
    /\ LogOperation("LOGIN", NoSlot, correct)
    /\ UNCHANGED <<slots, generated>>

Logout ==
    /\ authenticated' = FALSE
    /\ LogOperation("LOGOUT", NoSlot, TRUE)
    /\ UNCHANGED <<slots, generated>>

\* generateKeyPair(): slot numbers stand for the random slot names.
GenerateKeyPair ==
    /\ authenticated
    /\ generated < MaxKeys
    /\ Cardinality(Occupied) < MaxSlots
    /\ generated' = generated + 1
    /\ slots' = [slots EXCEPT ![generated + 1] = 0]
    /\ LogOperation("GENERATE_KEYPAIR", generated + 1, TRUE)
    /\ UNCHANGED authenticated

\* sign(): only the access count changes before the library throws.
Sign(slot) ==
    /\ authenticated
    /\ slot \in Occupied
    /\ slots[slot] < MaxUses
    /\ slots' = [slots EXCEPT ![slot] = @ + 1]
    /\ UNCHANGED <<authenticated, generated, auditLog>>

DestroyKey(slot) ==
    /\ authenticated
    /\ slot \in Occupied
    /\ slots' = [slots EXCEPT ![slot] = -1]
    /\ LogOperation("DESTROY_KEY", slot, TRUE)
    /\ UNCHANGED <<authenticated, generated>>

Next ==
    \/ \E correct \in BOOLEAN : Login(correct)
    \/ Logout
    \/ GenerateKeyPair
    \/ \E slot \in Slot : Sign(slot) \/ DestroyKey(slot)

Spec == Init /\ [][Next]_vars

-----------------------------------------------------------------------------

\* The entries of the log that tell of an operation on a slot.
Entries(operation, slot) ==
    {n \in DOMAIN auditLog : auditLog[n].operation = operation /\ auditLog[n].slot = slot}

\* Whether the log says that a slot holds a key.
Told(slot) ==
    Entries("GENERATE_KEYPAIR", slot) # {} /\ Entries("DESTROY_KEY", slot) = {}

Sessions == {n \in DOMAIN auditLog : auditLog[n].operation \in {"LOGIN", "LOGOUT"}}
Opened(n) == auditLog[n].operation = "LOGIN" /\ auditLog[n].success

\* The audit log explains the keys of the module: those are there that it calls generated
\* and not destroyed, and a key is generated or destroyed after a login that nothing has
\* ended since, neither a logout nor a failed login.  (Of their use it says nothing.)
AuditExplainsState ==
    /\ \A s \in Slot : s \in Occupied <=> Told(s)
    /\ \A n \in DOMAIN auditLog \ Sessions :
         \E m \in Sessions : /\ m < n /\ Opened(m)
                             /\ \A k \in Sessions : k <= m \/ n < k

-----------------------------------------------------------------------------

Operation == {"LOGIN", "LOGOUT", "GENERATE_KEYPAIR", "DESTROY_KEY"}

Entry == [operation : Operation, slot : Int, success : BOOLEAN]

TypeOK ==
    /\ authenticated \in BOOLEAN
    /\ slots \in [Slot -> Int]
    /\ generated \in 0 .. MaxKeys
    /\ auditLog \in Seq(Entry)

\* What makes it inductive: slots are numbered upwards, and a session that is open was
\* opened by the last entry that tells of one.
AuditInv ==
    /\ TypeOK
    /\ \A n \in DOMAIN auditLog : auditLog[n].slot <= generated
    /\ authenticated => \E m \in Sessions : Opened(m) /\ \A k \in Sessions : k <= m
    /\ AuditExplainsState

=============================================================================
