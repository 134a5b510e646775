---------------------------- MODULE MCMessaging ----------------------------
(***************************************************************************)
(* src/src/utils/pq-secure-messaging.ts: a SecureChannel between two       *)
(* model-value peers over a network that loses, repeats and reorders, or   *)
(* its teardown over one that does not; and by themselves the out-of-order *)
(* buffer, sessions, groups and the audit log.  A behaviour is one of the  *)
(* six; the variables of the others keep their first values.  No symmetry: *)
(* liveness is checked.                                                    *)
(***************************************************************************)
EXTENDS SecureChannel

CONSTANTS
    Initiator, Responder, Id, Event, None,
    MaxBufferSize, StreamLength, MaxResets,           \* of OutOfOrderBuffer
    MaxSkip, MaxSessions, MaxAnswers, MaxMessages,    \* of Session
    MaxEpoch, MaxPaths,                               \* of Groups
    MaxEntries                                        \* of AuditTrail

VARIABLES
    part,
    buffer, nextExpectedSeq, handedOn, resets,
    fresh, oneTimePreKey, sessions, answered, ratchet, sealed, opened, refused,
    group, updates, welcomes, paths, removals,
    entries, lastHmac, recorded

bufferVars == <<buffer, nextExpectedSeq, handedOn, resets>>
sessionVars == <<fresh, oneTimePreKey, sessions, answered, ratchet, sealed, opened, refused>>
groupVars == <<group, updates, welcomes, paths, removals>>
auditVars == <<entries, lastHmac, recorded>>
allVars == <<part, vars, bufferVars, sessionVars, groupVars, auditVars>>

Buffer == INSTANCE OutOfOrderBuffer
            WITH MaxSeq <- StreamLength, delivered <- handedOn
Sessions == INSTANCE Session WITH KeepsRootKey <- TRUE, net <- sealed
ASSUME SessionAssumption == Sessions!Assumed
Group == INSTANCE Groups
Audit == INSTANCE AuditTrail

MCInit ==
    /\ part \in {"channel", "teardown", "buffer", "session", "group", "audit"}
    /\ Init
    /\ Buffer!Init
    /\ Sessions!Init
    /\ Group!Init
    /\ Audit!Init

MCNext ==
    /\ part' = part
    /\ \/ /\ part = "channel"
          /\ Next
          /\ UNCHANGED <<bufferVars, sessionVars, groupVars, auditVars>>
       \/ /\ part = "teardown"
          /\ TeardownNext
          /\ UNCHANGED <<bufferVars, sessionVars, groupVars, auditVars>>
       \/ /\ part = "buffer"
          /\ Buffer!Next
          /\ UNCHANGED <<vars, sessionVars, groupVars, auditVars>>
       \/ /\ part = "session"
          /\ Sessions!Next
          /\ UNCHANGED <<vars, bufferVars, groupVars, auditVars>>
       \/ /\ part = "group"
          /\ Group!Next
          /\ UNCHANGED <<vars, bufferVars, sessionVars, auditVars>>
       \/ /\ part = "audit"
          /\ Audit!Next
          /\ UNCHANGED <<vars, bufferVars, sessionVars, groupVars>>

MCSpec ==
    /\ MCInit
    /\ [][MCNext]_allVars
    /\ \A s \in Buffer!SeqNum : SF_bufferVars(part = "buffer" /\ Buffer!Insert(s))
    /\ \A p \in Peer : /\ WF_vars(part = "teardown" /\ Arrive(p))
                       /\ WF_vars(part = "teardown" /\ AnswerClose(p))

-----------------------------------------------------------------------------

\* Of SecureChannel: a teardown that was begun ends on both sides, and what
\* was sealed before it arrives.
TeardownDelivers == part = "teardown" => CloseCompletes /\ SealedDataArrives

\* Of OutOfOrderBuffer: what was delivered is the stream without gap, repetition
\* or exchange, and the whole stream is delivered in the end.
BufferDelivers == part = "buffer" => ([]Buffer!InSequence /\ Buffer!StreamCompletes)

\* Of Session: one message for each message key, and each message is opened once
\* by whichever of its handshakes, in any order of arrival; what was erased
\* cannot be computed again; ends that agree on the handshake agree on the root
\* key, and the first message to arrive opens.
EachMessageOnce == Sessions!MessageKeysUnique /\ Sessions!OpenedOnce
ForwardSecrecy == Sessions!ForwardSecrecy
SessionsAgree == Sessions!RootKeysAgree /\ Sessions!FirstArrivalOpens

\* Of Groups: members of one epoch who came to it one way have its secret in
\* common, nobody who was removed has it, and members have leaves of their own.
GroupEpochsAgree == Group!GroupEpochsAgree /\ Group!LeavesDistinct

\* Of AuditTrail: whatever was done to the entries before the last is found.
TamperingFound == Audit!TamperingFound

=============================================================================
