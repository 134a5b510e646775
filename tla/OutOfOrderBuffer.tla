-------------------------- MODULE OutOfOrderBuffer --------------------------
(***************************************************************************)
(* OutOfOrderBuffer of src/src/utils/pq-secure-messaging.ts: messages that *)
(* a network reorders and repeats are handed on in sequence.  A message is *)
(* its sequence number; "delivered" is what the calls of insert() have     *)
(* returned since the last reset().  A full buffer makes insert() throw,   *)
(* which changes nothing and is a stuttering step.                         *)
(***************************************************************************)
EXTENDS Naturals, Sequences, FiniteSets

CONSTANTS
    MaxBufferSize,  \* maxBufferSize
    MaxSeq,         \* bound: the messages of a stream
    MaxResets       \* bound: the calls of reset()

VARIABLES
    buffer,           \* the numbers of the buffered messages
    nextExpectedSeq,  \* the number to deliver next
    delivered,        \* the messages that insert() returned
    resets            \* how often reset() was called

vars == <<buffer, nextExpectedSeq, delivered, resets>>

SeqNum == 0 .. (MaxSeq - 1)

Init ==
    /\ buffer = {}
    /\ nextExpectedSeq = 0
    /\ delivered = << >>
    /\ resets = 0

\* Faulty variant: the last place in the buffer is never used.
AcceptsBelowLimit(s) ==
    /\ s >= nextExpectedSeq
    /\ s \in buffer \/ Cardinality(buffer) < MaxBufferSize - 1

Accepts(s) ==
    /\ s >= nextExpectedSeq
    /\ s \in buffer \/ Cardinality(buffer) < MaxBufferSize

\* Faulty variant: only the message that arrived is handed on.
DeliverOne(held, upTo) ==
    /\ delivered' = IF upTo > nextExpectedSeq
                    THEN Append(delivered, upTo - 1) ELSE delivered
    /\ buffer' = held \ (nextExpectedSeq .. (upTo - 1))
    /\ nextExpectedSeq' = upTo

\* The messages below upTo leave the buffer and are returned, in order.
Deliver(held, upTo) ==
    /\ delivered' = delivered \o
         [i \in 1 .. (upTo - nextExpectedSeq) |-> nextExpectedSeq + i - 1]
    /\ buffer' = held \ (nextExpectedSeq .. (upTo - 1))
    /\ nextExpectedSeq' = upTo

\* The loop stops at the first gap.
Insert(s) ==
    /\ Accepts(s)
    /\ \E gap \in nextExpectedSeq .. MaxSeq :
         /\ gap \notin buffer \cup {s}
         /\ nextExpectedSeq .. (gap - 1) \subseteq buffer \cup {s}
         /\ Deliver(buffer \cup {s}, gap)
    /\ UNCHANGED resets

\* Faulty variant: the expected number survives the reset.
ResetBufferOnly ==
    /\ resets < MaxResets
    /\ resets' = resets + 1
    /\ buffer' = {}
    /\ delivered' = << >>
    /\ UNCHANGED nextExpectedSeq

Reset ==
    /\ resets < MaxResets
    /\ resets' = resets + 1
    /\ buffer' = {}
    /\ nextExpectedSeq' = 0
    /\ delivered' = << >>

Next == Reset \/ \E s \in SeqNum : Insert(s)

Spec == Init /\ [][Next]_vars

\* The network delivers a message that is sent again and again.
FairSpec == Spec /\ \A s \in SeqNum : SF_vars(Insert(s))

-----------------------------------------------------------------------------
(* Properties.                                                             *)

\* What has been delivered is the stream up to the next expected message: no
\* gap, no repetition, no exchange, whatever the order of arrival.  Only messages
\* beyond it are held, and no more than maxBufferSize of them.
InSequence ==
    /\ \A s \in buffer : s > nextExpectedSeq
    /\ Cardinality(buffer) <= MaxBufferSize
    /\ Len(delivered) = nextExpectedSeq
    /\ \A i \in 1 .. Len(delivered) : delivered[i] = i - 1

\* "delivers them in order once gaps are filled": while every message keeps
\* arriving, the whole stream is delivered, unless the buffer fills up before the
\* gap does: then it refuses the one message that would empty it, for ever.
StreamCompletes ==
    <>[](nextExpectedSeq = MaxSeq \/ Cardinality(buffer) = MaxBufferSize)

=============================================================================
