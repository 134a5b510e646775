---------------------------- MODULE EchoBroadcast ----------------------------
(***************************************************************************)
(* BroadcastChannel of pq-secure-mpc.ts over its LatticeChannels: one      *)
(* party broadcasts, the others echo what they got.  The network delivers  *)
(* what was sent in any order, any number of times or never.  In the       *)
(* malicious model the broadcaster may also send what it likes on any      *)
(* channel.                                                                *)
(*                                                                         *)
(* A MAC or an AEAD tag is abstracted to: only what was sent is received,  *)
(* by the one it was sent to.                                              *)
(***************************************************************************)
EXTENDS Naturals, Sequences, FiniteSets, SequencesExt

CONSTANTS
    Receiver,   \* the other parties
    Payload,
    MaxSends    \* bound: messages on a channel

VARIABLES
    broadcastSeq,
    sendSeq,        \* of the channel to every receiver
    network,        \* everything that was ever sent
    recvSeq,        \* of the receiver's channel
    received,       \* what each receiver's processBroadcast() took, in order
    echoes,         \* the echoes returned
    equivocated     \* the broadcaster has sent something of its own

vars == <<broadcastSeq, sendSeq, network, recvSeq, received, echoes, equivocated>>

Number == 0 .. MaxSends - 1

\* The tagged payload of a broadcast.
Tagged(number, payload) == [number |-> number, payload |-> payload]

\* LatticeChannel.send()
Send(to, seq, content) == [to |-> to, seq |-> seq, content |-> content]

Init ==
    /\ broadcastSeq = 0
    /\ sendSeq = [r \in Receiver |-> 0]
    /\ network = {}
    /\ recvSeq = [r \in Receiver |-> 0]
    /\ received = [r \in Receiver |-> << >>]
    /\ echoes = {}
    /\ equivocated = FALSE

Broadcast(payload) ==
    /\ \A r \in Receiver : sendSeq[r] < MaxSends
    /\ network' = network \cup
         {Send(r, sendSeq[r], Tagged(broadcastSeq, payload)) : r \in Receiver}
    /\ sendSeq' = [r \in Receiver |-> sendSeq[r] + 1]
    /\ broadcastSeq' = broadcastSeq + 1
    /\ UNCHANGED <<recvSeq, received, echoes, equivocated>>

\* A broadcaster that does not keep to broadcast().
Equivocate(to, number, payload) ==
    /\ sendSeq[to] < MaxSends
    /\ network' = network \cup {Send(to, sendSeq[to], Tagged(number, payload))}
    /\ sendSeq' = [sendSeq EXCEPT ![to] = @ + 1]
    /\ equivocated' = TRUE
    /\ UNCHANGED <<broadcastSeq, recvSeq, received, echoes>>

\* Faulty variant: the hash leaves out the tag.
EchoOfPayload(party, content) == <<party, content.payload>>

\* The hash of party and tagged payload.
Echo(party, content) == <<party, content>>

\* LatticeChannel.receive(): from the next number on, so what was overtaken is refused.
Fresh(message) == message.seq >= recvSeq[message.to]

ProcessBroadcast(message) ==
    /\ Fresh(message)
    /\ recvSeq' = [recvSeq EXCEPT ![message.to] = message.seq + 1]
    /\ received' = [received EXCEPT ![message.to] = Append(@, message.content)]
    /\ echoes' = echoes \cup {Echo(message.to, message.content)}
    /\ UNCHANGED <<broadcastSeq, sendSeq, network, equivocated>>

Next ==
    \/ \E payload \in Payload : Broadcast(payload)
    \/ \E to \in Receiver, number \in Number, payload \in Payload :
          Equivocate(to, number, payload)
    \/ \E message \in network : ProcessBroadcast(message)

Spec == Init /\ [][Next]_vars

-----------------------------------------------------------------------------

\* verifyEchoes(): of the echoes it is given, one by party.
VerifyEchoes(given, expected) == \A p \in DOMAIN given : given[p] = Echo(p, expected)

\* Echoes that verify come from parties that received this very broadcast, also from
\* a broadcaster that tells them different things, and whatever was replayed.  What an
\* honest one broadcast is received in its order, each at most once.
EchoesAgree ==
    /\ \A parties \in SUBSET Receiver, number \in Number, payload \in Payload :
         LET expected == Tagged(number, payload)
         IN  (\E given \in [parties -> echoes] : VerifyEchoes(given, expected)) =>
                 \A p \in parties : expected \in ToSet(received[p])
    /\ ~equivocated =>
         \A r \in Receiver : \A m, n \in DOMAIN received[r] :
             m < n => received[r][m].number < received[r][n].number

-----------------------------------------------------------------------------

Content == [number : Nat, payload : Payload]
Message == [to : Receiver, seq : Nat, content : Content]

EchoTypeOK ==
    /\ broadcastSeq \in Nat
    /\ sendSeq \in [Receiver -> Nat]
    /\ recvSeq \in [Receiver -> Nat]
    /\ network \subseteq Message
    /\ received \in [Receiver -> Seq(Content)]
    /\ equivocated \in BOOLEAN

\* What makes the property inductive: every echo is of something received, and an honest
\* broadcaster's numbers are those of its channels.
EchoInv ==
    /\ EchoTypeOK
    /\ \A e \in echoes : \E r \in Receiver : \E n \in DOMAIN received[r] :
          e = Echo(r, received[r][n])
    /\ ~equivocated =>
         /\ \A r \in Receiver : sendSeq[r] = broadcastSeq
         /\ \A message \in network : message.content.number = message.seq
         /\ \A r \in Receiver : \A n \in DOMAIN received[r] : received[r][n].number < recvSeq[r]
         /\ \A r \in Receiver : \A m, n \in DOMAIN received[r] :
              m < n => received[r][m].number < received[r][n].number

=============================================================================
