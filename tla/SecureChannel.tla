--------------------------- MODULE SecureChannel ---------------------------
(***************************************************************************)
(* The transport channel of src/src/utils/pq-secure-messaging.ts: two      *)
(* SecureChannel objects, one per peer, that were built over the same pair *)
(* of directional keys and exchange AES-256-GCM frames over a network that *)
(* loses, duplicates and reorders.                                         *)
(*                                                                         *)
(* A key is the chain of fresh materials it was derived from: <<t>> is the *)
(* key a direction starts with, HKDF(material, k) is Append(k, material),  *)
(* and <<>> is the buffer of zeros that secureErase leaves.  GCM opens a   *)
(* frame exactly when the receiver holds the key that sealed it.           *)
(*                                                                         *)
(* A call that throws leaves the channel as it was, so it is a stuttering  *)
(* step here.  The heartbeat timestamps steer no transition and are left   *)
(* out; a heartbeat still consumes a sequence number on both sides.        *)
(***************************************************************************)
EXTENDS Naturals, Sequences, FiniteSets

CONSTANTS
    Peer,         \* the two ends of the channel
    WindowSize,   \* options.replayWindowSize
    MaxSeq,       \* bound: the frames one peer may seal
    Closer        \* of a teardown, the peer whose application ends the conversation

ASSUME PeerAssumption == \E a \in Peer, b \in Peer : a # b /\ Peer = {a, b}
ASSUME WindowAssumption == WindowSize \in Nat \ {0}
ASSUME MaxSeqAssumption == MaxSeq \in Nat
ASSUME CloserAssumption == Closer \in Peer

VARIABLES
    state,        \* ChannelState of each end
    sendKey,      \* the key each end seals with
    recvKey,      \* the key each end opens with
    sendSeqNum,   \* the sequence number of the next frame to seal
    window,       \* replayWindow: the accepted numbers not yet slid out
    windowBase,   \* replayWindowBase: everything below is refused
    net,          \* every frame ever sealed; any of them may arrive, again
    delivered     \* how often each number was handed to onMessage

vars == <<state, sendKey, recvKey, sendSeqNum, window, windowBase, net,
          delivered>>

Other(p) == CHOOSE q \in Peer : q # p

SeqNum == 0 .. (MaxSeq - 1)
State == {"ESTABLISHED", "CLOSING", "CLOSED"}
FrameType == {"DATA", "HEARTBEAT", "CLOSE", "CLOSE_ACK", "REKEY"}

\* 64 random bytes: number 0 is the material of the handshake, number s + 1
\* that of the rekey frame with sequence number s.
Material == [by : Peer, n : Nat]
Key == Seq(Material)

ErasedKey == << >>

\* Faulty variant: both directions start from the same half of the key
\* material.
FirstKeyShared(p) == <<[by |-> CHOOSE q \in Peer : TRUE, n |-> 0]>>
FirstKey(p) == <<[by |-> p, n |-> 0]>>

FreshMaterial(p, s) == [by |-> p, n |-> s + 1]
Derive(k, m) == Append(k, m)

\* A key that goes back to the handshake, and not to an erased buffer.
Live(k) == k # ErasedKey /\ Head(k).n = 0

\* l was derived from k.
Prefix(k, l) == Len(k) <= Len(l) /\ \A i \in 1 .. Len(k) : k[i] = l[i]

-----------------------------------------------------------------------------
(* Both ends start established, with the directional keys paired.          *)

Init ==
    /\ state = [p \in Peer |-> "ESTABLISHED"]
    /\ sendKey = [p \in Peer |-> FirstKey(p)]
    /\ recvKey = [p \in Peer |-> FirstKey(Other(p))]
    /\ sendSeqNum = [p \in Peer |-> 0]
    /\ window = [p \in Peer |-> {}]
    /\ windowBase = [p \in Peer |-> 0]
    /\ net = {}
    /\ delivered = [p \in Peer |-> [s \in SeqNum |-> 0]]

-----------------------------------------------------------------------------
(* Sealing.                                                                *)

\* The seal uses the key held before the call changes it.
EncryptFrame(p, type) ==
    /\ sendSeqNum[p] < MaxSeq
    /\ net' = net \cup {[from |-> p, key |-> sendKey[p],
                         seq |-> sendSeqNum[p], type |-> type]}
    /\ sendSeqNum' = [sendSeqNum EXCEPT ![p] = @ + 1]

\* Faulty variant: closing forgets the key it opens with.
PerformCloseKeepsRecvKey(p) ==
    /\ sendKey' = [sendKey EXCEPT ![p] = ErasedKey]
    /\ state' = [state EXCEPT ![p] = "CLOSED"]
    /\ window' = [window EXCEPT ![p] = {}]
    /\ UNCHANGED recvKey

PerformClose(p) ==
    /\ sendKey' = [sendKey EXCEPT ![p] = ErasedKey]
    /\ recvKey' = [recvKey EXCEPT ![p] = ErasedKey]
    /\ state' = [state EXCEPT ![p] = "CLOSED"]
    /\ window' = [window EXCEPT ![p] = {}]

\* Faulty variant: data is sealed in every state.
SendUnguarded(p) ==
    /\ EncryptFrame(p, "DATA")
    /\ UNCHANGED <<state, sendKey, recvKey, window, windowBase, delivered>>

Send(p) ==
    /\ state[p] = "ESTABLISHED"
    /\ EncryptFrame(p, "DATA")
    /\ UNCHANGED <<state, sendKey, recvKey, window, windowBase, delivered>>

SendHeartbeat(p) ==
    /\ state[p] = "ESTABLISHED"
    /\ EncryptFrame(p, "HEARTBEAT")
    /\ UNCHANGED <<state, sendKey, recvKey, window, windowBase, delivered>>

\* Faulty variant: the sender rekeys the direction it receives on as well.
RekeyBothKeys(p) ==
    /\ EncryptFrame(p, "REKEY")
    /\ sendKey' = [sendKey EXCEPT
                     ![p] = Derive(@, FreshMaterial(p, sendSeqNum[p]))]
    /\ recvKey' = [recvKey EXCEPT
                     ![p] = Derive(@, FreshMaterial(p, sendSeqNum[p]))]
    /\ UNCHANGED <<state, window, windowBase, delivered>>

\* No state is checked: a channel that is closing or closed rekeys too.
Rekey(p) ==
    /\ EncryptFrame(p, "REKEY")
    /\ sendKey' = [sendKey EXCEPT
                     ![p] = Derive(@, FreshMaterial(p, sendSeqNum[p]))]
    /\ UNCHANGED <<state, recvKey, window, windowBase, delivered>>

\* No state is checked: closing again is accepted, after CLOSED as well.
Close(p) ==
    /\ EncryptFrame(p, "CLOSE")
    /\ state' = [state EXCEPT ![p] = "CLOSING"]
    /\ UNCHANGED <<sendKey, recvKey, window, windowBase, delivered>>

\* Faulty variant: the keys are erased before the acknowledgement is sealed.
AcknowledgeCloseErased(p) ==
    /\ sendSeqNum[p] < MaxSeq
    /\ net' = net \cup {[from |-> p, key |-> ErasedKey,
                         seq |-> sendSeqNum[p], type |-> "CLOSE_ACK"]}
    /\ sendSeqNum' = [sendSeqNum EXCEPT ![p] = @ + 1]
    /\ PerformClose(p)
    /\ UNCHANGED <<windowBase, delivered>>

AcknowledgeClose(p) ==
    /\ EncryptFrame(p, "CLOSE_ACK")
    /\ PerformClose(p)
    /\ UNCHANGED <<windowBase, delivered>>

-----------------------------------------------------------------------------
(* Opening.                                                                *)

CheckReplayWindow(p, s) == s >= windowBase[p] /\ s \notin window[p]

\* The window once s is accepted: s joins it and, when s lies past its far
\* end, the base slides so that s is the last number inside.
Slides(p, s) == s >= windowBase[p] + WindowSize
\* Faulty variant: the base slides past the number that made it slide.
NewBaseSkips(p, s) == IF Slides(p, s) THEN s ELSE windowBase[p]

NewBase(p, s) == IF Slides(p, s) THEN s - WindowSize + 1 ELSE windowBase[p]
NewWindow(p, s) == {e \in window[p] \cup {s} : Slides(p, s) => e >= NewBase(p, s)}

\* Faulty variant: nothing is received while the channel is closing.
CanOpenEstablished(p, f) ==
    /\ f.from # p
    /\ state[p] = "ESTABLISHED"
    /\ CheckReplayWindow(p, f.seq)
    /\ f.key = recvKey[p]

\* The checks receive() makes before it looks at the frame's type.
CanOpen(p, f) ==
    /\ f.from # p
    /\ state[p] # "CLOSED"
    /\ CheckReplayWindow(p, f.seq)
    /\ f.key = recvKey[p]

AcceptSequenceNumber(p, s) ==
    /\ window' = [window EXCEPT ![p] = NewWindow(p, s)]
    /\ windowBase' = [windowBase EXCEPT ![p] = NewBase(p, s)]

ReceiveData(p, f) ==
    /\ f.type = "DATA"
    /\ CanOpen(p, f)
    /\ AcceptSequenceNumber(p, f.seq)
    /\ delivered' = [delivered EXCEPT ![p][f.seq] = @ + 1]
    /\ UNCHANGED <<state, sendKey, recvKey, sendSeqNum, net>>

ReceiveHeartbeat(p, f) ==
    /\ f.type = "HEARTBEAT"
    /\ CanOpen(p, f)
    /\ AcceptSequenceNumber(p, f.seq)
    /\ UNCHANGED <<state, sendKey, recvKey, sendSeqNum, net, delivered>>

ReceiveClose(p, f) ==
    /\ f.type = "CLOSE"
    /\ CanOpen(p, f)
    /\ AcceptSequenceNumber(p, f.seq)
    /\ state' = [state EXCEPT ![p] = "CLOSING"]
    /\ UNCHANGED <<sendKey, recvKey, sendSeqNum, net, delivered>>

\* performClose() empties the window that acceptSequenceNumber() just filled.
ReceiveCloseAck(p, f) ==
    /\ f.type = "CLOSE_ACK"
    /\ CanOpen(p, f)
    /\ windowBase' = [windowBase EXCEPT ![p] = NewBase(p, f.seq)]
    /\ PerformClose(p)
    /\ UNCHANGED <<sendSeqNum, net, delivered>>

ReceiveRekey(p, f) ==
    /\ f.type = "REKEY"
    /\ CanOpen(p, f)
    /\ AcceptSequenceNumber(p, f.seq)
    /\ recvKey' = [recvKey EXCEPT
                     ![p] = Derive(@, FreshMaterial(f.from, f.seq))]
    /\ UNCHANGED <<state, sendKey, sendSeqNum, net, delivered>>

Receive(p, f) ==
    \/ ReceiveData(p, f)
    \/ ReceiveHeartbeat(p, f)
    \/ ReceiveClose(p, f)
    \/ ReceiveCloseAck(p, f)
    \/ ReceiveRekey(p, f)

-----------------------------------------------------------------------------

Next ==
    \E p \in Peer :
        \/ Send(p)
        \/ SendHeartbeat(p)
        \/ Rekey(p)
        \/ Close(p)
        \/ AcknowledgeClose(p)
        \/ \E f \in net : Receive(p, f)

Spec == Init /\ [][Next]_vars

-----------------------------------------------------------------------------
(* The graceful teardown, as the two applications drive it over a          *)
(* transport that delivers in order and loses nothing: one peer calls      *)
(* close(), the other answers with acknowledgeClose() when it finds its    *)
(* channel CLOSING, and data goes out until then.                          *)

\* close() and acknowledgeClose() always find a sequence number to use.
Spare(p) == sendSeqNum[p] < MaxSeq - 1

HasClosed(p) == \E f \in net : f.from = p /\ f.type \in {"CLOSE", "CLOSE_ACK"}

\* In order: the number that follows all those that have arrived.
NextToArrive(p) == windowBase[p] + Cardinality(window[p])

Talk(p) ==
    /\ Spare(p)
    /\ ~HasClosed(p)
    /\ Send(p) \/ SendHeartbeat(p) \/ Rekey(p)

StartClose ==
    /\ ~HasClosed(Closer)
    /\ Close(Closer)

AnswerClose(p) ==
    /\ state[p] = "CLOSING"
    /\ ~HasClosed(p)
    /\ AcknowledgeClose(p)

Arrive(p) ==
    \E f \in net :
        /\ f.from # p
        /\ f.seq = NextToArrive(p)
        /\ Receive(p, f)

TeardownNext ==
    \/ StartClose
    \/ \E p \in Peer : Talk(p) \/ AnswerClose(p) \/ Arrive(p)

\* The transport delivers what was sent, and an application looks at the state
\* of its channel sooner or later.  Nobody is obliged to talk or to close.
Fairness == \A p \in Peer : WF_vars(Arrive(p)) /\ WF_vars(AnswerClose(p))

TeardownSpec == Init /\ [][TeardownNext]_vars /\ Fairness

-----------------------------------------------------------------------------
(* Properties.                                                             *)

\* The variables keep their types; a closed end has a closed window.
TypeOK ==
    /\ state \in [Peer -> State]
    /\ sendKey \in [Peer -> Key]
    /\ recvKey \in [Peer -> Key]
    /\ sendSeqNum \in [Peer -> 0 .. MaxSeq]
    /\ window \in [Peer -> SUBSET SeqNum]
    /\ windowBase \in [Peer -> Nat]
    /\ net \in SUBSET [from : Peer, key : Key, seq : SeqNum, type : FrameType]
    /\ delivered \in [Peer -> [SeqNum -> Nat]]

\* "Replay detection": whatever the network repeats, and although closing
\* empties the window and the channel can be closed again afterwards, no data
\* frame reaches onMessage twice.
AtMostOnce == \A p \in Peer, s \in SeqNum : delivered[p][s] <= 1

\* The sliding window never holds more than replayWindowSize numbers, and all
\* of them lie inside the span it stands for.
WindowBounded ==
    \A p \in Peer : \A e \in window[p] :
        windowBase[p] <= e /\ e < windowBase[p] + WindowSize

\* Under a key that goes back to the handshake, a sequence number (hence a GCM
\* nonce) seals one frame, in both directions together and across rekeys.
NonceUniqueLive ==
    \A f, g \in net : Live(f.key) /\ f.key = g.key /\ f.seq = g.seq => f = g

\* While neither end has erased its keys, the receiver's key is one the sender
\* holds or has gone through: a rekey that is late leaves the receiver behind,
\* never ahead and never on a branch of its own.
KeyAgreement ==
    \A p \in Peer :
        LET mine == recvKey[p]
            theirs == sendKey[Other(p)]
        IN  Live(mine) /\ Live(theirs) => Prefix(mine, theirs)

\* Why AtMostOnce survives reordering and the emptying of the window: an end
\* that could still open data refuses every number it has handed over.
RefusesWhatItTook ==
    \A p \in Peer, s \in SeqNum :
        Live(recvKey[p]) /\ delivered[p][s] > 0 => ~CheckReplayWindow(p, s)

\* What is sealed: one frame per number, data only under a key that is not
\* erased, and a direction's keys never under the other peer's name.
SealedFrames ==
    /\ \A f \in net : f.seq < sendSeqNum[f.from]
    /\ \A f, g \in net : f.from = g.from /\ f.seq = g.seq => f = g
    /\ \A f \in net : f.type = "DATA" => Live(f.key)
    /\ \A f \in net : Live(f.key) => Head(f.key).by = f.from
    /\ \A p \in Peer : state[p] = "ESTABLISHED" => Live(sendKey[p])
    /\ \A p \in Peer : Live(sendKey[p]) => Head(sendKey[p]).by = p

\* A rekey frame announces the key its sender went on to, so that an end that
\* processes it lands on the sender's chain.
RekeysAnnounced ==
    \A f \in net : f.type = "REKEY" /\ Live(sendKey[f.from]) =>
        Prefix(Derive(f.key, FreshMaterial(f.from, f.seq)), sendKey[f.from])

\* Sliding never gives up more than it must: a number that an end has not yet
\* seen is refused only if a frame WindowSize or more above it has arrived.
NoEarlyRefusal ==
    \A p \in Peer : windowBase[p] > 0 =>
        \E f \in net : f.from # p /\ f.seq = windowBase[p] + WindowSize - 1

\* The two channels implement an at-most-once channel that a peer stops feeding
\* when it begins to close: no data frame is sealed once the sender has left
\* ESTABLISHED, and what arrives is what the other end sealed, once.
Abstract ==
    INSTANCE AtMostOnceChannel WITH
        Number <- SeqNum,
        offered <- [p \in Peer |->
                      {f.seq : f \in {g \in net : g.from = p /\ g.type = "DATA"}}],
        taken <- delivered,
        speaking <- [p \in Peer |-> state[p] = "ESTABLISHED"]

ImplementsAtMostOnceChannel == Abstract!Spec

\* Once close() was called both ends reach CLOSED: the CLOSE, sealed before any
\* key is erased, opens at the other end, and so does the CLOSE_ACK, whatever
\* rekeys are under way in either direction.
CloseCompletes ==
    state[Closer] = "CLOSING" ~> \A p \in Peer : state[p] = "CLOSED"

\* The teardown is graceful: data sealed before its sender closed reaches the
\* other application, also when it arrives at a channel that is CLOSING.
SealedDataArrives ==
    \A p \in Peer, s \in SeqNum :
        [from |-> p, seq |-> s, type |-> "DATA"] \in
            {[from |-> f.from, seq |-> f.seq, type |-> f.type] : f \in net}
        ~> delivered[Other(p)][s] = 1

=============================================================================
