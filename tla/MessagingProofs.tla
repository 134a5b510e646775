-------------------------- MODULE MessagingProofs --------------------------
(***************************************************************************)
(* Theorems about the secure messaging: SecureChannel, for every pair of   *)
(* peers, every window size and every number of frames; OutOfOrderBuffer,  *)
(* for every size and stream; Groups and AuditTrail, of any length; and    *)
(* the parts of MCMessaging together.                                      *)
(***************************************************************************)
EXTENDS MCMessaging, FiniteSetTheorems, WellFoundedInduction, TLAPS

\* There is exactly one other end.
LEMMA OtherEnd ==
    ASSUME NEW p \in Peer
    PROVE  /\ Other(p) \in Peer
           /\ Other(p) # p
           /\ \A q \in Peer : q # p => q = Other(p)
BY PeerAssumption DEF Other

\* Derivation keeps a live key live, with the same origin, and never revives
\* an erased one.
LEMMA DeriveKeys ==
    ASSUME NEW k \in Key, NEW p \in Peer, NEW s \in Nat
    PROVE  LET d == Derive(k, FreshMaterial(p, s))
           IN  /\ d \in Key
               /\ d # ErasedKey
               /\ Live(d) <=> Live(k)
               /\ Live(k) => Head(d).by = Head(k).by
BY DEF Derive, FreshMaterial, Key, Material, Live, ErasedKey

\* The two ends of a handshake hold live keys named after their sender.
LEMMA FirstKeys ==
    ASSUME NEW p \in Peer
    PROVE  FirstKey(p) \in Key /\ Live(FirstKey(p)) /\ Head(FirstKey(p)).by = p
BY DEF FirstKey, Key, Material, Live, ErasedKey

\* The erased buffer is a key, and not a live one.
LEMMA Erased == ErasedKey \in Key /\ ~Live(ErasedKey)
BY DEF ErasedKey, Key, Live

\* The fields of a frame on the network.
LEMMA FrameTyped ==
    ASSUME TypeOK, NEW f \in net
    PROVE  f.seq \in SeqNum /\ f.seq \in Nat /\ f.from \in Peer /\ f.key \in Key
<1>1. f \in [from : Peer, key : Key, seq : SeqNum, type : FrameType]
  BY DEF TypeOK
<1> QED
  BY <1>1, MaxSeqAssumption DEF SeqNum

\* Sliding keeps the window a set of numbers and never moves it back.
LEMMA Sliding ==
    ASSUME NEW p \in Peer, NEW s \in SeqNum, TypeOK, CheckReplayWindow(p, s)
    PROVE  /\ NewBase(p, s) \in Nat
           /\ NewBase(p, s) >= windowBase[p]
           /\ NewWindow(p, s) \in SUBSET SeqNum
           /\ \A e \in SeqNum : e \in window[p] \/ e = s =>
                 e \in NewWindow(p, s) \/ e < NewBase(p, s)
BY WindowAssumption, MaxSeqAssumption
   DEF NewBase, NewWindow, Slides, SeqNum, TypeOK, CheckReplayWindow

-----------------------------------------------------------------------------
(* Type correctness.                                                       *)

LEMMA SealTyped ==
    ASSUME TypeOK, NEW p \in Peer, NEW t \in FrameType, EncryptFrame(p, t)
    PROVE  /\ sendSeqNum' \in [Peer -> 0 .. MaxSeq]
           /\ net' \in SUBSET [from : Peer, key : Key, seq : SeqNum, type : FrameType]
<1>1. sendSeqNum[p] \in SeqNum /\ sendSeqNum[p] + 1 \in 0 .. MaxSeq
  BY MaxSeqAssumption DEF TypeOK, EncryptFrame, SeqNum
<1>2. sendKey[p] \in Key
  BY DEF TypeOK
<1>3. [from |-> p, key |-> sendKey[p], seq |-> sendSeqNum[p], type |-> t]
        \in [from : Peer, key : Key, seq : SeqNum, type : FrameType]
  BY <1>1, <1>2
<1> QED
  BY <1>1, <1>3 DEF TypeOK, EncryptFrame

LEMMA CloseTyped ==
    ASSUME TypeOK, NEW p \in Peer, PerformClose(p)
    PROVE  /\ state' \in [Peer -> State]
           /\ sendKey' \in [Peer -> Key]
           /\ recvKey' \in [Peer -> Key]
           /\ window' \in [Peer -> SUBSET SeqNum]
BY Erased DEF TypeOK, PerformClose, State

LEMMA AcceptTyped ==
    ASSUME TypeOK, NEW p \in Peer, NEW f \in net, CanOpen(p, f)
    PROVE  /\ f.seq \in SeqNum
           /\ f.from \in Peer
           /\ [windowBase EXCEPT ![p] = NewBase(p, f.seq)] \in [Peer -> Nat]
           /\ [window EXCEPT ![p] = NewWindow(p, f.seq)]
                 \in [Peer -> SUBSET SeqNum]
<1>1. f.seq \in SeqNum /\ f.from \in Peer
  BY DEF TypeOK
<1> QED
  BY <1>1, Sliding DEF TypeOK, CanOpen

\* Type correctness of the channel.
THEOREM TypeCorrect == Spec => []TypeOK
<1>1. Init => TypeOK
  BY FirstKeys, OtherEnd, MaxSeqAssumption DEF Init, TypeOK, State
<1>2. TypeOK /\ [Next]_vars => TypeOK'
  <2> SUFFICES ASSUME TypeOK, [Next]_vars PROVE TypeOK'
    OBVIOUS
  <2>1. ASSUME NEW p \in Peer, Send(p) PROVE TypeOK'
    BY <2>1, SealTyped DEF Send, TypeOK, FrameType
  <2>2. ASSUME NEW p \in Peer, SendHeartbeat(p) PROVE TypeOK'
    BY <2>2, SealTyped DEF SendHeartbeat, TypeOK, FrameType
  <2>3. ASSUME NEW p \in Peer, Rekey(p) PROVE TypeOK'
    <3>1. sendSeqNum[p] \in Nat /\ sendKey[p] \in Key
      BY MaxSeqAssumption DEF TypeOK
    <3>2. sendKey' \in [Peer -> Key]
      BY <2>3, <3>1, DeriveKeys DEF Rekey, TypeOK
    <3> QED
      BY <2>3, <3>2, SealTyped DEF Rekey, TypeOK, FrameType
  <2>4. ASSUME NEW p \in Peer, Close(p) PROVE TypeOK'
    BY <2>4, SealTyped DEF Close, TypeOK, FrameType, State
  <2>5. ASSUME NEW p \in Peer, AcknowledgeClose(p) PROVE TypeOK'
    BY <2>5, SealTyped, CloseTyped DEF AcknowledgeClose, TypeOK, FrameType
  <2>6. ASSUME NEW p \in Peer, NEW f \in net, ReceiveData(p, f) PROVE TypeOK'
    BY <2>6, AcceptTyped DEF ReceiveData, AcceptSequenceNumber, TypeOK
  <2>7. ASSUME NEW p \in Peer, NEW f \in net, ReceiveHeartbeat(p, f) PROVE TypeOK'
    BY <2>7, AcceptTyped DEF ReceiveHeartbeat, AcceptSequenceNumber, TypeOK
  <2>8. ASSUME NEW p \in Peer, NEW f \in net, ReceiveClose(p, f) PROVE TypeOK'
    BY <2>8, AcceptTyped DEF ReceiveClose, AcceptSequenceNumber, TypeOK, State
  <2>9. ASSUME NEW p \in Peer, NEW f \in net, ReceiveCloseAck(p, f) PROVE TypeOK'
    BY <2>9, AcceptTyped, CloseTyped DEF ReceiveCloseAck, TypeOK
  <2>10. ASSUME NEW p \in Peer, NEW f \in net, ReceiveRekey(p, f) PROVE TypeOK'
    <3>1. f.seq \in Nat /\ f.from \in Peer /\ recvKey[p] \in Key
      BY FrameTyped DEF TypeOK
    <3>2. recvKey' \in [Peer -> Key]
      BY <2>10, <3>1, DeriveKeys DEF ReceiveRekey, TypeOK
    <3> QED
      BY <2>10, <3>2, AcceptTyped
      DEF ReceiveRekey, AcceptSequenceNumber, TypeOK
  <2>11. CASE UNCHANGED vars
    BY <2>11 DEF vars, TypeOK
  <2> QED
    BY <2>1, <2>2, <2>3, <2>4, <2>5, <2>6, <2>7, <2>8, <2>9, <2>10, <2>11
    DEF Next, Receive
<1> QED
  BY <1>1, <1>2, PTL DEF Spec

-----------------------------------------------------------------------------
(* What is sealed.                                                         *)

\* One more frame under the next number keeps SealedFrames, whatever becomes of
\* the keys, provided the frame's key and the new keys are in order.
LEMMA SealStep ==
    ASSUME TypeOK, SealedFrames, NEW p \in Peer, NEW t \in FrameType,
           EncryptFrame(p, t),
           t = "DATA" => Live(sendKey[p]),
           \A q \in Peer : state'[q] = "ESTABLISHED" => Live(sendKey'[q]),
           \A q \in Peer : Live(sendKey'[q]) => Head(sendKey'[q]).by = q
    PROVE  SealedFrames'
<1> DEFINE new == [from |-> p, key |-> sendKey[p], seq |-> sendSeqNum[p], type |-> t]
<1>1. /\ net' = net \cup {new}
      /\ new.from = p /\ new.key = sendKey[p] /\ new.seq = sendSeqNum[p] /\ new.type = t
      /\ sendSeqNum'[p] = sendSeqNum[p] + 1
      /\ \A q \in Peer : q # p => sendSeqNum'[q] = sendSeqNum[q]
      /\ \A q \in Peer : sendSeqNum[q] \in Nat
  BY MaxSeqAssumption DEF EncryptFrame, TypeOK
<1>2. \A f \in net : f.from \in Peer /\ f.seq \in Nat /\ f.seq < sendSeqNum[f.from]
  BY DEF TypeOK, SeqNum, SealedFrames
<1> HIDE DEF new
<1>3. \A f \in net' : f.seq < sendSeqNum'[f.from]
  BY <1>1, <1>2
<1>4. \A f, g \in net' : f.from = g.from /\ f.seq = g.seq => f = g
  BY <1>1, <1>2 DEF SealedFrames
<1>5. \A f \in net' : f.type = "DATA" => Live(f.key)
  BY <1>1 DEF SealedFrames
<1>6. \A f \in net' : Live(f.key) => Head(f.key).by = f.from
  BY <1>1 DEF SealedFrames
<1> QED
  BY <1>3, <1>4, <1>5, <1>6 DEF SealedFrames

\* A step that seals nothing keeps SealedFrames if no channel becomes
\* ESTABLISHED and the send keys stay or are erased.
LEMMA QuietStep ==
    ASSUME SealedFrames, UNCHANGED <<net, sendSeqNum>>,
           \A q \in Peer : state'[q] = "ESTABLISHED" =>
                state[q] = "ESTABLISHED" /\ sendKey'[q] = sendKey[q],
           \A q \in Peer : sendKey'[q] = sendKey[q] \/ sendKey'[q] = ErasedKey
    PROVE  SealedFrames'
BY Erased DEF SealedFrames

THEOREM FramesInOrder == Spec => []SealedFrames
<1>1. Init => SealedFrames
  BY FirstKeys DEF Init, SealedFrames
<1>2. TypeOK /\ SealedFrames /\ [Next]_vars => SealedFrames'
  <2> SUFFICES ASSUME TypeOK, SealedFrames, [Next]_vars PROVE SealedFrames'
    OBVIOUS
  <2>0. /\ \A q \in Peer : state[q] = "ESTABLISHED" => Live(sendKey[q])
        /\ \A q \in Peer : Live(sendKey[q]) => Head(sendKey[q]).by = q
    BY DEF SealedFrames
  <2>1. ASSUME NEW p \in Peer, Send(p) PROVE SealedFrames'
    BY <2>0, <2>1, SealStep DEF Send, FrameType
  <2>2. ASSUME NEW p \in Peer, SendHeartbeat(p) PROVE SealedFrames'
    BY <2>0, <2>2, SealStep DEF SendHeartbeat, FrameType
  <2>3. ASSUME NEW p \in Peer, Rekey(p) PROVE SealedFrames'
    <3>1. sendSeqNum[p] \in Nat /\ sendKey[p] \in Key
      BY MaxSeqAssumption DEF TypeOK
    <3>2. /\ sendKey'[p] = Derive(sendKey[p], FreshMaterial(p, sendSeqNum[p]))
          /\ \A q \in Peer : q # p => sendKey'[q] = sendKey[q]
          /\ state' = state
      BY <2>3 DEF Rekey, TypeOK
    <3>3. /\ Live(sendKey'[p]) <=> Live(sendKey[p])
          /\ Live(sendKey[p]) => Head(sendKey'[p]).by = Head(sendKey[p]).by
      BY <3>1, <3>2, DeriveKeys
    <3> QED
      BY <2>0, <2>3, <3>2, <3>3, SealStep DEF Rekey, FrameType
  <2>4. ASSUME NEW p \in Peer, Close(p) PROVE SealedFrames'
    <3>1. \A q \in Peer : state'[q] = "ESTABLISHED" => state[q] = "ESTABLISHED"
      BY <2>4 DEF Close, TypeOK
    <3> QED
      BY <2>0, <2>4, <3>1, SealStep DEF Close, FrameType
  <2>5. ASSUME NEW p \in Peer, AcknowledgeClose(p) PROVE SealedFrames'
    <3>1. \A q \in Peer : state'[q] = "ESTABLISHED" =>
              state[q] = "ESTABLISHED" /\ sendKey'[q] = sendKey[q]
      BY <2>5 DEF AcknowledgeClose, PerformClose, TypeOK
    <3>2. \A q \in Peer : sendKey'[q] = sendKey[q] \/ sendKey'[q] = ErasedKey
      BY <2>5 DEF AcknowledgeClose, PerformClose, TypeOK
    <3> QED
      BY <2>0, <2>5, <3>1, <3>2, SealStep, Erased DEF AcknowledgeClose, FrameType
  <2>6. ASSUME NEW p \in Peer, NEW f \in net, Receive(p, f) PROVE SealedFrames'
    <3>1. UNCHANGED <<net, sendSeqNum>>
      BY <2>6 DEF Receive, ReceiveData, ReceiveHeartbeat, ReceiveClose,
                  ReceiveCloseAck, ReceiveRekey
    <3>2. /\ \A q \in Peer : state'[q] = "ESTABLISHED" =>
                state[q] = "ESTABLISHED" /\ sendKey'[q] = sendKey[q]
          /\ \A q \in Peer : sendKey'[q] = sendKey[q] \/ sendKey'[q] = ErasedKey
      BY <2>6 DEF Receive, ReceiveData, ReceiveHeartbeat, ReceiveClose,
                  ReceiveCloseAck, ReceiveRekey, PerformClose, TypeOK
    <3> QED
      BY <3>1, <3>2, QuietStep
  <2>7. CASE UNCHANGED vars
    BY <2>7 DEF vars, SealedFrames
  <2> QED
    BY <2>1, <2>2, <2>3, <2>4, <2>5, <2>6, <2>7 DEF Next
<1> QED
  BY <1>1, <1>2, TypeCorrect, PTL DEF Spec

\* No GCM nonce is used twice under a key that goes back to the handshake: the
\* key's origin names the sender, and a sender's numbers are all different.
THEOREM NoncesUnique == Spec => []NonceUniqueLive
<1>1. SealedFrames => NonceUniqueLive
  BY DEF SealedFrames, NonceUniqueLive
<1> QED
  BY <1>1, FramesInOrder, PTL

-----------------------------------------------------------------------------
(* At most once.                                                           *)

DeliveryInv == RefusesWhatItTook /\ AtMostOnce

\* Accepting a number that passed the check keeps every refusal.
LEMMA StillRefuses ==
    ASSUME TypeOK, TypeOK', NEW p \in Peer, NEW f \in net, CanOpen(p, f),
           AcceptSequenceNumber(p, f.seq),
           NEW q \in Peer, NEW s \in SeqNum,
           ~CheckReplayWindow(q, s) \/ (q = p /\ s = f.seq)
    PROVE  ~CheckReplayWindow(q, s)'
<1>1. f.seq \in SeqNum /\ CheckReplayWindow(p, f.seq)
  BY DEF TypeOK, CanOpen
<1>2. /\ window'[p] = NewWindow(p, f.seq)
      /\ windowBase'[p] = NewBase(p, f.seq)
      /\ q # p => window'[q] = window[q] /\ windowBase'[q] = windowBase[q]
  BY DEF AcceptSequenceNumber, TypeOK
<1>3. CASE q # p
  BY <1>2, <1>3 DEF CheckReplayWindow
<1>4. CASE q = p
  <2>1. s < windowBase[p] \/ s \in window[p] \/ s = f.seq
    BY <1>4 DEF CheckReplayWindow, TypeOK, SeqNum
  <2>2. /\ NewBase(p, f.seq) \in Nat
        /\ NewBase(p, f.seq) >= windowBase[p]
        /\ s \in window[p] \/ s = f.seq =>
              s \in NewWindow(p, f.seq) \/ s < NewBase(p, f.seq)
    BY <1>1, Sliding
  <2>3. s < windowBase[p] => s < NewBase(p, f.seq)
    BY <2>2 DEF TypeOK, SeqNum
  <2> QED
    BY <1>2, <1>4, <2>1, <2>2, <2>3 DEF CheckReplayWindow, SeqNum
<1> QED
  BY <1>3, <1>4

\* The message types that hand nothing over.
LEMMA SilentStep ==
    ASSUME TypeOK, TypeOK', DeliveryInv, delivered' = delivered,
           NEW p \in Peer,
           \A q \in Peer : Live(recvKey'[q]) => Live(recvKey[q]),
           \A q \in Peer : Live(recvKey'[q]) =>
               \/ UNCHANGED <<window, windowBase>>
               \/ q # p /\ window'[q] = window[q] /\ windowBase'[q] = windowBase[q]
               \/ \E f \in net : CanOpen(p, f) /\ AcceptSequenceNumber(p, f.seq)
    PROVE  DeliveryInv'
<1>1. AtMostOnce'
  BY DEF DeliveryInv, AtMostOnce
<1>2. ASSUME NEW q \in Peer, NEW s \in SeqNum, Live(recvKey'[q]), delivered[q][s] > 0
      PROVE  ~CheckReplayWindow(q, s)'
  <2>1. ~CheckReplayWindow(q, s)
    BY <1>2 DEF DeliveryInv, RefusesWhatItTook
  <2>2. CASE UNCHANGED <<window, windowBase>>
    BY <2>1, <2>2 DEF CheckReplayWindow
  <2>3. CASE q # p /\ window'[q] = window[q] /\ windowBase'[q] = windowBase[q]
    BY <2>1, <2>3 DEF CheckReplayWindow
  <2>4. CASE \E f \in net : CanOpen(p, f) /\ AcceptSequenceNumber(p, f.seq)
    BY <2>1, <2>4, StillRefuses
  <2> QED
    BY <1>2, <2>2, <2>3, <2>4
<1> QED
  BY <1>1, <1>2 DEF DeliveryInv, RefusesWhatItTook

THEOREM DeliverySafe == Spec => []DeliveryInv
<1>1. Init => DeliveryInv
  BY DEF Init, DeliveryInv, RefusesWhatItTook, AtMostOnce
<1>2. TypeOK /\ TypeOK' /\ SealedFrames /\ DeliveryInv /\ [Next]_vars => DeliveryInv'
  <2> SUFFICES ASSUME TypeOK, TypeOK', SealedFrames, DeliveryInv, [Next]_vars
               PROVE  DeliveryInv'
    OBVIOUS
  <2>1. ASSUME NEW p \in Peer, Send(p) \/ SendHeartbeat(p) \/ Rekey(p) \/ Close(p)
        PROVE  DeliveryInv'
    BY <2>1, SilentStep DEF Send, SendHeartbeat, Rekey, Close
  <2>2. ASSUME NEW p \in Peer, PerformClose(p), delivered' = delivered,
               \A q \in Peer : q # p => windowBase'[q] = windowBase[q]
        PROVE  DeliveryInv'
    <3>1. /\ ~Live(recvKey'[p])
          /\ \A q \in Peer : q # p => recvKey'[q] = recvKey[q] /\ window'[q] = window[q]
      BY <2>2, Erased DEF PerformClose, TypeOK
    <3> QED
      BY <2>2, <3>1, SilentStep
  <2>3. ASSUME NEW p \in Peer, AcknowledgeClose(p) PROVE DeliveryInv'
    BY <2>2, <2>3 DEF AcknowledgeClose
  <2>4. ASSUME NEW p \in Peer, NEW f \in net, ReceiveCloseAck(p, f) PROVE DeliveryInv'
    BY <2>2, <2>4 DEF ReceiveCloseAck, TypeOK
  <2>5. ASSUME NEW p \in Peer, NEW f \in net, ReceiveHeartbeat(p, f) \/ ReceiveClose(p, f)
        PROVE  DeliveryInv'
    BY <2>5, SilentStep DEF ReceiveHeartbeat, ReceiveClose
  <2>6. ASSUME NEW p \in Peer, NEW f \in net, ReceiveRekey(p, f) PROVE DeliveryInv'
    <3>1. f.seq \in Nat /\ f.from \in Peer /\ recvKey[p] \in Key
      BY FrameTyped DEF TypeOK
    <3>2. \A q \in Peer : Live(recvKey'[q]) => Live(recvKey[q])
      BY <2>6, <3>1, DeriveKeys, ZenonT(40) DEF ReceiveRekey, TypeOK
    <3> QED
      BY <2>6, <3>2, SilentStep DEF ReceiveRekey
  <2>7. ASSUME NEW p \in Peer, NEW f \in net, ReceiveData(p, f) PROVE DeliveryInv'
    <3>1. /\ f.seq \in SeqNum /\ CanOpen(p, f) /\ AcceptSequenceNumber(p, f.seq)
          /\ recvKey' = recvKey
          /\ delivered' = [delivered EXCEPT ![p][f.seq] = @ + 1]
      BY <2>7 DEF ReceiveData, TypeOK
    <3>2. Live(recvKey[p])
      BY <2>7 DEF ReceiveData, CanOpen, SealedFrames
    <3>3. delivered[p][f.seq] = 0
      BY <3>1, <3>2 DEF DeliveryInv, RefusesWhatItTook, CanOpen, TypeOK
    <3>4. \A q \in Peer, s \in SeqNum :
              delivered'[q][s] = IF q = p /\ s = f.seq THEN 1 ELSE delivered[q][s]
      BY <3>1, <3>3 DEF TypeOK
    <3>5. AtMostOnce'
      BY <3>4 DEF DeliveryInv, AtMostOnce
    <3>6. ASSUME NEW q \in Peer, NEW s \in SeqNum,
                 Live(recvKey[q]), delivered'[q][s] > 0
          PROVE  ~CheckReplayWindow(q, s)'
      <4>1. ~CheckReplayWindow(q, s) \/ (q = p /\ s = f.seq)
        BY <3>4, <3>6 DEF DeliveryInv, RefusesWhatItTook
      <4> QED
        BY <3>1, <4>1, StillRefuses
    <3> QED
      BY <3>1, <3>5, <3>6 DEF DeliveryInv, RefusesWhatItTook
  <2>8. CASE UNCHANGED vars
    BY <2>8 DEF vars, DeliveryInv, RefusesWhatItTook, AtMostOnce, CheckReplayWindow
  <2> QED
    BY <2>1, <2>3, <2>4, <2>5, <2>6, <2>7, <2>8 DEF Next, Receive
<1> QED
  BY <1>1, <1>2, TypeCorrect, FramesInOrder, PTL DEF Spec

\* No data frame reaches onMessage twice.
THEOREM TakenOnce == Spec => []AtMostOnce
BY DeliverySafe, PTL DEF DeliveryInv

-----------------------------------------------------------------------------
(* The replay window.                                                      *)

WindowInv == WindowBounded /\ NoEarlyRefusal

\* Accepting the number of a frame keeps both bounds of the window.
LEMMA AcceptStep ==
    ASSUME TypeOK, WindowInv, NEW p \in Peer, NEW f \in net, f.from # p,
           CheckReplayWindow(p, f.seq), net' = net,
           window'[p] = NewWindow(p, f.seq) \/ window'[p] = {},
           windowBase'[p] = NewBase(p, f.seq),
           \A q \in Peer : q # p =>
               window'[q] = window[q] /\ windowBase'[q] = windowBase[q]
    PROVE  WindowInv'
<1>0. /\ f.seq \in Nat /\ windowBase[p] \in Nat /\ WindowSize \in Nat \ {0}
      /\ f.seq >= windowBase[p]
  BY FrameTyped, WindowAssumption DEF TypeOK, CheckReplayWindow
<1>1. \A e \in NewWindow(p, f.seq) :
          NewBase(p, f.seq) <= e /\ e < NewBase(p, f.seq) + WindowSize
  <2> SUFFICES ASSUME NEW e \in NewWindow(p, f.seq)
               PROVE  NewBase(p, f.seq) <= e /\ e < NewBase(p, f.seq) + WindowSize
    OBVIOUS
  <2>1. /\ e = f.seq \/ (windowBase[p] <= e /\ e < windowBase[p] + WindowSize)
        /\ Slides(p, f.seq) => e >= NewBase(p, f.seq)
    BY DEF NewWindow, WindowInv, WindowBounded
  <2>2. e \in Nat
    BY <1>0 DEF NewWindow, TypeOK, SeqNum
  <2> QED
    BY <1>0, <2>1, <2>2 DEF NewBase, Slides
<1>2. NewBase(p, f.seq) > 0 =>
          \E g \in net : g.from # p /\ g.seq = NewBase(p, f.seq) + WindowSize - 1
  <2>1. CASE Slides(p, f.seq)
    BY <1>0, <2>1 DEF NewBase
  <2>2. CASE ~Slides(p, f.seq)
    BY <2>2 DEF NewBase, WindowInv, NoEarlyRefusal
  <2> QED
    BY <2>1, <2>2
<1>3. WindowBounded'
  BY <1>1 DEF WindowInv, WindowBounded
<1>4. NoEarlyRefusal'
  BY <1>2 DEF WindowInv, NoEarlyRefusal
<1> QED
  BY <1>3, <1>4 DEF WindowInv

THEOREM WindowSafe == Spec => []WindowInv
<1>1. Init => WindowInv
  BY DEF Init, WindowInv, WindowBounded, NoEarlyRefusal
<1>2. TypeOK /\ WindowInv /\ [Next]_vars => WindowInv'
  <2> SUFFICES ASSUME TypeOK, WindowInv, [Next]_vars PROVE WindowInv'
    OBVIOUS
  <2>1. ASSUME net \subseteq net', windowBase' = windowBase,
               \A q \in Peer : window'[q] = window[q] \/ window'[q] = {}
        PROVE  WindowInv'
    BY <2>1 DEF WindowInv, WindowBounded, NoEarlyRefusal
  <2>2. ASSUME NEW p \in Peer,
               Send(p) \/ SendHeartbeat(p) \/ Rekey(p) \/ Close(p) \/ AcknowledgeClose(p)
        PROVE  WindowInv'
    BY <2>1, <2>2 DEF Send, SendHeartbeat, Rekey, Close, AcknowledgeClose,
                      EncryptFrame, PerformClose, TypeOK
  <2>3. ASSUME NEW p \in Peer, NEW f \in net, Receive(p, f) PROVE WindowInv'
    <3>1. /\ net' = net /\ f.from # p /\ CheckReplayWindow(p, f.seq)
          /\ windowBase' = [windowBase EXCEPT ![p] = NewBase(p, f.seq)]
          /\ \/ window' = [window EXCEPT ![p] = NewWindow(p, f.seq)]
             \/ window' = [window EXCEPT ![p] = {}]
      BY <2>3 DEF Receive, ReceiveData, ReceiveHeartbeat, ReceiveClose,
                  ReceiveCloseAck, ReceiveRekey, CanOpen, AcceptSequenceNumber,
                  PerformClose
    <3> QED
      BY <3>1, AcceptStep DEF TypeOK
  <2>4. CASE UNCHANGED vars
    BY <2>4 DEF vars, WindowInv, WindowBounded, NoEarlyRefusal
  <2> QED
    BY <2>2, <2>3, <2>4 DEF Next
<1> QED
  BY <1>1, <1>2, TypeCorrect, PTL DEF Spec

\* The window stays inside its span.
THEOREM WindowStaysBounded == Spec => []WindowBounded
BY WindowSafe, PTL DEF WindowInv

\* Nothing is refused as too old before a frame WindowSize above it arrived.
THEOREM NoNumberRefusedEarly == Spec => []NoEarlyRefusal
BY WindowSafe, PTL DEF WindowInv

-----------------------------------------------------------------------------
(* Rekeying.                                                               *)

KeyInv == RekeysAnnounced /\ KeyAgreement

\* A key is derived from itself, and what it was derived from stays so when it
\* is derived further.
LEMMA Prefixes ==
    ASSUME NEW k \in Key, NEW l \in Key, NEW m \in Material
    PROVE  Prefix(k, k) /\ (Prefix(k, l) => Prefix(k, Derive(l, m)))
BY DEF Prefix, Derive, Key

\* A step that rekeys neither direction keeps KeyInv.
LEMMA KeysStay ==
    ASSUME KeyInv, TypeOK,
           \A f \in net' : f \in net \/ f.type # "REKEY",
           \A q \in Peer : sendKey'[q] = sendKey[q] \/ sendKey'[q] = ErasedKey,
           \A q \in Peer : recvKey'[q] = recvKey[q] \/ recvKey'[q] = ErasedKey
    PROVE  KeyInv'
<1>1. RekeysAnnounced'
  BY FrameTyped, Erased DEF KeyInv, RekeysAnnounced
<1>2. KeyAgreement'
  BY OtherEnd, Erased DEF KeyInv, KeyAgreement
<1> QED
  BY <1>1, <1>2 DEF KeyInv

THEOREM KeysSafe == Spec => []KeyInv
<1>1. Init => KeyInv
  <2> SUFFICES ASSUME Init PROVE KeyInv
    OBVIOUS
  <2>1. RekeysAnnounced
    BY DEF Init, RekeysAnnounced
  <2>2. ASSUME NEW p \in Peer PROVE Prefix(recvKey[p], sendKey[Other(p)])
    <3>1. recvKey[p] = FirstKey(Other(p)) /\ sendKey[Other(p)] = FirstKey(Other(p))
      BY OtherEnd DEF Init
    <3> QED
      BY <3>1 DEF Prefix, FirstKey
  <2> QED
    BY <2>1, <2>2 DEF KeyInv, KeyAgreement
<1>2. TypeOK /\ KeyInv /\ [Next]_vars => KeyInv'
  <2> SUFFICES ASSUME TypeOK, KeyInv, [Next]_vars PROVE KeyInv'
    OBVIOUS
  <2>1. ASSUME NEW p \in Peer,
               Send(p) \/ SendHeartbeat(p) \/ Close(p) \/ AcknowledgeClose(p)
        PROVE  KeyInv'
    BY <2>1, KeysStay DEF Send, SendHeartbeat, Close, AcknowledgeClose,
                          EncryptFrame, PerformClose, TypeOK
  <2>2. ASSUME NEW p \in Peer, NEW f \in net,
               \/ ReceiveData(p, f) \/ ReceiveHeartbeat(p, f)
               \/ ReceiveClose(p, f) \/ ReceiveCloseAck(p, f)
        PROVE  KeyInv'
    BY <2>2, KeysStay DEF ReceiveData, ReceiveHeartbeat, ReceiveClose,
                          ReceiveCloseAck, PerformClose, TypeOK
  <2>3. ASSUME NEW p \in Peer, Rekey(p) PROVE KeyInv'
    <3> DEFINE m == FreshMaterial(p, sendSeqNum[p])
               new == [from |-> p, key |-> sendKey[p], seq |-> sendSeqNum[p],
                       type |-> "REKEY"]
    <3>1. /\ sendSeqNum[p] \in Nat
          /\ m \in Material
          /\ \A q \in Peer : sendKey[q] \in Key /\ recvKey[q] \in Key
      BY MaxSeqAssumption DEF TypeOK, FreshMaterial, Material
    <3>2. /\ sendKey'[p] = Derive(sendKey[p], m)
          /\ \A q \in Peer : q # p => sendKey'[q] = sendKey[q]
          /\ recvKey' = recvKey
          /\ net' = net \cup {new}
      BY <2>3 DEF Rekey, EncryptFrame, TypeOK
    <3>3. /\ sendKey'[p] \in Key
          /\ Live(sendKey'[p]) <=> Live(sendKey[p])
      BY <3>1, <3>2, DeriveKeys
    <3>4. RekeysAnnounced'
      <4> SUFFICES ASSUME NEW f \in net', f.type = "REKEY", Live(sendKey'[f.from])
                   PROVE  Prefix(Derive(f.key, FreshMaterial(f.from, f.seq)),
                                 sendKey'[f.from])
        BY DEF RekeysAnnounced
      <4>1. CASE f = new
        <5>1. /\ f.from = p /\ f.key = sendKey[p] /\ f.seq = sendSeqNum[p]
          BY <4>1
        <5>2. Derive(f.key, FreshMaterial(f.from, f.seq)) = sendKey'[p]
          BY <3>2, <5>1
        <5> QED
          BY <5>1, <5>2 DEF Prefix
      <4>2. CASE f \in net /\ f.from # p
        BY <3>2, <4>2, FrameTyped DEF KeyInv, RekeysAnnounced
      <4>3. CASE f \in net /\ f.from = p
        <5>1. /\ Derive(f.key, FreshMaterial(p, f.seq)) \in Key
              /\ Prefix(Derive(f.key, FreshMaterial(p, f.seq)), sendKey[p])
          BY <3>3, <4>3, FrameTyped, DeriveKeys DEF KeyInv, RekeysAnnounced
        <5> HIDE DEF m
        <5> QED
          BY <3>1, <3>2, <4>3, <5>1, Prefixes
      <4> QED
        BY <3>2, <4>1, <4>2, <4>3
    <3>5. KeyAgreement'
      <4> SUFFICES ASSUME NEW q \in Peer, Live(recvKey[q]), Live(sendKey'[Other(q)])
                   PROVE  Prefix(recvKey[q], sendKey'[Other(q)])
        BY <3>2 DEF KeyAgreement
      <4> HIDE DEF m
      <4>1. CASE Other(q) = p
        BY <3>1, <3>2, <3>3, <4>1, Prefixes DEF KeyInv, KeyAgreement
      <4>2. CASE Other(q) # p
        BY <3>2, <4>2, OtherEnd DEF KeyInv, KeyAgreement
      <4> QED
        BY <4>1, <4>2
    <3> QED
      BY <3>4, <3>5 DEF KeyInv
  <2>4. ASSUME NEW p \in Peer, NEW f \in net, ReceiveRekey(p, f) PROVE KeyInv'
    <3>1. /\ net' = net /\ sendKey' = sendKey
          /\ f.type = "REKEY" /\ f.from # p /\ f.key = recvKey[p]
          /\ recvKey'[p] = Derive(recvKey[p], FreshMaterial(f.from, f.seq))
          /\ \A q \in Peer : q # p => recvKey'[q] = recvKey[q]
      BY <2>4 DEF ReceiveRekey, CanOpen, TypeOK
    <3>2. RekeysAnnounced'
      BY <3>1 DEF KeyInv, RekeysAnnounced
    <3>3. f.from = Other(p)
      BY <3>1, OtherEnd, FrameTyped
    <3>4. Live(sendKey[Other(p)]) => Prefix(recvKey'[p], sendKey[Other(p)])
      BY <3>1, <3>3 DEF KeyInv, RekeysAnnounced
    <3>5. KeyAgreement'
      BY <3>1, <3>4, OtherEnd DEF KeyInv, KeyAgreement
    <3> QED
      BY <3>2, <3>5 DEF KeyInv
  <2>5. CASE UNCHANGED vars
    BY <2>5 DEF vars, KeyInv, RekeysAnnounced, KeyAgreement
  <2> QED
    BY <2>1, <2>2, <2>3, <2>4, <2>5 DEF Next, Receive
<1> QED
  BY <1>1, <1>2, TypeCorrect, PTL DEF Spec

\* The receiver's key is one its sender holds or has gone through.
THEOREM KeysAgree == Spec => []KeyAgreement
BY KeysSafe, PTL DEF KeyInv

-----------------------------------------------------------------------------
(* The channel implements AtMostOnceChannel.                               *)

Offered(p) == {f.seq : f \in {g \in net : g.from = p /\ g.type = "DATA"}}
OfferedMap == [p \in Peer |-> Offered(p)]
SpeakingMap == [p \in Peer |-> state[p] = "ESTABLISHED"]

\* Sealing anything but data offers nothing.
LEMMA NothingOffered ==
    ASSUME NEW p \in Peer, NEW t \in FrameType, t # "DATA", EncryptFrame(p, t)
    PROVE  OfferedMap' = OfferedMap
<1>1. ASSUME NEW q \in Peer PROVE Offered(q)' = Offered(q)
  BY DEF Offered, EncryptFrame
<1> QED
  BY <1>1 DEF OfferedMap

\* Sealing data offers its number.
LEMMA DataOffered ==
    ASSUME NEW p \in Peer, EncryptFrame(p, "DATA")
    PROVE  OfferedMap' = [OfferedMap EXCEPT ![p] = @ \cup {sendSeqNum[p]}]
<1> DEFINE new == [from |-> p, key |-> sendKey[p], seq |-> sendSeqNum[p],
                   type |-> "DATA"]
<1>0. /\ net' = net \cup {new}
      /\ new.from = p /\ new.seq = sendSeqNum[p] /\ new.type = "DATA"
  BY DEF EncryptFrame
<1> HIDE DEF new
<1>1. Offered(p)' = Offered(p) \cup {sendSeqNum[p]}
  BY <1>0 DEF Offered
<1>2. \A q \in Peer : q # p => Offered(q)' = Offered(q)
  BY DEF Offered, EncryptFrame
<1> QED
  BY <1>1, <1>2 DEF OfferedMap

\* Every step of the channel is a step of the abstract channel or a stutter:
\* a send offers its number, a data frame that is opened is taken for the first
\* time, and leaving ESTABLISHED silences the peer for good.
THEOREM Refinement == Spec => ImplementsAtMostOnceChannel
<1>1. Init => Abstract!Init
  <2> SUFFICES ASSUME Init PROVE Abstract!Init
    OBVIOUS
  <2>1. /\ \A p \in Peer : Offered(p) = {}
        /\ \A p \in Peer : (state[p] = "ESTABLISHED") = TRUE
    BY DEF Init, Offered
  <2>2. /\ [p \in Peer |-> Offered(p)] = [p \in Peer |-> {}]
        /\ [p \in Peer |-> state[p] = "ESTABLISHED"] = [p \in Peer |-> TRUE]
    BY <2>1
  <2> QED
    BY <2>2 DEF Init, Abstract!Init, Offered
<1>2. /\ TypeOK /\ TypeOK' /\ SealedFrames /\ DeliveryInv /\ AtMostOnce'
      /\ [Next]_vars
      => [Abstract!Next]_(Abstract!vars)
  <2> SUFFICES ASSUME TypeOK, TypeOK', SealedFrames, DeliveryInv, AtMostOnce', [Next]_vars
               PROVE  [Abstract!Next]_(Abstract!vars)
    OBVIOUS
  <2>a. /\ OfferedMap = [p \in Peer |->
                 {f.seq : f \in {g \in net : g.from = p /\ g.type = "DATA"}}]
        /\ SpeakingMap = [p \in Peer |-> state[p] = "ESTABLISHED"]
        /\ OfferedMap' = [p \in Peer |->
                 {f.seq : f \in {g \in net' : g.from = p /\ g.type = "DATA"}}]
        /\ SpeakingMap' = [p \in Peer |-> state'[p] = "ESTABLISHED"]
    BY DEF OfferedMap, Offered, SpeakingMap
  <2>stutter. ASSUME OfferedMap' = OfferedMap, SpeakingMap' = SpeakingMap,
                     delivered' = delivered
              PROVE  UNCHANGED Abstract!vars
    BY <2>a, <2>stutter DEF Abstract!vars
  <2>silent. ASSUME NEW p \in Peer, OfferedMap' = OfferedMap, delivered' = delivered,
                    NEW st \in {"CLOSING", "CLOSED"}, state' = [state EXCEPT ![p] = st]
             PROVE  [Abstract!Next]_(Abstract!vars)
    <3>1. CASE state[p] = "ESTABLISHED"
      <4>1. SpeakingMap' = [SpeakingMap EXCEPT ![p] = FALSE] /\ SpeakingMap[p]
        BY <2>silent, <3>1 DEF SpeakingMap, TypeOK
      <4>2. Abstract!FallSilent(p)
        BY <2>a, <2>silent, <4>1 DEF Abstract!FallSilent
      <4> QED
        BY <4>2 DEF Abstract!Next
    <3>2. CASE state[p] # "ESTABLISHED"
      <4>1. SpeakingMap' = SpeakingMap
        BY <2>silent, <3>2 DEF SpeakingMap, TypeOK
      <4> QED
        BY <2>silent, <2>stutter, <4>1
    <3> QED
      BY <3>1, <3>2
  <2>1. ASSUME NEW p \in Peer, Send(p) PROVE [Abstract!Next]_(Abstract!vars)
    <3>1. sendSeqNum[p] \in SeqNum
      BY <2>1, MaxSeqAssumption DEF Send, EncryptFrame, TypeOK, SeqNum
    <3>2. sendSeqNum[p] \notin OfferedMap[p]
      BY <3>1 DEF OfferedMap, Offered, SealedFrames, SeqNum
    <3>3. SpeakingMap[p] /\ SpeakingMap' = SpeakingMap /\ delivered' = delivered
      BY <2>1 DEF Send, SpeakingMap
    <3>4. OfferedMap' = [OfferedMap EXCEPT ![p] = @ \cup {sendSeqNum[p]}]
      BY <2>1, DataOffered DEF Send
    <3>5. ASSUME NEW n \in SeqNum, n = sendSeqNum[p] PROVE Abstract!Offer(p, n)
      BY <2>a, <3>2, <3>3, <3>4, <3>5 DEF Abstract!Offer
    <3> QED
      BY <3>1, <3>5 DEF Abstract!Next
  <2>2. ASSUME NEW p \in Peer, SendHeartbeat(p) \/ Rekey(p)
        PROVE  [Abstract!Next]_(Abstract!vars)
    <3>1. OfferedMap' = OfferedMap
      BY <2>2, NothingOffered DEF SendHeartbeat, Rekey, FrameType
    <3>2. SpeakingMap' = SpeakingMap /\ delivered' = delivered
      BY <2>2 DEF SendHeartbeat, Rekey, SpeakingMap
    <3> QED
      BY <2>stutter, <3>1, <3>2
  <2>3. ASSUME NEW p \in Peer, Close(p) \/ AcknowledgeClose(p)
        PROVE  [Abstract!Next]_(Abstract!vars)
    <3>1. OfferedMap' = OfferedMap
      BY <2>3, NothingOffered DEF Close, AcknowledgeClose, FrameType
    <3>2. /\ delivered' = delivered
          /\ \/ state' = [state EXCEPT ![p] = "CLOSING"]
             \/ state' = [state EXCEPT ![p] = "CLOSED"]
      BY <2>3 DEF Close, AcknowledgeClose, PerformClose
    <3> QED
      BY <2>silent, <3>1, <3>2
  <2>4. ASSUME NEW p \in Peer, NEW f \in net, ReceiveHeartbeat(p, f) \/ ReceiveRekey(p, f)
        PROVE  [Abstract!Next]_(Abstract!vars)
    <3>1. UNCHANGED <<net, state, delivered>>
      BY <2>4 DEF ReceiveHeartbeat, ReceiveRekey
    <3> QED
      BY <2>stutter, <3>1 DEF OfferedMap, Offered, SpeakingMap
  <2>5. ASSUME NEW p \in Peer, NEW f \in net, ReceiveClose(p, f) \/ ReceiveCloseAck(p, f)
        PROVE  [Abstract!Next]_(Abstract!vars)
    <3>1. /\ UNCHANGED <<net, delivered>>
          /\ \/ state' = [state EXCEPT ![p] = "CLOSING"]
             \/ state' = [state EXCEPT ![p] = "CLOSED"]
      BY <2>5 DEF ReceiveClose, ReceiveCloseAck, PerformClose
    <3>2. OfferedMap' = OfferedMap
      BY <3>1 DEF OfferedMap, Offered
    <3> QED
      BY <2>silent, <3>1, <3>2
  <2>6. ASSUME NEW p \in Peer, NEW f \in net, ReceiveData(p, f)
        PROVE  [Abstract!Next]_(Abstract!vars)
    <3>1. /\ f.seq \in SeqNum /\ f.from \in Peer /\ f.from # p /\ f.type = "DATA"
          /\ UNCHANGED <<net, state>>
          /\ delivered' = [delivered EXCEPT ![p][f.seq] = @ + 1]
      BY <2>6, FrameTyped DEF ReceiveData, CanOpen
    <3>2. delivered[p][f.seq] = 0
      BY <3>1 DEF AtMostOnce, TypeOK
    <3>3. delivered' = [delivered EXCEPT ![p][f.seq] = 1]
      BY <3>1, <3>2
    <3>4. f.seq \in OfferedMap[f.from]
      BY <3>1 DEF OfferedMap, Offered
    <3>5. OfferedMap' = OfferedMap /\ SpeakingMap' = SpeakingMap
      BY <3>1 DEF OfferedMap, Offered, SpeakingMap
    <3>6. Abstract!Take(f.from, p, f.seq)
      BY <2>a, <3>1, <3>2, <3>3, <3>4, <3>5 DEF Abstract!Take
    <3> QED
      BY <3>1, <3>6 DEF Abstract!Next
  <2>7. CASE UNCHANGED vars
    <3>1. OfferedMap' = OfferedMap /\ SpeakingMap' = SpeakingMap /\ delivered' = delivered
      BY <2>7 DEF vars, OfferedMap, Offered, SpeakingMap
    <3> QED
      BY <2>stutter, <3>1
  <2> QED
    BY <2>1, <2>2, <2>3, <2>4, <2>5, <2>6, <2>7 DEF Next, Receive
<1> QED
  BY <1>1, <1>2, TypeCorrect, FramesInOrder, DeliverySafe, TakenOnce, PTL
  DEF Spec, ImplementsAtMostOnceChannel, Abstract!Spec

-----------------------------------------------------------------------------
(* The out-of-order buffer.                                                *)

\* An instance counts as its instantiator does.
LEMMA BufferCounts == \A S : Buffer!Cardinality(S) = Cardinality(S)
BY DEF Buffer!Cardinality, Cardinality, Buffer!IsFiniteSet, IsFiniteSet

BufferTyped ==
    /\ buffer \in SUBSET Nat
    /\ IsFiniteSet(buffer)
    /\ nextExpectedSeq \in Nat
    /\ handedOn \in Seq(Nat)

\* For buffers and streams of every size: whatever the order in which messages arrive,
\* how often they are repeated, and when the buffer is reset, they are handed on in
\* sequence.
THEOREM StreamInSequence ==
    ASSUME MaxBufferSize \in Nat, StreamLength \in Nat
    PROVE  Buffer!Spec => []Buffer!InSequence
<1> DEFINE Inv == BufferTyped /\ Buffer!InSequence
<1>1. Buffer!Init => Inv
    BY FS_EmptySet, BufferCounts DEF Buffer!Init, BufferTyped, Buffer!InSequence
<1>2. Inv /\ [Buffer!Next]_Buffer!vars => Inv'
    <2> SUFFICES ASSUME Inv, [Buffer!Next]_Buffer!vars PROVE Inv'
        OBVIOUS
    <2> USE DEF BufferTyped, Buffer!InSequence
    <2>1. CASE Buffer!Reset
        BY <2>1, FS_EmptySet, BufferCounts DEF Buffer!Reset
    <2>2. ASSUME NEW s \in Buffer!SeqNum, Buffer!Insert(s) PROVE Inv'
        <3> DEFINE held == buffer \cup {s}
        <3>1. s \in Nat /\ s >= nextExpectedSeq
            BY <2>2 DEF Buffer!SeqNum, Buffer!Insert, Buffer!Accepts
        <3>2. PICK gap \in nextExpectedSeq .. StreamLength : gap \notin held /\ Buffer!Deliver(held, gap)
            BY <2>2 DEF Buffer!Insert
        <3>3. IsFiniteSet(held) /\ Cardinality(held) <= MaxBufferSize
            <4>1. CASE s \in buffer
                <5>1. held = buffer
                    BY <4>1
                <5> QED
                    BY <5>1, BufferCounts
            <4>2. CASE s \notin buffer
                <5>1. Cardinality(buffer) < MaxBufferSize
                    BY <2>2, <4>2, BufferCounts DEF Buffer!Insert, Buffer!Accepts
                <5>2. IsFiniteSet(buffer) /\ Cardinality(buffer) \in Nat
                    BY FS_CardinalityType
                <5>3. IsFiniteSet(held) /\ Cardinality(held) = Cardinality(buffer) + 1
                    BY <4>2, <5>2, FS_AddElement
                <5> QED
                    BY <5>1, <5>2, <5>3
            <4> QED
                BY <4>1, <4>2
        <3>4. /\ buffer' \subseteq held
              /\ IsFiniteSet(buffer')
              /\ Cardinality(buffer') <= MaxBufferSize
            <4>1. buffer' \subseteq held
                BY <3>2 DEF Buffer!Deliver
            <4>2. IsFiniteSet(buffer') /\ Cardinality(buffer') <= Cardinality(held)
                BY <4>1, <3>3, FS_Subset
            <4>3. Cardinality(buffer') \in Nat /\ Cardinality(held) \in Nat
                BY <4>2, <3>3, FS_CardinalityType
            <4> HIDE DEF held
            <4> QED
                BY <4>1, <4>2, <4>3, <3>3
        <3>5. \A t \in buffer' : t > nextExpectedSeq'
            BY <3>1, <3>2 DEF Buffer!Deliver
        <3>6. /\ handedOn' \in Seq(Nat)
              /\ nextExpectedSeq' \in Nat
              /\ Len(handedOn') = nextExpectedSeq'
              /\ \A i \in 1 .. Len(handedOn') : handedOn'[i] = i - 1
            <4> DEFINE k == gap - nextExpectedSeq
                       more == [i \in 1 .. k |-> nextExpectedSeq + i - 1]
            <4>1. k \in Nat
                BY <3>2
            <4>2. more \in Seq(Nat) /\ Len(more) = k /\ \A i \in 1 .. k : more[i] = nextExpectedSeq + i - 1
                BY <4>1
            <4>3. handedOn' = handedOn \o more /\ nextExpectedSeq' = gap
                BY <3>2 DEF Buffer!Deliver
            <4> HIDE DEF more
            <4> QED
                BY <4>1, <4>2, <4>3
        <3>7. buffer' \in SUBSET Nat
            BY <3>1, <3>4
        <3> QED
            BY <3>4, <3>5, <3>6, <3>7, BufferCounts
    <2>3. CASE UNCHANGED Buffer!vars
        BY <2>3 DEF Buffer!vars
    <2> QED
        BY <2>1, <2>2, <2>3 DEF Buffer!Next
<1> QED
    BY <1>1, <1>2, PTL DEF Buffer!Spec

-----------------------------------------------------------------------------
(* Groups.                                                                 *)

\* What is mixed into a group's secret.
Entry == ({"leaf", "add"} \X Id) \cup ({"path", "removal"} \X Nat)

Removed(secret) == \E i \in DOMAIN secret : secret[i][1] = "removal"

\* The root and what is not blank leave room: the nodes reach twice as far.
Spread(blanked, size) ==
    /\ ~blanked[0]
    /\ \A n \in 0 .. size - 1 : n > 0 /\ ~blanked[n] => 2 * n + 2 <= size
    /\ size = 1 \/ size % 2 = 0

\* While nobody was removed members have leaves of their own that are not blank, and
\* there is a blank leaf as soon as there is a second member.
Tidy(s) ==
    \E size \in Nat :
        /\ size > 0
        /\ s.blanked \in [0 .. size - 1 -> BOOLEAN]
        /\ Spread(s.blanked, size)
        /\ \A x \in s.members : x.leaf \in 0 .. size - 1 /\ ~s.blanked[x.leaf] /\ x.leaf % 2 = 0
        /\ \A x, y \in s.members : x.leaf = y.leaf => x = y
        /\ size <= 2 => s.treeSize = 1

Tree == UNION {[0 .. size - 1 -> BOOLEAN] : size \in Nat \ {0}}

Member == [id : Id, leaf : Int]

GroupState ==
    [blanked : Tree, treeSize : Int, members : SUBSET Member, leaf : Int,
     epoch : Nat, secret : Seq(Entry)]

\* A state of some member, or in a welcome, after that many path updates.
StateOK(s, renewals) ==
    /\ s \in GroupState
    /\ Len(s.secret) = s.epoch + 1
    /\ \A i \in DOMAIN s.secret : s.secret[i][1] = "removal" => s.secret[i][2] <= renewals
    /\ ~Removed(s.secret) => Tidy(s)

\* After whatever m took from the secret with which a remover went on, m was added again.
AddedSince(m, removal, secret) ==
    Group!IsPrefix(removal.secret, secret) =>
        \E i \in Len(removal.secret) + 1 .. Len(secret) : secret[i] = <<"add", m>>

UpdateOK(u) == u.leaf \in Int /\ u.rootKey \in Nat

WelcomeOK(w, renewals) ==
    /\ w.to \in Id
    /\ StateOK(w.state, renewals)
    /\ w.state.secret[Len(w.state.secret)] = <<"add", w.to>>

\* A remover's secret ends with random bytes of its own.
RemovalOK(r, renewals) ==
    /\ r.secret \in Seq(Entry)
    /\ Len(r.secret) > 0
    /\ r.secret[Len(r.secret)][1] = "removal"
    /\ r.secret[Len(r.secret)][2] <= renewals
    /\ r.id \in Id

GroupInv ==
    /\ paths \in Nat
    /\ DOMAIN group = Id
    /\ \A m \in Id : group[m] # None => StateOK(group[m], paths)
    /\ \A u \in updates : UpdateOK(u)
    /\ \A w \in welcomes : WelcomeOK(w, paths)
    /\ \A r \in removals : RemovalOK(r, paths)
    /\ \A r \in removals, m \in Id : group[m] # None /\ m # r.by => AddedSince(m, r, group[m].secret)

\* Every set of numbers has a least one.
LEMMA LeastNumber ==
    ASSUME NEW S \in SUBSET Nat, S # {}
    PROVE  \E x \in S : \A y \in S : x <= y
<1>1. PICK x \in S : \A y \in S : <<y, x>> \notin OpToRel(<, Nat)
    BY NatLessThanWellFounded, WFMin
<1>2. \A y \in S : ~(y < x)
    BY <1>1 DEF OpToRel
<1> QED
    BY <1>2

\* How many nodes there are.
LEMMA Nodes ==
    ASSUME NEW k \in Nat
    PROVE  Group!Cardinality(0 .. k - 1) = k
<1>1. \A S : Group!Cardinality(S) = Cardinality(S)
    BY DEF Group!Cardinality, Cardinality, Group!IsFiniteSet, IsFiniteSet
<1>2. Cardinality(0 .. k - 1) = k
    BY FS_Interval
<1> QED
    BY <1>1, <1>2

\* ensureTreeCapacity() adds blank nodes and keeps the others.
LEMMA Grows ==
    ASSUME NEW k \in Nat, k > 0, NEW blanked \in [0 .. k - 1 -> BOOLEAN], NEW leaf \in Int
    PROVE  \E l \in Nat :
             /\ l = IF 2 * leaf + 2 <= k THEN k ELSE 2 * leaf + 2
             /\ Group!Capacity(blanked, leaf) \in [0 .. l - 1 -> BOOLEAN]
             /\ \A n \in 0 .. l - 1 : Group!Capacity(blanked, leaf)[n] = IF n < k THEN blanked[n] ELSE TRUE
<1> DEFINE l == IF 2 * leaf + 2 <= k THEN k ELSE 2 * leaf + 2
<1>1. l \in Nat
    OBVIOUS
<1>2. DOMAIN blanked = 0 .. k - 1 /\ Group!Cardinality(DOMAIN blanked) = k
    BY Nodes
<1>3. Group!Max({k, 2 * leaf + 2}) = l
    <2> DEFINE M == {k, 2 * leaf + 2}
    <2>1. l \in M /\ \A y \in M : l >= y
        OBVIOUS
    <2>2. \A x \in M : (\A y \in M : x >= y) => x = l
        OBVIOUS
    <2> HIDE DEF M, l
    <2> QED
        BY <2>1, <2>2 DEF Group!Max, M
<1> HIDE DEF l
<1>4. Group!Capacity(blanked, leaf) = [n \in 0 .. l - 1 |-> IF n \in 0 .. k - 1 THEN blanked[n] ELSE TRUE]
    BY <1>2, <1>3 DEF Group!Capacity
<1>5. l = IF 2 * leaf + 2 <= k THEN k ELSE 2 * leaf + 2
    BY DEF l
<1> DEFINE more == [n \in 0 .. l - 1 |-> IF n \in 0 .. k - 1 THEN blanked[n] ELSE TRUE]
<1>6. more \in [0 .. l - 1 -> BOOLEAN]
    <2>1. \A n \in 0 .. l - 1 : (IF n \in 0 .. k - 1 THEN blanked[n] ELSE TRUE) \in BOOLEAN
        OBVIOUS
    <2> QED
        BY <2>1
<1>7. \A n \in 0 .. l - 1 : more[n] = IF n < k THEN blanked[n] ELSE TRUE
    <2> SUFFICES ASSUME NEW n \in 0 .. l - 1 PROVE more[n] = IF n < k THEN blanked[n] ELSE TRUE
        OBVIOUS
    <2>1. more[n] = IF n \in 0 .. k - 1 THEN blanked[n] ELSE TRUE
        OBVIOUS
    <2>2. n \in 0 .. k - 1 <=> n < k
        BY <1>1
    <2> HIDE DEF more
    <2>3. CASE n < k
        BY <2>1, <2>2, <2>3
    <2>4. CASE ~(n < k)
        BY <2>1, <2>2, <2>4
    <2> QED
        BY <2>3, <2>4
<1> HIDE DEF more
<1>8. Group!Capacity(blanked, leaf) = more
    BY <1>4 DEF more
<1> QED
    BY <1>1, <1>5, <1>6, <1>7, <1>8

\* Renewing a path blanks nothing, and unblanks nodes up to its leaf.
LEMMA Renews ==
    ASSUME NEW k \in Nat, k > 0, NEW blanked \in [0 .. k - 1 -> BOOLEAN], NEW leaf \in Int
    PROVE  \E l \in Nat :
             /\ l = IF 2 * leaf + 2 <= k THEN k ELSE 2 * leaf + 2
             /\ Group!Renewed(blanked, leaf) \in [0 .. l - 1 -> BOOLEAN]
             /\ \A n \in 0 .. k - 1 : ~blanked[n] => ~Group!Renewed(blanked, leaf)[n]
             /\ \A n \in 0 .. l - 1 : ~Group!Renewed(blanked, leaf)[n] => (n < k /\ ~blanked[n]) \/ n <= leaf
<1>1. PICK l \in Nat :
         /\ l = IF 2 * leaf + 2 <= k THEN k ELSE 2 * leaf + 2
         /\ Group!Capacity(blanked, leaf) \in [0 .. l - 1 -> BOOLEAN]
         /\ \A n \in 0 .. l - 1 : Group!Capacity(blanked, leaf)[n] = IF n < k THEN blanked[n] ELSE TRUE
    BY Grows
<1> DEFINE grown == Group!Capacity(blanked, leaf)
           path == Group!DirectPath(leaf)
<1>2. \A n \in path : n <= leaf
    BY DEF Group!DirectPath
<1>3. Group!Renewed(blanked, leaf) = [n \in 0 .. l - 1 |-> grown[n] /\ n \notin path]
    BY <1>1 DEF Group!Renewed
<1> HIDE DEF grown, path
<1>4. k <= l
    BY <1>1
<1>5. \A n \in 0 .. l - 1 : grown[n] \in BOOLEAN /\ grown[n] = IF n < k THEN blanked[n] ELSE TRUE
    BY <1>1 DEF grown
<1>6. ASSUME NEW n \in 0 .. k - 1, ~blanked[n] PROVE ~grown[n]
    <2>1. n \in 0 .. l - 1 /\ n < k
        BY <1>4
    <2> QED
        BY <1>5, <1>6, <2>1
<1>7. ASSUME NEW n \in 0 .. l - 1, ~(grown[n] /\ n \notin path) PROVE (n < k /\ ~blanked[n]) \/ n <= leaf
    <2>1. CASE n \in path
        BY <1>2, <2>1
    <2>2. CASE n < k
        BY <1>5, <1>7, <2>1, <2>2
    <2>3. CASE n \notin path /\ ~(n < k)
        BY <1>5, <1>7, <2>3
    <2> QED
        BY <2>1, <2>2, <2>3
<1> DEFINE kept == [n \in 0 .. l - 1 |-> grown[n] /\ n \notin path]
<1>8. kept \in [0 .. l - 1 -> BOOLEAN]
    OBVIOUS
<1>9. \A n \in 0 .. l - 1 : kept[n] <=> (grown[n] /\ n \notin path)
    OBVIOUS
<1>10. Group!Renewed(blanked, leaf) = kept
    BY <1>3
<1> HIDE DEF kept
<1>11. \A n \in 0 .. k - 1 : ~blanked[n] => ~kept[n]
    <2>1. ASSUME NEW n \in 0 .. k - 1, ~blanked[n] PROVE ~kept[n]
        <3>1. n \in 0 .. l - 1
            BY <1>4
        <3> QED
            BY <1>6, <1>9, <2>1, <3>1
    <2> QED
        BY <2>1
<1>12. \A n \in 0 .. l - 1 : ~kept[n] => (n < k /\ ~blanked[n]) \/ n <= leaf
    BY <1>7, <1>9
<1> QED
    BY <1>1, <1>8, <1>10, <1>11, <1>12

\* There is a place for another member: while nobody was removed it is a blank leaf, or
\* the first one behind a single member.
LEMMA Places ==
    ASSUME NEW s \in GroupState
    PROVE  /\ Group!FreeLeaf(s) \in Int
           /\ Tidy(s) => /\ Group!FreeLeaf(s) > 0
                         /\ Group!FreeLeaf(s) % 2 = 0
                         /\ \A x \in s.members : x.leaf # Group!FreeLeaf(s)
<1>1. PICK k \in Nat : k > 0 /\ s.blanked \in [0 .. k - 1 -> BOOLEAN]
    BY DEF GroupState, Tree
<1> DEFINE free == {node \in DOMAIN s.blanked : node % 2 = 0 /\ s.blanked[node]}
<1>2. DOMAIN s.blanked = 0 .. k - 1 /\ free \subseteq Nat /\ s.treeSize \in Int
    BY <1>1 DEF GroupState
<1>3. ASSUME Tidy(s)
      PROVE  /\ Spread(s.blanked, k)
             /\ \A x \in s.members : x.leaf \in 0 .. k - 1 /\ ~s.blanked[x.leaf] /\ x.leaf % 2 = 0
             /\ k <= 2 => s.treeSize = 1
    <2>1. PICK size \in Nat :
            /\ size > 0
            /\ s.blanked \in [0 .. size - 1 -> BOOLEAN]
            /\ Spread(s.blanked, size)
            /\ \A x \in s.members : x.leaf \in 0 .. size - 1 /\ ~s.blanked[x.leaf] /\ x.leaf % 2 = 0
            /\ size <= 2 => s.treeSize = 1
        BY <1>3 DEF Tidy
    <2>2. 0 .. size - 1 = 0 .. k - 1
        BY <1>1, <2>1
    <2>3. size = k
        BY <1>1, <2>1, <2>2
    <2> QED
        BY <2>1, <2>3
<1>4. CASE free # {}
    <2>1. Group!FreeLeaf(s) \in free
        <3>1. \E x \in free : \A y \in free : x <= y
            BY <1>2, <1>4, LeastNumber
        <3> HIDE DEF free
        <3>2. Group!Min(free) \in free
            BY <3>1 DEF Group!Min
        <3> QED
            BY <1>4, <3>2 DEF Group!FreeLeaf, free
    <2>2. ASSUME Tidy(s) PROVE Group!FreeLeaf(s) > 0 /\ \A x \in s.members : x.leaf # Group!FreeLeaf(s)
        BY <1>2, <1>3, <2>1, <2>2 DEF Spread
    <2> QED
        BY <1>2, <2>1, <2>2
<1>5. CASE free = {}
    <2>1. Group!FreeLeaf(s) = s.treeSize * 2
        BY <1>5 DEF Group!FreeLeaf
    <2>2. ASSUME Tidy(s) PROVE s.treeSize = 1 /\ \A x \in s.members : x.leaf < 2
        <3>1. k <= 2
            <4>1. SUFFICES ASSUME k > 2 PROVE FALSE
                BY <1>1
            <4>2. k - 2 \in 0 .. k - 1 /\ k % 2 = 0 /\ (k - 2) % 2 = 0
                BY <1>1, <1>3, <2>2, <4>1 DEF Spread
            <4>3. ~s.blanked[k - 2]
                BY <1>2, <1>5, <4>2
            <4> QED
                BY <1>3, <2>2, <4>1, <4>2, <4>3 DEF Spread
        <3> QED
            BY <1>3, <2>2, <3>1
    <2> QED
        BY <1>2, <2>1, <2>2
<1> QED
    BY <1>4, <1>5

\* A tree that is Spread stays so when a path is renewed.
LEMMA RenewsSpread ==
    ASSUME NEW k \in Nat, k > 0, NEW blanked \in [0 .. k - 1 -> BOOLEAN], NEW leaf \in Int,
           Spread(blanked, k)
    PROVE  \E l \in Nat :
             /\ l >= k
             /\ Group!Renewed(blanked, leaf) \in [0 .. l - 1 -> BOOLEAN]
             /\ Spread(Group!Renewed(blanked, leaf), l)
             /\ \A n \in 0 .. k - 1 : ~blanked[n] => ~Group!Renewed(blanked, leaf)[n]
<1> DEFINE new == Group!Renewed(blanked, leaf)
<1>1. PICK l \in Nat :
         /\ l = IF 2 * leaf + 2 <= k THEN k ELSE 2 * leaf + 2
         /\ new \in [0 .. l - 1 -> BOOLEAN]
         /\ \A n \in 0 .. k - 1 : ~blanked[n] => ~new[n]
         /\ \A n \in 0 .. l - 1 : ~new[n] => (n < k /\ ~blanked[n]) \/ n <= leaf
    BY Renews
<1> HIDE DEF new
<1>2. l >= k /\ 2 * leaf + 2 <= l
    BY <1>1
<1>3. ~new[0]
    BY <1>1 DEF Spread
<1>4. ASSUME NEW n \in 0 .. l - 1, n > 0, ~new[n] PROVE 2 * n + 2 <= l
    <2>1. CASE n <= leaf
        BY <1>2, <2>1
    <2>2. CASE n < k /\ ~blanked[n]
        BY <1>2, <1>4, <2>2 DEF Spread
    <2> QED
        BY <1>1, <1>4, <2>1, <2>2
<1>5. l = 1 \/ l % 2 = 0
    BY <1>1 DEF Spread
<1>6. Spread(new, l)
    BY <1>3, <1>4, <1>5 DEF Spread
<1> QED
    BY <1>1, <1>2, <1>6 DEF new

\* The next state of a member, of its next tree and members and what it mixes in.
Later(s, tree, size, members, entry) ==
    [blanked |-> tree, treeSize |-> size, members |-> members, leaf |-> s.leaf,
     epoch |-> s.epoch + 1, secret |-> Append(s.secret, entry)]

Changed(s, tree, size, members) ==
    [s EXCEPT !.blanked = tree, !.treeSize = size, !.members = members]

\* deriveEpoch() with such a tree, number of leaves and members.
LEMMA NextEpoch ==
    ASSUME NEW s \in GroupState, NEW tree, NEW entry, NEW size, NEW members,
           NEW t \in [blanked : {tree}, treeSize : {size}, members : {members},
                      leaf : {s.leaf}, epoch : {s.epoch}, secret : {s.secret}]
    PROVE  Group!DeriveEpoch(t, entry) = Later(s, tree, size, members, entry)
<1>1. t.epoch = s.epoch /\ t.secret = s.secret
    OBVIOUS
<1>2. Group!DeriveEpoch(t, entry) = [t EXCEPT !.epoch = s.epoch + 1, !.secret = Append(s.secret, entry)]
    BY <1>1 DEF Group!DeriveEpoch
<1> DEFINE n == s.epoch + 1
           q == Append(s.secret, entry)
<1> HIDE DEF n, q
<1>3. [t EXCEPT !.epoch = n, !.secret = q]
        \in [blanked : {tree}, treeSize : {size}, members : {members}, leaf : {s.leaf}, epoch : {n}, secret : {q}]
    OBVIOUS
<1>4. \A x \in [blanked : {tree}, treeSize : {size}, members : {members}, leaf : {s.leaf},
                epoch : {n}, secret : {q}] :
        x = [blanked |-> tree, treeSize |-> size, members |-> members, leaf |-> s.leaf,
             epoch |-> n, secret |-> q]
    OBVIOUS
<1>5. [t EXCEPT !.epoch = n, !.secret = q]
        = [blanked |-> tree, treeSize |-> size, members |-> members, leaf |-> s.leaf,
           epoch |-> n, secret |-> q]
    BY <1>3, <1>4, Zenon
<1> QED
    BY <1>2, <1>5 DEF Later, n, q

\* deriveEpoch() after the tree and the members have changed.
LEMMA Derives ==
    ASSUME NEW s \in GroupState, NEW tree, NEW size, NEW members, NEW entry
    PROVE  Group!DeriveEpoch(Changed(s, tree, size, members), entry) = Later(s, tree, size, members, entry)
<1>1. Changed(s, tree, size, members)
        \in [blanked : {tree}, treeSize : {size}, members : {members},
             leaf : {s.leaf}, epoch : {s.epoch}, secret : {s.secret}]
    BY DEF GroupState, Changed
<1> QED
    BY <1>1, NextEpoch

\* deriveEpoch() after the tree has changed.
LEMMA DerivesFromTree ==
    ASSUME NEW s \in GroupState, NEW tree, NEW entry
    PROVE  Group!DeriveEpoch([s EXCEPT !.blanked = tree], entry) = Later(s, tree, s.treeSize, s.members, entry)
<1>1. [s EXCEPT !.blanked = tree]
        \in [blanked : {tree}, treeSize : {s.treeSize}, members : {s.members},
             leaf : {s.leaf}, epoch : {s.epoch}, secret : {s.secret}]
    BY DEF GroupState
<1> QED
    BY <1>1, NextEpoch

\* It is a state as good as the one before.
LEMMA LaterOK ==
    ASSUME NEW before \in Nat, NEW after \in Nat, before <= after,
           NEW s, StateOK(s, before),
           NEW tree \in Tree, NEW size \in Int, NEW members \in SUBSET Member,
           NEW entry \in Entry, entry[1] = "removal" => entry[2] <= after,
           ~Removed(s.secret) /\ entry[1] # "removal" => Tidy(Later(s, tree, size, members, entry))
    PROVE  StateOK(Later(s, tree, size, members, entry), after)
<1> DEFINE q == s.secret
           long == Append(q, entry)
           j == Later(s, tree, size, members, entry)
<1>1. s \in GroupState /\ q \in Seq(Entry) /\ s.epoch \in Nat /\ s.leaf \in Int /\ Len(q) = s.epoch + 1
    BY DEF StateOK, GroupState
<1>2. /\ long \in Seq(Entry) /\ Len(long) = s.epoch + 2
      /\ DOMAIN long = 1 .. Len(q) + 1 /\ DOMAIN q = 1 .. Len(q)
      /\ \A i \in 1 .. Len(q) : long[i] = q[i]
      /\ long[Len(q) + 1] = entry
    BY <1>1, SMTT(30)
<1>3. j \in GroupState
    BY <1>1, <1>2 DEF GroupState, Later
<1>4. Len(j.secret) = j.epoch + 1
    BY <1>1, <1>2 DEF Later
<1>5. j.secret = long
    BY DEF Later
<1> HIDE DEF long, j, q
<1>6. ASSUME NEW i \in DOMAIN long, long[i][1] = "removal" PROVE long[i][2] <= after
    <2>1. CASE i = Len(q) + 1
        BY <1>2, <1>6, <2>1
    <2>2. CASE i \in 1 .. Len(q)
        <3>1. long[i] = q[i] /\ q[i] \in Entry
            BY <1>1, <1>2, <2>2
        <3>2. q[i][2] <= before
            BY <1>2, <1>6, <2>2, <3>1 DEF StateOK, q
        <3>3. q[i][2] \in Nat
            BY <1>6, <3>1 DEF Entry
        <3> QED
            BY <3>1, <3>2, <3>3
    <2> QED
        BY <1>1, <1>2, <2>1, <2>2, SMTT(30)
<1>7. ASSUME ~Removed(long) PROVE Tidy(j)
    <2>1. entry[1] # "removal"
        BY <1>1, <1>2, <1>7 DEF Removed
    <2>2. ~Removed(q)
        BY <1>1, <1>2, <1>7 DEF Removed
    <2> QED
        BY <2>1, <2>2 DEF j, q
<1> QED
    BY <1>3, <1>4, <1>5, <1>6, <1>7 DEF StateOK, j

\* A prefix has the same elements.
LEMMA SamePrefix ==
    ASSUME NEW p \in Seq(Entry), NEW q \in Seq(Entry), Group!IsPrefix(p, q)
    PROVE  Len(p) <= Len(q) /\ \A i \in 1 .. Len(p) : p[i] = q[i]
<1>1. Len(p) <= Len(q) /\ SubSeq(p, 1, Len(p)) = SubSeq(q, 1, Len(p))
    BY DEF Group!IsPrefix
<1>2. \A i \in 1 .. Len(p) : SubSeq(p, 1, Len(p))[i] = p[i]
    OBVIOUS
<1>3. \A i \in 1 .. Len(p) : SubSeq(q, 1, Len(p))[i] = q[i]
    BY <1>1
<1> QED
    BY <1>1, <1>2, <1>3

\* The other way.
LEMMA PrefixOf ==
    ASSUME NEW p \in Seq(Entry), NEW q \in Seq(Entry), Len(p) <= Len(q),
           \A i \in 1 .. Len(p) : p[i] = q[i]
    PROVE  Group!IsPrefix(p, q)
<1>1. DOMAIN p = 1 .. Len(p) /\ SubSeq(p, 1, Len(p)) = p
    OBVIOUS
<1>2. p = SubSeq(q, 1, Len(p))
    OBVIOUS
<1> QED
    BY <1>1, <1>2 DEF Group!IsPrefix

\* A secret that nothing but a removal of its own was mixed into remains as far from
\* that of a remover as it was.
LEMMA StillSince ==
    ASSUME NEW m, NEW renewals \in Nat, NEW r, RemovalOK(r, renewals), NEW q \in Seq(Entry),
           AddedSince(m, r, q), NEW entry \in Entry, entry[1] = "removal" => entry[2] > renewals
    PROVE  AddedSince(m, r, Append(q, entry))
<1> DEFINE long == Append(q, entry)
           p == r.secret
<1>1. p \in Seq(Entry) /\ Len(p) > 0 /\ p[Len(p)][1] = "removal" /\ p[Len(p)][2] <= renewals
    BY DEF RemovalOK
<1>2. /\ long \in Seq(Entry) /\ Len(long) = Len(q) + 1
      /\ \A i \in 1 .. Len(q) : long[i] = q[i]
      /\ long[Len(q) + 1] = entry
    OBVIOUS
<1> HIDE DEF long, p
<1> SUFFICES ASSUME Group!IsPrefix(p, long)
             PROVE  \E i \in Len(p) + 1 .. Len(long) : long[i] = <<"add", m>>
    BY DEF AddedSince, long, p
<1>3. Len(p) <= Len(long) /\ \A i \in 1 .. Len(p) : p[i] = long[i]
    BY <1>1, <1>2, SamePrefix
<1>4. Len(p) # Len(long)
    <2> SUFFICES ASSUME Len(p) = Len(long) PROVE FALSE
        OBVIOUS
    <2>1. p[Len(p)] = entry
        BY <1>1, <1>2, <1>3
    <2>2. entry[2] \in Nat
        BY <1>1, <2>1 DEF Entry
    <2> QED
        BY <1>1, <2>1, <2>2
<1>5. Group!IsPrefix(p, q)
    <2>1. Len(p) <= Len(q) /\ \A i \in 1 .. Len(p) : p[i] = q[i]
        BY <1>1, <1>2, <1>3, <1>4
    <2> QED
        BY <1>1, <2>1, PrefixOf
<1>6. PICK i \in Len(p) + 1 .. Len(q) : q[i] = <<"add", m>>
    BY <1>5 DEF AddedSince, p
<1>7. i \in Len(p) + 1 .. Len(long) /\ long[i] = q[i]
    BY <1>1, <1>2, <1>6
<1> QED
    BY <1>6, <1>7

\* So is that of a member that was added last.
LEMMA AddedLast ==
    ASSUME NEW m, NEW renewals \in Nat, NEW r, RemovalOK(r, renewals), NEW q \in Seq(Entry),
           Len(q) > 0, q[Len(q)] = <<"add", m>>
    PROVE  AddedSince(m, r, q)
<1> DEFINE p == r.secret
<1>1. p \in Seq(Entry) /\ Len(p) > 0 /\ p[Len(p)][1] = "removal"
    BY DEF RemovalOK
<1> HIDE DEF p
<1> SUFFICES ASSUME Group!IsPrefix(p, q)
             PROVE  \E i \in Len(p) + 1 .. Len(q) : q[i] = <<"add", m>>
    BY DEF AddedSince, p
<1>2. Len(p) <= Len(q) /\ \A i \in 1 .. Len(p) : p[i] = q[i]
    BY <1>1, SamePrefix
<1>3. Len(p) # Len(q)
    BY <1>1, <1>2
<1> QED
    BY <1>1, <1>2, <1>3

\* The secret of whom did not take the random bytes of a removal does not begin with
\* the remover's.
LEMMA NeverSince ==
    ASSUME NEW m, NEW s, NEW renewals \in Nat, StateOK(s, renewals), NEW r, RemovalOK(r, renewals + 1),
           r.secret[Len(r.secret)][2] > renewals
    PROVE  AddedSince(m, r, s.secret)
<1> DEFINE p == r.secret
           q == s.secret
<1>1. p \in Seq(Entry) /\ Len(p) > 0 /\ p[Len(p)][1] = "removal" /\ p[Len(p)][2] > renewals
    BY DEF RemovalOK
<1>2. q \in Seq(Entry) /\ \A i \in 1 .. Len(q) : q[i][1] = "removal" => q[i][2] <= renewals
    BY DEF StateOK, GroupState
<1> HIDE DEF p, q
<1> SUFFICES ASSUME Group!IsPrefix(p, q) PROVE FALSE
    BY DEF AddedSince, p, q
<1>3. Len(p) <= Len(q) /\ \A i \in 1 .. Len(p) : p[i] = q[i]
    BY <1>1, <1>2, SamePrefix
<1>4. Len(p) \in 1 .. Len(q) /\ p[Len(p)] = q[Len(p)] /\ p[Len(p)] \in Entry
    BY <1>1, <1>2, <1>3
<1>5. p[Len(p)][2] \in Nat
    BY <1>1, <1>4 DEF Entry
<1> QED
    BY <1>1, <1>2, <1>4, <1>5

\* The tree and the members of s with another member.
Grown(s) == [Group!Capacity(s.blanked, Group!FreeLeaf(s)) EXCEPT ![Group!FreeLeaf(s)] = FALSE]
Joined(s, id) == {x \in s.members : x.id # id} \cup {[id |-> id, leaf |-> Group!FreeLeaf(s)]}

\* addMember() leaves a tree in order.
LEMMA Joins ==
    ASSUME NEW s \in GroupState, NEW id \in Id, NEW entry
    PROVE  /\ Group!Renewed(Grown(s), s.leaf) \in Tree
           /\ Joined(s, id) \in SUBSET Member
           /\ Tidy(s) => Tidy(Later(s, Group!Renewed(Grown(s), s.leaf), s.treeSize + 1, Joined(s, id), entry))
<1> DEFINE leaf == Group!FreeLeaf(s)
           tree == Grown(s)
           new == Group!Renewed(tree, s.leaf)
<1>1. PICK k \in Nat : k > 0 /\ s.blanked \in [0 .. k - 1 -> BOOLEAN]
    BY DEF GroupState, Tree
<1>2. leaf \in Int /\ s.leaf \in Int /\ s.members \in SUBSET Member
    BY Places DEF GroupState
<1>3. PICK l \in Nat :
         /\ l = IF 2 * leaf + 2 <= k THEN k ELSE 2 * leaf + 2
         /\ Group!Capacity(s.blanked, leaf) \in [0 .. l - 1 -> BOOLEAN]
         /\ \A n \in 0 .. l - 1 : Group!Capacity(s.blanked, leaf)[n] = IF n < k THEN s.blanked[n] ELSE TRUE
    BY <1>1, <1>2, Grows
<1> DEFINE more == Group!Capacity(s.blanked, leaf)
<1>4. tree = [more EXCEPT ![leaf] = FALSE]
    BY DEF Grown
<1> HIDE DEF more, leaf, tree
<1>5. /\ l > 0 /\ l >= k /\ 2 * leaf + 2 <= l
      /\ tree \in [0 .. l - 1 -> BOOLEAN]
      /\ \A n \in 0 .. l - 1 : n # leaf => tree[n] = more[n]
      /\ leaf \in 0 .. l - 1 => ~tree[leaf]
    <2>1. l > 0 /\ l >= k /\ 2 * leaf + 2 <= l
        BY <1>1, <1>2, <1>3
    <2>2. more \in [0 .. l - 1 -> BOOLEAN]
        BY <1>3 DEF more
    <2> QED
        BY <1>4, <2>1, <2>2
<1>6. new \in Tree
    <2>1. PICK l2 \in Nat :
             /\ l2 = IF 2 * s.leaf + 2 <= l THEN l ELSE 2 * s.leaf + 2
             /\ new \in [0 .. l2 - 1 -> BOOLEAN]
        BY <1>2, <1>5, Renews
    <2>2. l2 > 0
        BY <1>2, <1>5, <2>1
    <2> QED
        BY <2>1, <2>2 DEF Tree
<1>7. Joined(s, id) \in SUBSET Member
    BY <1>2 DEF Joined, Member, leaf
<1>8. ASSUME Tidy(s) PROVE Tidy(Later(s, new, s.treeSize + 1, Joined(s, id), entry))
    <2>1. leaf > 0 /\ leaf % 2 = 0 /\ \A x \in s.members : x.leaf # leaf
        BY <1>8, Places DEF leaf
    <2>2. /\ Spread(s.blanked, k)
          /\ \A x \in s.members : x.leaf \in 0 .. k - 1 /\ ~s.blanked[x.leaf] /\ x.leaf % 2 = 0
          /\ \A x, y \in s.members : x.leaf = y.leaf => x = y
        <3>1. PICK size \in Nat :
                /\ size > 0
                /\ s.blanked \in [0 .. size - 1 -> BOOLEAN]
                /\ Spread(s.blanked, size)
                /\ \A x \in s.members : x.leaf \in 0 .. size - 1 /\ ~s.blanked[x.leaf] /\ x.leaf % 2 = 0
                /\ \A x, y \in s.members : x.leaf = y.leaf => x = y
            BY <1>8 DEF Tidy
        <3>2. 0 .. size - 1 = 0 .. k - 1
            BY <1>1, <3>1
        <3>3. size = k
            BY <1>1, <3>1, <3>2
        <3> QED
            BY <3>1, <3>3
    <2>3. leaf \in 0 .. l - 1 /\ leaf >= 2 /\ l >= 6
        BY <1>2, <1>5, <2>1
    <2>4. ASSUME NEW n \in 0 .. k - 1, ~s.blanked[n] PROVE n \in 0 .. l - 1 /\ ~tree[n]
        <3>1. n \in 0 .. l - 1
            BY <1>1, <1>5
        <3>2. n < k
            BY <1>1
        <3>3. more[n] = s.blanked[n]
            BY <1>3, <3>1, <3>2 DEF more
        <3> QED
            BY <1>5, <2>4, <3>1, <3>3
    <2>5. Spread(tree, l)
        <3>1. ~tree[0]
            BY <1>1, <2>2, <2>4 DEF Spread
        <3>2. ASSUME NEW n \in 0 .. l - 1, n > 0, ~tree[n] PROVE 2 * n + 2 <= l
            <4>1. CASE n = leaf
                BY <1>5, <4>1
            <4>2. CASE n # leaf
                <5>1. ~more[n]
                    BY <1>5, <3>2, <4>2
                <5>2. n < k /\ ~s.blanked[n]
                    BY <1>3, <5>1 DEF more
                <5>3. 2 * n + 2 <= k
                    BY <1>1, <2>2, <3>2, <5>2 DEF Spread
                <5> QED
                    BY <1>5, <5>3
            <4> QED
                BY <4>1, <4>2
        <3>3. l % 2 = 0
            BY <1>1, <1>2, <1>3, <2>2, <2>3 DEF Spread
        <3> QED
            BY <3>1, <3>2, <3>3 DEF Spread
    <2>6. PICK l2 \in Nat :
             /\ l2 >= l
             /\ new \in [0 .. l2 - 1 -> BOOLEAN]
             /\ Spread(new, l2)
             /\ \A n \in 0 .. l - 1 : ~tree[n] => ~new[n]
        BY <1>2, <1>5, <2>5, RenewsSpread
    <2>7. ASSUME NEW x \in Joined(s, id) PROVE x.leaf \in 0 .. l2 - 1 /\ ~new[x.leaf] /\ x.leaf % 2 = 0
        <3>1. CASE x \in s.members
            <4>1. x.leaf \in 0 .. k - 1 /\ ~s.blanked[x.leaf] /\ x.leaf % 2 = 0
                BY <2>2, <3>1
            <4>2. x.leaf \in 0 .. l - 1 /\ ~tree[x.leaf]
                BY <2>4, <4>1
            <4> QED
                BY <2>6, <4>1, <4>2
        <3>2. CASE x.leaf = leaf
            BY <1>5, <2>1, <2>3, <2>6, <3>2
        <3> QED
            BY <2>7, <3>1, <3>2 DEF Joined, leaf
    <2>8. ASSUME NEW x \in Joined(s, id), NEW y \in Joined(s, id), x.leaf = y.leaf PROVE x = y
        BY <2>1, <2>2, <2>8 DEF Joined, leaf
    <2> DEFINE j == Later(s, new, s.treeSize + 1, Joined(s, id), entry)
    <2>9. j.blanked = new /\ j.members = Joined(s, id)
        BY DEF Later
    <2> HIDE DEF j, new
    <2>10. l2 > 0 /\ ~(l2 <= 2)
        BY <2>3, <2>6
    <2>11. Tidy(j)
        BY <2>6, <2>7, <2>8, <2>9, <2>10 DEF Tidy
    <2> QED
        BY <2>11 DEF j, new
<1> QED
    BY <1>6, <1>7, <1>8 DEF tree

\* So does the path update of whichever leaf.
LEMMA Follows ==
    ASSUME NEW s \in GroupState, NEW leaf \in Int, NEW entry
    PROVE  /\ Group!Renewed(s.blanked, leaf) \in Tree
           /\ Tidy(s) => Tidy(Later(s, Group!Renewed(s.blanked, leaf), s.treeSize, s.members, entry))
<1> DEFINE new == Group!Renewed(s.blanked, leaf)
<1>1. new \in Tree
    <2>1. PICK k \in Nat : k > 0 /\ s.blanked \in [0 .. k - 1 -> BOOLEAN]
        BY DEF GroupState, Tree
    <2>2. PICK l \in Nat :
             /\ l = IF 2 * leaf + 2 <= k THEN k ELSE 2 * leaf + 2
             /\ new \in [0 .. l - 1 -> BOOLEAN]
        BY <2>1, Renews
    <2>3. l > 0
        BY <2>1, <2>2
    <2> QED
        BY <2>2, <2>3 DEF Tree
<1>2. ASSUME Tidy(s) PROVE Tidy(Later(s, new, s.treeSize, s.members, entry))
    <2>1. PICK k \in Nat :
            /\ k > 0
            /\ s.blanked \in [0 .. k - 1 -> BOOLEAN]
            /\ Spread(s.blanked, k)
            /\ \A x \in s.members : x.leaf \in 0 .. k - 1 /\ ~s.blanked[x.leaf] /\ x.leaf % 2 = 0
            /\ \A x, y \in s.members : x.leaf = y.leaf => x = y
            /\ k <= 2 => s.treeSize = 1
        BY <1>2 DEF Tidy
    <2>2. PICK l \in Nat :
             /\ l >= k
             /\ new \in [0 .. l - 1 -> BOOLEAN]
             /\ Spread(new, l)
             /\ \A n \in 0 .. k - 1 : ~s.blanked[n] => ~new[n]
        BY <2>1, RenewsSpread
    <2> DEFINE j == Later(s, new, s.treeSize, s.members, entry)
    <2>3. j.blanked = new /\ j.members = s.members /\ j.treeSize = s.treeSize
        BY DEF Later
    <2> HIDE DEF j, new
    <2>4. \A x \in s.members : x.leaf \in 0 .. l - 1 /\ ~new[x.leaf] /\ x.leaf % 2 = 0
        BY <2>1, <2>2
    <2>5. l > 0 /\ (l <= 2 => s.treeSize = 1)
        BY <2>1, <2>2
    <2>6. Tidy(j)
        BY <2>1, <2>2, <2>3, <2>4, <2>5 DEF Tidy
    <2> QED
        BY <2>6 DEF j, new
<1> QED
    BY <1>1, <1>2

\* removeMember() leaves a tree.
LEMMA Leaves ==
    ASSUME NEW s \in GroupState, NEW gone
    PROVE  Group!Renewed([node \in DOMAIN s.blanked |-> s.blanked[node] \/ node \in gone], s.leaf) \in Tree
<1> DEFINE blank == [node \in DOMAIN s.blanked |-> s.blanked[node] \/ node \in gone]
<1>1. PICK k \in Nat : k > 0 /\ s.blanked \in [0 .. k - 1 -> BOOLEAN]
    BY DEF GroupState, Tree
<1>2. blank \in [0 .. k - 1 -> BOOLEAN] /\ s.leaf \in Int
    BY <1>1 DEF GroupState
<1> HIDE DEF blank
<1>3. PICK l \in Nat :
         /\ l = IF 2 * s.leaf + 2 <= k THEN k ELSE 2 * s.leaf + 2
         /\ Group!Renewed(blank, s.leaf) \in [0 .. l - 1 -> BOOLEAN]
    BY <1>1, <1>2, Renews
<1>4. l > 0
    BY <1>1, <1>2, <1>3
<1> QED
    BY <1>3, <1>4 DEF Tree, blank

\* What was in order after some path updates is so after more.
LEMMA InOrderStill ==
    ASSUME NEW before \in Nat, NEW after \in Nat, before <= after
    PROVE  /\ \A s : StateOK(s, before) => StateOK(s, after)
           /\ \A w : WelcomeOK(w, before) => WelcomeOK(w, after)
           /\ \A r : RemovalOK(r, before) => RemovalOK(r, after)
<1>1. ASSUME NEW q \in Seq(Entry), NEW i \in DOMAIN q, q[i][1] = "removal", q[i][2] <= before
      PROVE  q[i][2] <= after
    <2>1. q[i] \in Entry
        BY <1>1
    <2>2. q[i][2] \in Nat
        BY <1>1, <2>1 DEF Entry
    <2> QED
        BY <1>1, <2>2
<1>2. ASSUME NEW s, StateOK(s, before) PROVE StateOK(s, after)
    BY <1>1, <1>2 DEF StateOK, GroupState
<1>3. ASSUME NEW w, WelcomeOK(w, before) PROVE WelcomeOK(w, after)
    BY <1>2, <1>3 DEF WelcomeOK
<1>4. ASSUME NEW r, RemovalOK(r, before) PROVE RemovalOK(r, after)
    BY <1>1, <1>4 DEF RemovalOK
<1> QED
    BY <1>2, <1>3, <1>4

\* A step of one member keeps the invariant when its own next state does, and all that
\* it sends or records.
LEMMA MemberStep ==
    ASSUME GroupInv, NEW m \in Id, NEW j, group' = [group EXCEPT ![m] = j],
           paths' \in {paths, paths + 1},
           j # None => StateOK(j, paths'),
           \A u \in updates' : u \in updates \/ UpdateOK(u),
           \A w \in welcomes' : w \in welcomes \/ WelcomeOK(w, paths'),
           \A r \in removals' : \/ r \in removals
                                \/ RemovalOK(r, paths') /\ r.by = m /\ r.secret[Len(r.secret)][2] > paths,
           \A r \in removals : j # None /\ m # r.by => AddedSince(m, r, j.secret)
    PROVE  GroupInv'
<1>1. paths \in Nat /\ paths' \in Nat /\ paths <= paths' /\ paths' <= paths + 1
    BY DEF GroupInv
<1>2. DOMAIN group' = Id /\ \A o \in Id : group'[o] = IF o = m THEN j ELSE group[o]
    BY DEF GroupInv
<1>3. /\ \A s : StateOK(s, paths) => StateOK(s, paths')
      /\ \A w : WelcomeOK(w, paths) => WelcomeOK(w, paths')
      /\ \A r : RemovalOK(r, paths) => RemovalOK(r, paths')
      /\ \A r : RemovalOK(r, paths') => RemovalOK(r, paths + 1)
    <2>1. /\ \A s : StateOK(s, paths) => StateOK(s, paths')
          /\ \A w : WelcomeOK(w, paths) => WelcomeOK(w, paths')
          /\ \A r : RemovalOK(r, paths) => RemovalOK(r, paths')
        BY <1>1, InOrderStill
    <2>2. \A r : RemovalOK(r, paths') => RemovalOK(r, paths + 1)
        BY <1>1, InOrderStill
    <2> QED
        BY <2>1, <2>2
<1>4. ASSUME NEW o \in Id, group'[o] # None PROVE StateOK(group'[o], paths')
    BY <1>2, <1>3, <1>4 DEF GroupInv
<1>5. ASSUME NEW r \in removals', NEW o \in Id, group'[o] # None, o # r.by
      PROVE  AddedSince(o, r, group'[o].secret)
    <2>1. CASE r \in removals
        BY <1>2, <1>5, <2>1 DEF GroupInv
    <2>2. CASE r \notin removals
        <3>1. RemovalOK(r, paths + 1) /\ r.by = m /\ r.secret[Len(r.secret)][2] > paths
            BY <1>3, <1>5, <2>2
        <3>2. group'[o] = group[o] /\ StateOK(group[o], paths)
            BY <1>2, <1>5, <3>1 DEF GroupInv
        <3> QED
            BY <1>1, <3>1, <3>2, NeverSince
    <2> QED
        BY <2>1, <2>2
<1>6. \A u \in updates' : UpdateOK(u)
    BY DEF GroupInv
<1>7. \A w \in welcomes' : WelcomeOK(w, paths')
    BY <1>3 DEF GroupInv
<1>8. \A r \in removals' : RemovalOK(r, paths')
    BY <1>3 DEF GroupInv
<1> QED
    BY <1>1, <1>2, <1>4, <1>5, <1>6, <1>7, <1>8 DEF GroupInv

\* Of groups of any size: every state of a member is in order, and whoever was removed
\* goes on with a secret of the remover's only when it was added since.
LEMMA GroupsInOrder == Group!Spec => []GroupInv
<1>1. Group!Init => GroupInv
    BY DEF Group!Init, GroupInv
<1>2. GroupInv /\ [Group!Next]_(Group!vars) => GroupInv'
    <2> SUFFICES ASSUME GroupInv, [Group!Next]_(Group!vars) PROVE GroupInv'
        OBVIOUS
    <2>0. paths \in Nat
        BY DEF GroupInv
    <2>1. ASSUME NEW m \in Id, Group!CreateGroup(m) PROVE GroupInv'
        <3> DEFINE j == [blanked |-> [node \in {0} |-> FALSE], treeSize |-> 1,
                         members |-> {[id |-> m, leaf |-> 0]},
                         leaf |-> 0, epoch |-> 0, secret |-> <<<<"leaf", m>>>>]
        <3>1. /\ group' = [group EXCEPT ![m] = j] /\ paths' = paths
              /\ updates' = updates /\ welcomes' = welcomes /\ removals' = removals
            BY <2>1 DEF Group!CreateGroup
        <3>2. j.blanked \in [0 .. 0 -> BOOLEAN] /\ ~j.blanked[0]
            OBVIOUS
        <3>3. j.blanked \in Tree
            <4>1. j.blanked \in [0 .. 1 - 1 -> BOOLEAN]
                BY <3>2
            <4> QED
                BY <4>1 DEF Tree
        <3>4. j \in GroupState
            <4>1. <<<<"leaf", m>>>> \in Seq(Entry)
                BY DEF Entry
            <4> QED
                BY <3>3, <4>1 DEF GroupState, Member
        <3>5. Tidy(j)
            <4>1. 1 \in Nat /\ 1 > 0 /\ 0 .. 1 - 1 = 0 .. 0
                OBVIOUS
            <4>2. Spread(j.blanked, 1)
                BY <3>2 DEF Spread
            <4>3. j.members = {[id |-> m, leaf |-> 0]} /\ j.treeSize = 1
                OBVIOUS
            <4> HIDE DEF j
            <4>4. /\ \A x \in j.members : x.leaf \in 0 .. 1 - 1 /\ ~j.blanked[x.leaf] /\ x.leaf % 2 = 0
                  /\ \A x, y \in j.members : x.leaf = y.leaf => x = y
                BY <3>2, <4>3
            <4> QED
                BY <3>2, <4>1, <4>2, <4>3, <4>4 DEF Tidy
        <3>6. StateOK(j, paths)
            BY <2>0, <3>4, <3>5 DEF StateOK
        <3>7. ASSUME NEW r \in removals PROVE AddedSince(m, r, j.secret)
            <4>1. RemovalOK(r, paths) /\ <<<<"leaf", m>>>> \in Seq(Entry)
                BY DEF GroupInv, Entry
            <4>2. ~Group!IsPrefix(r.secret, <<<<"leaf", m>>>>)
                <5> SUFFICES ASSUME Group!IsPrefix(r.secret, <<<<"leaf", m>>>>) PROVE FALSE
                    OBVIOUS
                <5>1. Len(r.secret) <= 1 /\ \A i \in 1 .. Len(r.secret) : r.secret[i] = <<<<"leaf", m>>>>[i]
                    BY <4>1, SamePrefix DEF RemovalOK
                <5>2. Len(r.secret) = 1 /\ r.secret[1][1] = "removal"
                    BY <4>1, <5>1 DEF RemovalOK
                <5> QED
                    BY <5>1, <5>2
            <4> QED
                BY <4>2 DEF AddedSince
        <3> HIDE DEF j
        <3> QED
            BY <3>1, <3>6, <3>7, MemberStep
    <2>2. ASSUME NEW m \in Id, NEW new \in Id, Group!AddMember(m, new) PROVE GroupInv'
        <3> DEFINE s == group[m]
                   entry == <<"add", new>>
                   j == Later(s, Group!Renewed(Grown(s), s.leaf), s.treeSize + 1, Joined(s, new), entry)
                   w == [to |-> new, state |-> [j EXCEPT !.leaf = Group!FreeLeaf(s)]]
        <3>1. StateOK(s, paths) /\ s \in GroupState /\ s # None
            BY <2>2 DEF Group!AddMember, Group!Active, GroupInv, StateOK
        <3>2. Group!DeriveEpoch([s EXCEPT !.blanked = Group!Renewed(Grown(s), s.leaf),
                                          !.treeSize = s.treeSize + 1, !.members = Joined(s, new)], entry) = j
            <4> DEFINE tree == Group!Renewed(Grown(s), s.leaf)
                       size == s.treeSize + 1
                       members == Joined(s, new)
            <4> HIDE DEF s, tree, size, members, entry
            <4>1. Group!DeriveEpoch(Changed(s, tree, size, members), entry)
                    = Later(s, tree, size, members, entry)
                BY <3>1, Derives
            <4> QED
                BY <4>1 DEF tree, size, members, Changed
        <3>3. /\ group' = [group EXCEPT ![m] = j] /\ paths' = paths + 1 /\ removals' = removals
              /\ updates' = updates \cup {Group!Update(m)}
              /\ welcomes' = welcomes \cup {w}
            BY <2>2, <3>2 DEF Group!AddMember, Grown, Joined
        <3>4. entry \in Entry /\ entry[1] # "removal" /\ s.treeSize + 1 \in Int
            BY <3>1 DEF Entry, GroupState
        <3> HIDE DEF entry
        <3>5. StateOK(j, paths')
            <4> DEFINE tree == Group!Renewed(Grown(s), s.leaf)
                       size == s.treeSize + 1
                       members == Joined(s, new)
            <4>1. /\ tree \in Tree /\ members \in SUBSET Member
                  /\ Tidy(s) => Tidy(Later(s, tree, size, members, entry))
                BY <3>1, Joins
            <4>2. paths' \in Nat /\ paths <= paths' /\ (~Removed(s.secret) => Tidy(s))
                BY <2>0, <3>1, <3>3 DEF StateOK
            <4> HIDE DEF s, tree, size, members
            <4>3. StateOK(Later(s, tree, size, members, entry), paths')
                BY <2>0, <3>1, <3>4, <4>1, <4>2, LaterOK DEF size
            <4> QED
                BY <4>3 DEF tree, size, members
        <3>6. WelcomeOK(w, paths')
            <4>1. j.secret = Append(s.secret, entry) /\ s.secret \in Seq(Entry) /\ j \in GroupState
                BY <3>1, <3>5 DEF Later, GroupState, StateOK
            <4> DEFINE leaf == Group!FreeLeaf(s)
                       t == [j EXCEPT !.leaf = leaf]
            <4>2. leaf \in Int
                BY <3>1, Places
            <4> HIDE DEF j, leaf
            <4>3. /\ t \in GroupState /\ t.secret = j.secret /\ t.epoch = j.epoch /\ t.blanked = j.blanked
                  /\ t.members = j.members /\ t.treeSize = j.treeSize
                BY <4>1, <4>2 DEF GroupState
            <4> HIDE DEF t
            <4>4. StateOK(t, paths')
                BY <3>5, <4>3 DEF StateOK, Tidy
            <4>5. t.secret[Len(t.secret)] = entry
                BY <3>4, <4>1, <4>3
            <4>6. w.to = new /\ w.state = t
                BY DEF t, leaf
            <4> QED
                BY <4>4, <4>5, <4>6 DEF WelcomeOK, entry
        <3>7. UpdateOK(Group!Update(m))
            BY <2>0, <3>1 DEF Group!Update, UpdateOK, GroupState
        <3>8. ASSUME NEW r \in removals, m # r.by PROVE AddedSince(m, r, j.secret)
            <4>1. RemovalOK(r, paths) /\ AddedSince(m, r, s.secret) /\ s.secret \in Seq(Entry)
                BY <3>1, <3>8 DEF GroupInv, GroupState
            <4>2. j.secret = Append(s.secret, entry)
                BY DEF Later
            <4> QED
                BY <2>0, <3>4, <4>1, <4>2, StillSince
        <3> HIDE DEF j, w
        <3> QED
            BY <3>3, <3>5, <3>6, <3>7, <3>8, MemberStep
    <2>3. ASSUME NEW m \in Id, NEW member \in group[m].members, Group!RemoveMember(m, member) PROVE GroupInv'
        <3> DEFINE s == group[m]
                   entry == <<"removal", paths + 1>>
                   gone == Group!DirectPath(member.leaf)
                   blank == [node \in DOMAIN s.blanked |-> s.blanked[node] \/ node \in gone]
                   j == Later(s, Group!Renewed(blank, s.leaf), s.treeSize - 1, s.members \ {member}, entry)
                   r0 == [by |-> m, id |-> member.id, secret |-> j.secret]
        <3>1. StateOK(s, paths) /\ s \in GroupState /\ s # None
            BY <2>3 DEF Group!RemoveMember, Group!Active, GroupInv, StateOK
        <3>2. Group!DeriveEpoch([s EXCEPT !.blanked = Group!Renewed(blank, s.leaf),
                                          !.treeSize = s.treeSize - 1, !.members = s.members \ {member}], entry) = j
            <4> DEFINE tree == Group!Renewed(blank, s.leaf)
                       size == s.treeSize - 1
                       members == s.members \ {member}
            <4> HIDE DEF s, tree, size, members, entry
            <4>1. Group!DeriveEpoch(Changed(s, tree, size, members), entry)
                    = Later(s, tree, size, members, entry)
                BY <3>1, Derives
            <4> QED
                BY <4>1 DEF tree, size, members, Changed
        <3>3. /\ group' = [group EXCEPT ![m] = j] /\ paths' = paths + 1 /\ welcomes' = welcomes
              /\ updates' = updates \cup {Group!Update(m)}
              /\ removals' = removals \cup {r0}
            BY <2>3, <3>2 DEF Group!RemoveMember, Group!RemovalEntropy
        <3>4. /\ entry \in Entry /\ entry[1] = "removal" /\ entry[2] = paths + 1
              /\ s.treeSize - 1 \in Int /\ s.members \ {member} \in SUBSET Member
            BY <2>0, <3>1 DEF Entry, GroupState
        <3> HIDE DEF entry
        <3>5. Group!Renewed(blank, s.leaf) \in Tree
            BY <3>1, Leaves
        <3> HIDE DEF blank
        <3>6. StateOK(j, paths')
            BY <2>0, <3>1, <3>3, <3>4, <3>5, LaterOK
        <3>7. j.secret = Append(s.secret, entry) /\ s.secret \in Seq(Entry)
            BY <3>1 DEF Later, GroupState
        <3> HIDE DEF j
        <3>8. UpdateOK(Group!Update(m))
            BY <2>0, <3>1 DEF Group!Update, UpdateOK, GroupState
        <3>9. RemovalOK(r0, paths') /\ r0.by = m /\ r0.secret[Len(r0.secret)][2] > paths
            <4>1. r0.by = m /\ r0.secret = j.secret /\ r0.id \in Id
                BY <2>3, <3>1 DEF GroupState, Member
            <4>2. j.secret \in Seq(Entry) /\ Len(j.secret) > 0 /\ j.secret[Len(j.secret)] = entry
                BY <3>4, <3>7
            <4> HIDE DEF r0
            <4> QED
                BY <2>0, <3>3, <3>4, <4>1, <4>2 DEF RemovalOK
        <3>10. ASSUME NEW r \in removals, m # r.by PROVE AddedSince(m, r, j.secret)
            <4>1. RemovalOK(r, paths) /\ AddedSince(m, r, s.secret)
                BY <3>1, <3>10 DEF GroupInv
            <4>2. entry[2] > paths
                BY <2>0, <3>4
            <4> QED
                BY <2>0, <3>4, <3>7, <4>1, <4>2, StillSince
        <3> HIDE DEF r0
        <3> QED
            BY <3>3, <3>6, <3>8, <3>9, <3>10, MemberStep
    <2>4. ASSUME NEW m \in Id, NEW update \in updates, Group!ProcessPathUpdate(m, update) PROVE GroupInv'
        <3> DEFINE s == group[m]
                   entry == <<"path", update.rootKey>>
                   j == Later(s, Group!Renewed(s.blanked, update.leaf), s.treeSize, s.members, entry)
        <3>1. StateOK(s, paths) /\ s \in GroupState /\ s # None
            BY <2>4 DEF Group!ProcessPathUpdate, Group!Active, GroupInv, StateOK
        <3>2. Group!DeriveEpoch([s EXCEPT !.blanked = Group!Renewed(s.blanked, update.leaf)], entry) = j
            BY <3>1, DerivesFromTree
        <3>3. /\ group' = [group EXCEPT ![m] = j] /\ paths' = paths /\ removals' = removals
              /\ updates' = updates /\ welcomes' = welcomes
            <4>1. group' = [group EXCEPT ![m] =
                    Group!DeriveEpoch([group[m] EXCEPT !.blanked = Group!Renewed(group[m].blanked, update.leaf)],
                                      <<"path", update.rootKey>>)]
                BY <2>4 DEF Group!ProcessPathUpdate
            <4>2. group' = [group EXCEPT ![m] = j]
                BY <3>2, <4>1, Zenon
            <4> QED
                BY <2>4, <4>2 DEF Group!ProcessPathUpdate
        <3>4. /\ entry \in Entry /\ entry[1] # "removal" /\ update.leaf \in Int
              /\ s.treeSize \in Int /\ s.members \in SUBSET Member
            BY <2>4, <3>1 DEF Entry, GroupState, GroupInv, UpdateOK
        <3> HIDE DEF entry
        <3>5. StateOK(j, paths')
            <4> DEFINE tree == Group!Renewed(s.blanked, update.leaf)
            <4>1. tree \in Tree /\ (Tidy(s) => Tidy(Later(s, tree, s.treeSize, s.members, entry)))
                BY <3>1, <3>4, Follows
            <4>2. paths' \in Nat /\ paths <= paths' /\ (~Removed(s.secret) => Tidy(s))
                BY <2>0, <3>1, <3>3 DEF StateOK
            <4> HIDE DEF s, tree
            <4>3. StateOK(Later(s, tree, s.treeSize, s.members, entry), paths')
                BY <2>0, <3>1, <3>4, <4>1, <4>2, LaterOK
            <4> QED
                BY <4>3 DEF tree
        <3>6. ASSUME NEW r \in removals, m # r.by PROVE AddedSince(m, r, j.secret)
            <4>1. RemovalOK(r, paths) /\ AddedSince(m, r, s.secret) /\ s.secret \in Seq(Entry)
                BY <3>1, <3>6 DEF GroupInv, GroupState
            <4>2. j.secret = Append(s.secret, entry)
                BY DEF Later
            <4> QED
                BY <2>0, <3>4, <4>1, <4>2, StillSince
        <3> HIDE DEF j
        <3> QED
            BY <3>3, <3>5, <3>6, MemberStep
    <2>5. ASSUME NEW w \in welcomes, Group!ProcessWelcome(w) PROVE GroupInv'
        <3>1. /\ group' = [group EXCEPT ![w.to] = w.state] /\ paths' = paths /\ removals' = removals
              /\ updates' = updates /\ welcomes' = welcomes
            BY <2>5 DEF Group!ProcessWelcome
        <3>2. /\ w.to \in Id /\ StateOK(w.state, paths)
              /\ w.state.secret[Len(w.state.secret)] = <<"add", w.to>>
              /\ w.state.secret \in Seq(Entry) /\ Len(w.state.secret) > 0
            BY <2>5 DEF GroupInv, WelcomeOK, StateOK, GroupState
        <3>3. ASSUME NEW r \in removals PROVE AddedSince(w.to, r, w.state.secret)
            <4>1. RemovalOK(r, paths)
                BY DEF GroupInv
            <4> QED
                BY <2>0, <3>2, <4>1, AddedLast
        <3> QED
            BY <3>1, <3>2, <3>3, MemberStep
    <2>6. ASSUME NEW m \in Id, Group!Destroy(m) PROVE GroupInv'
        <3>1. /\ group' = [group EXCEPT ![m] = None] /\ paths' = paths /\ removals' = removals
              /\ updates' = updates /\ welcomes' = welcomes
            BY <2>6 DEF Group!Destroy
        <3> QED
            BY <3>1, MemberStep
    <2>7. CASE UNCHANGED Group!vars
        BY <2>7 DEF Group!vars, GroupInv
    <2> QED
        BY <2>1, <2>2, <2>3, <2>4, <2>5, <2>6, <2>7 DEF Group!Next
<1> QED
    BY <1>1, <1>2, PTL DEF Group!Spec

\* Members accept each other's tags exactly when they mixed the same into their secrets;
\* whoever was removed has the remover's secret only when it was added since; and as long
\* as nobody was removed, members have leaves of their own.
LEMMA EpochsAgree == GroupInv => GroupEpochsAgree
<1> SUFFICES ASSUME GroupInv PROVE GroupEpochsAgree
    OBVIOUS
<1>1. ASSUME NEW a \in Id, NEW b \in Id, Group!Active(a), Group!Active(b)
      PROVE  Group!TagVerifies(a, Group!GroupMessage(b)) <=> group[a].secret = group[b].secret
    <2>1. Len(group[a].secret) = group[a].epoch + 1 /\ Len(group[b].secret) = group[b].epoch + 1
        BY <1>1 DEF GroupInv, Group!Active, StateOK
    <2>2. group[a].epoch \in Nat /\ group[b].epoch \in Nat
        BY <1>1 DEF GroupInv, Group!Active, StateOK, GroupState
    <2>3. group[a].secret = group[b].secret => group[a].epoch = group[b].epoch
        BY <2>1, <2>2
    <2> QED
        BY <2>3 DEF Group!TagVerifies, Group!GroupMessage, Group!KeyFor
<1>2. ASSUME NEW r \in removals, r.id \in Id, Group!Active(r.id), r.id # r.by,
             Group!IsPrefix(r.secret, group[r.id].secret)
      PROVE  \E i \in Len(r.secret) + 1 .. Len(group[r.id].secret) : group[r.id].secret[i] = <<"add", r.id>>
    BY <1>2 DEF GroupInv, Group!Active, AddedSince
<1>3. ASSUME NEW m \in Id, Group!Active(m), \A i \in DOMAIN group[m].secret : group[m].secret[i][1] # "removal",
             NEW x \in group[m].members, NEW y \in group[m].members, x.leaf = y.leaf
      PROVE  x = y
    BY <1>3 DEF GroupInv, Group!Active, StateOK, Removed, Tidy
<1>4. \A r \in removals : r.id \in Id
    BY DEF GroupInv, RemovalOK
<1>5. Group!GroupEpochsAgree
    BY <1>1, <1>2, <1>4 DEF Group!GroupEpochsAgree
<1>6. Group!LeavesDistinct
    BY <1>3 DEF Group!LeavesDistinct
<1> QED
    BY <1>5, <1>6 DEF GroupEpochsAgree

-----------------------------------------------------------------------------
(* AuditTrail, for a log of any length.                                    *)

LogEntry == [data : Event, integrity : Seq(Event)]

LogTypeOK == entries \in Seq(LogEntry) /\ recorded \in Seq(LogEntry)

\* The data of the first n entries of a log.
DataOf(log, n) == [k \in 1 .. n |-> log[k].data]

\* What makes it inductive: the hash of a recorded entry tells all data up to it, and
\* whoever changes the list can only copy hashes that were recorded.
ChainInv ==
    /\ LogTypeOK
    /\ lastHmac = DataOf(recorded, Len(recorded))
    /\ \A j \in DOMAIN recorded : recorded[j].integrity = DataOf(recorded, j)
    /\ \A i \in DOMAIN entries : \E j \in DOMAIN recorded :
         entries[i].integrity = recorded[j].integrity

\* A sequence of the entries with those before i and those from j on.
LEMMA Spliced ==
    ASSUME entries \in Seq(LogEntry), NEW i \in Nat, NEW j \in Nat \ {0}, i <= Len(entries)
    PROVE  LET s == SubSeq(entries, 1, i) \o SubSeq(entries, j, Len(entries))
           IN  s \in Seq(LogEntry) /\ \A k \in DOMAIN s : \E n \in DOMAIN entries : s[k] = entries[n]
<1> DEFINE a == SubSeq(entries, 1, i)
           b == SubSeq(entries, j, Len(entries))
<1>1. a \in Seq(LogEntry) /\ Len(a) = i /\ \A k \in 1 .. i : a[k] = entries[k]
    OBVIOUS
<1>2. b \in Seq(LogEntry) /\ \A k \in 1 .. Len(b) : b[k] = entries[k + j - 1] /\ k + j - 1 \in DOMAIN entries
    OBVIOUS
<1> HIDE DEF a, b
<1>3. a \o b \in Seq(LogEntry) /\ DOMAIN (a \o b) = 1 .. (i + Len(b))
    <2>1. a \o b \in Seq(LogEntry)
        BY <1>1, <1>2
    <2>2. Len(a \o b) = i + Len(b)
        <3>1. a \in Seq(LogEntry) /\ b \in Seq(LogEntry) /\ Len(a) = i
            BY <1>1, <1>2
        <3>2. Len(a \o b) = Len(a) + Len(b)
            BY ONLY <3>1
        <3> QED
            BY <3>1, <3>2
    <2> QED
        BY <2>1, <2>2
<1>4. ASSUME NEW k \in DOMAIN (a \o b) PROVE \E n \in DOMAIN entries : (a \o b)[k] = entries[n]
    <2>1. CASE k <= i
        BY <1>1, <1>2, <1>3, <2>1
    <2>2. CASE k > i
        <3>1. (a \o b)[k] = b[k - i] /\ k - i \in 1 .. Len(b)
            BY <1>1, <1>2, <1>3, <2>2
        <3> QED
            BY <3>1, <1>2
    <2> QED
        BY <1>3, <2>1, <2>2
<1> QED
    BY <1>3, <1>4 DEF a, b

\* The data of a log's first entries are a sequence of events.
LEMMA DataType ==
    ASSUME NEW log \in Seq(LogEntry), NEW n \in 0 .. Len(log)
    PROVE  DataOf(log, n) \in Seq(Event) /\ Len(DataOf(log, n)) = n
<1>1. \A k \in 1 .. n : log[k].data \in Event
    <2>1. \A k \in 1 .. n : log[k] \in LogEntry
        OBVIOUS
    <2> QED
        BY <2>1 DEF LogEntry
<1> QED
    BY <1>1 DEF DataOf

\* A further entry leaves the data before it and adds its own.
LEMMA DataAppended ==
    ASSUME NEW log \in Seq(LogEntry), NEW entry \in LogEntry
    PROVE  /\ \A n \in 1 .. Len(log) : DataOf(Append(log, entry), n) = DataOf(log, n)
           /\ DataOf(Append(log, entry), Len(log) + 1) = Append(DataOf(log, Len(log)), entry.data)
<1> DEFINE more == Append(log, entry)
<1>1. more[Len(log) + 1] = entry /\ \A k \in 1 .. Len(log) : more[k] = log[k]
    OBVIOUS
<1> HIDE DEF more
<1>2. \A n \in 1 .. Len(log) : DataOf(more, n) = DataOf(log, n)
    BY <1>1 DEF DataOf
<1>3. DataOf(more, Len(log) + 1) = Append(DataOf(log, Len(log)), entry.data)
    <2> DEFINE l == DataOf(more, Len(log) + 1)
               d == DataOf(log, Len(log))
               a == Append(d, entry.data)
    <2>1. d \in Seq(Event) /\ Len(d) = Len(log) /\ entry.data \in Event
        <3>1. Len(log) \in 0 .. Len(log)
            OBVIOUS
        <3>2. d \in Seq(Event) /\ Len(d) = Len(log)
            BY <3>1, DataType
        <3> QED
            BY <3>2 DEF LogEntry
    <2>2. a \in Seq(Event) /\ Len(a) = Len(log) + 1
        BY <2>1
    <2>3. a = [k \in 1 .. Len(log) + 1 |-> a[k]]
        BY <2>2
    <2>4. \A k \in 1 .. Len(log) : a[k] = d[k] /\ d[k] = log[k].data
        BY <2>1 DEF DataOf
    <2>5. a[Len(log) + 1] = entry.data
        BY <2>1
    <2>6. l = [k \in 1 .. Len(log) + 1 |-> more[k].data]
        BY DEF DataOf
    <2> HIDE DEF l, d, a
    <2>7. \A k \in 1 .. Len(log) + 1 : a[k] = more[k].data
        BY <1>1, <2>4, <2>5
    <2>8. l = a
        BY <2>3, <2>6, <2>7
    <2> QED
        BY <2>8 DEF l, a, d
<1> QED
    BY <1>2, <1>3 DEF more

\* The chain of hashes is kept by recording and by every change to the list.
LEMMA ChainInductive == Audit!Spec => []ChainInv
<1>1. Audit!Init => ChainInv
    BY DEF Audit!Init, ChainInv, LogTypeOK, DataOf, Audit!Genesis
<1>2. ChainInv /\ [Audit!Next]_(Audit!vars) => ChainInv'
    <2> SUFFICES ASSUME ChainInv, [Audit!Next]_(Audit!vars) PROVE ChainInv'
        OBVIOUS
    <2> USE DEF ChainInv, LogTypeOK
    <2>1. ASSUME NEW event \in Event, Audit!Record(event) PROVE ChainInv'
        <3> DEFINE n == Len(recorded)
                   h == Append(lastHmac, event)
                   entry == [data |-> event, integrity |-> h]
        <3>1. n \in Nat /\ lastHmac \in Seq(Event) /\ Len(lastHmac) = n
            BY DataType
        <3>2. h \in Seq(Event) /\ entry \in LogEntry
            BY <3>1 DEF LogEntry
        <3>3. /\ lastHmac' = h
              /\ entries' = Append(entries, entry)
              /\ recorded' = Append(recorded, entry)
            BY <2>1 DEF Audit!Record, Audit!Hmac
        <3>4. h = DataOf(recorded', n + 1)
            <4>1. DataOf(Append(recorded, entry), n + 1) = Append(DataOf(recorded, n), entry.data)
                BY <3>2, DataAppended
            <4> QED
                BY <3>3, <4>1
        <3>5. \A j \in 1 .. n : recorded'[j] = recorded[j] /\ DataOf(recorded', j) = DataOf(recorded, j)
            BY <3>2, <3>3, DataAppended
        <3>6. Len(recorded') = n + 1 /\ recorded'[n + 1] = entry
            BY <3>3
        <3> HIDE DEF n, h, entry
        <3>7. LogTypeOK' /\ lastHmac' = DataOf(recorded', Len(recorded'))
            BY <3>2, <3>3, <3>4, <3>6
        <3>8. \A j \in DOMAIN recorded' : recorded'[j].integrity = DataOf(recorded', j)
            BY <3>3, <3>4, <3>5, <3>6 DEF entry, n
        <3>9. \A i \in DOMAIN entries' : \E j \in DOMAIN recorded' :
                entries'[i].integrity = recorded'[j].integrity
            <4>1. DOMAIN recorded' = 1 .. (n + 1)
                BY <3>1, <3>3, <3>6
            <4>2. SUFFICES ASSUME NEW i \in DOMAIN entries'
                  PROVE \E j \in DOMAIN recorded' : entries'[i].integrity = recorded'[j].integrity
                OBVIOUS
            <4>3. CASE i \in DOMAIN entries
                <5>1. entries'[i] = entries[i]
                    BY <3>3, <4>3
                <5>2. PICK j \in 1 .. n : entries[i].integrity = recorded[j].integrity
                    BY <4>3 DEF n
                <5>3. j \in DOMAIN recorded'
                    BY <3>1, <4>1
                <5> QED
                    BY <5>1, <5>2, <5>3, <3>5
            <4>4. CASE i \notin DOMAIN entries
                <5>1. entries'[i] = entry
                    BY <3>3, <4>4
                <5> QED
                    BY <3>1, <3>6, <4>1, <5>1, SMTT(30)
            <4> QED
                BY <4>3, <4>4
        <3> QED
            BY <3>7, <3>8, <3>9
    <2>2. ASSUME NEW i \in DOMAIN entries, NEW event \in Event, Audit!Tamper(i, event) PROVE ChainInv'
        <3>1. entries' \in Seq(LogEntry) /\ DOMAIN entries' = DOMAIN entries
            <4> DEFINE e == [entries[i] EXCEPT !.data = event]
            <4>1. entries[i] \in LogEntry
                OBVIOUS
            <4>2. e \in LogEntry
                BY <4>1 DEF LogEntry
            <4>3. entries' = [entries EXCEPT ![i] = e]
                BY <2>2 DEF Audit!Tamper
            <4> HIDE DEF e
            <4> QED
                BY <4>2, <4>3
        <3>2. \A k \in DOMAIN entries : entries'[k].integrity = entries[k].integrity
            BY <2>2 DEF Audit!Tamper, LogEntry
        <3> QED
            BY <2>2, <3>1, <3>2 DEF Audit!Tamper
    <2>3. ASSUME NEW i \in DOMAIN entries, Audit!Drop(i) PROVE ChainInv'
        <3>1. entries' = SubSeq(entries, 1, i - 1) \o SubSeq(entries, i + 1, Len(entries))
            BY <2>3 DEF Audit!Drop, Audit!RemoveAt
        <3>2. i - 1 \in Nat /\ i - 1 <= Len(entries) /\ i + 1 \in Nat \ {0}
            OBVIOUS
        <3>3. entries' \in Seq(LogEntry) /\ \A k \in DOMAIN entries' : \E n \in DOMAIN entries : entries'[k] = entries[n]
            BY <3>1, <3>2, Spliced
        <3> QED
            BY <2>3, <3>3, SMTT(30) DEF Audit!Drop
    <2>4. ASSUME NEW i \in DOMAIN entries, Audit!Repeat(i) PROVE ChainInv'
        <3>1. entries' = SubSeq(entries, 1, i - 1) \o <<entries[i]>> \o SubSeq(entries, i, Len(entries))
            BY <2>4 DEF Audit!Repeat, Audit!InsertAt
        <3>2. SubSeq(entries, 1, i - 1) \o <<entries[i]>> = SubSeq(entries, 1, i)
            OBVIOUS
        <3>3. entries' = SubSeq(entries, 1, i) \o SubSeq(entries, i, Len(entries))
            BY <3>1, <3>2
        <3>4. i \in Nat \ {0} /\ i <= Len(entries)
            OBVIOUS
        <3>5. entries' \in Seq(LogEntry) /\ \A k \in DOMAIN entries' : \E n \in DOMAIN entries : entries'[k] = entries[n]
            BY <3>3, <3>4, Spliced
        <3> QED
            BY <2>4, <3>5 DEF Audit!Repeat
    <2>5. CASE UNCHANGED Audit!vars
        BY <2>5 DEF Audit!vars
    <2> QED
        BY <2>1, <2>2, <2>3, <2>4, <2>5 DEF Audit!Next
<1> QED
    BY <1>1, <1>2, PTL DEF Audit!Spec

\* Every nonempty set of natural numbers has a least one.
LEMMA Least ==
    ASSUME NEW S, S \subseteq Nat, S # {}
    PROVE  \E x \in S : \A y \in S : x <= y
<1> DEFINE R == {ss \in Nat \X Nat : ss[1] < ss[2]}
<1>1. IsWellFoundedOn(R, Nat)
    BY NatLessThanWellFounded, Zenon DEF OpToRel
<1>2. \A x, y \in Nat : x < y => <<x, y>> \in R
    OBVIOUS
<1> HIDE DEF R
<1>3. PICK x \in S : \A y \in S : ~ (<<y, x>> \in R)
    BY <1>1, WFMin, Zenon
<1>4. \A y \in S : ~ (y < x)
    BY <1>2, <1>3, Zenon
<1>5. \A y \in S : x <= y
    BY <1>4
<1> QED
    BY <1>5

\* Of a log of any length, however its list was changed: verify() finds the first entry
\* that is not the one recorded at its place, if there is one.
THEOREM ChangesFound == Audit!Spec => []Audit!TamperingFound
<1>1. ChainInv => Audit!TamperingFound
    <2> SUFFICES ASSUME ChainInv PROVE Audit!TamperingFound
        OBVIOUS
    <2> USE DEF ChainInv, LogTypeOK
    <2> DEFINE Right(i) == entries[i].integrity = Audit!Hmac(Audit!Previous(i), entries[i].data)
               broken == {i \in DOMAIN entries : ~Right(i)}
    <2>1. ASSUME NEW i \in DOMAIN entries PROVE Audit!Hmac(Audit!Previous(i), entries[i].data) = DataOf(entries, i)
        <3> DEFINE l == Append(Audit!Previous(i), entries[i].data)
        <3>1. Audit!Previous(i) = DataOf(entries, i - 1) /\ i - 1 \in 0 .. Len(entries)
            BY DEF Audit!Previous, DataOf
        <3>2. Audit!Previous(i) \in Seq(Event) /\ Len(Audit!Previous(i)) = i - 1
            BY <3>1, DataType
        <3>3. entries[i].data \in Event
            <4>1. entries[i] \in LogEntry
                OBVIOUS
            <4> QED
                BY <4>1 DEF LogEntry
        <3>4. l \in Seq(Event) /\ Len(l) = i
            BY <3>2, <3>3
        <3>5. l = [k \in 1 .. i |-> l[k]]
            BY <3>4
        <3>6. \A k \in 1 .. i : l[k] = entries[k].data
            BY <3>2, <3>3 DEF Audit!Previous
        <3> HIDE DEF l
        <3>7. l = [k \in 1 .. i |-> entries[k].data]
            BY <3>5, <3>6
        <3> QED
            BY <3>7 DEF Audit!Hmac, DataOf, l
    <2>2. ASSUME NEW m \in Nat, m <= Len(entries), \A i \in 1 .. m : Right(i)
          PROVE  m <= Len(recorded) /\ \A i \in 1 .. m : entries[i] = recorded[i]
        <3>1. ASSUME NEW i \in 1 .. m PROVE i \in DOMAIN recorded /\ entries[i] = recorded[i]
            <4>1. PICK j \in DOMAIN recorded : entries[i].integrity = recorded[j].integrity
                BY <2>2
            <4>2. DataOf(entries, i) = DataOf(recorded, j)
                BY <2>1, <2>2, <4>1
            <4>3. i = j
                <5>1. DOMAIN DataOf(entries, i) = 1 .. i /\ DOMAIN DataOf(recorded, j) = 1 .. j
                    BY DEF DataOf
                <5> QED
                    BY <5>1, <4>2
            <4>4. entries[i].data = recorded[i].data
                BY <4>2, <4>3 DEF DataOf
            <4>5. entries[i] \in LogEntry /\ recorded[i] \in LogEntry
                BY <4>3, <2>2
            <4>6. entries[i].integrity = recorded[i].integrity
                BY <4>1, <4>3
            <4>7. entries[i] = recorded[i]
                <5>1. \A e \in LogEntry : e = [data |-> e.data, integrity |-> e.integrity]
                    BY DEF LogEntry
                <5> QED
                    BY <4>4, <4>5, <4>6, <5>1
            <4> QED
                BY <4>3, <4>7
        <3> QED
            BY <3>1
    <2>3. ASSUME NEW i \in DOMAIN entries, i <= Len(recorded),
                 \A k \in 1 .. i : entries[k] = recorded[k]
          PROVE  Right(i)
        <3>1. DataOf(entries, i) = DataOf(recorded, i)
            BY <2>3 DEF DataOf
        <3> QED
            BY <2>1, <2>3, <3>1
    <2> HIDE DEF Right
    <2>4. ASSUME NEW m \in Nat, m <= Len(entries), m <= Len(recorded)
          PROVE  SubSeq(entries, 1, m) = SubSeq(recorded, 1, m) <=> \A i \in 1 .. m : entries[i] = recorded[i]
        <3>1. SubSeq(entries, 1, m) = [i \in 1 .. m |-> entries[i]]
            BY <2>4
        <3>2. SubSeq(recorded, 1, m) = [i \in 1 .. m |-> recorded[i]]
            BY <2>4
        <3> QED
            BY <3>1, <3>2
    <2>5. CASE broken = {}
        <3>1. Audit!Verify = 0
            BY <2>5 DEF Audit!Verify, Right
        <3>2. Audit!IsPrefix(entries, recorded)
            BY <2>5, <2>2, <2>4 DEF Audit!IsPrefix
        <3> QED
            BY <3>1, <3>2 DEF Audit!TamperingFound
    <2>6. CASE broken # {}
        <3>1. Audit!Verify = CHOOSE i \in broken : \A j \in broken : i <= j
            BY <2>6 DEF Audit!Verify, Right
        <3>2. \E i \in broken : \A j \in broken : i <= j
            <4>1. broken \subseteq Nat
                OBVIOUS
            <4> HIDE DEF broken
            <4> QED
                BY <2>6, <4>1, Least
        <3>3. Audit!Verify \in broken /\ \A j \in broken : Audit!Verify <= j
            BY <3>1, <3>2
        <3> DEFINE v == Audit!Verify
        <3>4. v \in 1 .. Len(entries) /\ ~Right(v)
            BY <3>3
        <3>5. \A i \in 1 .. (v - 1) : Right(i)
            BY <3>3, <3>4
        <3> HIDE DEF v
        <3>6. v - 1 <= Len(recorded) /\ \A i \in 1 .. (v - 1) : entries[i] = recorded[i]
            <4>1. v - 1 \in Nat /\ v - 1 <= Len(entries)
                BY <3>4
            <4> QED
                BY <2>2, <4>1, <3>5
        <3>7. ~Audit!IsPrefix(entries, recorded)
            <4>1. SUFFICES ASSUME Audit!IsPrefix(entries, recorded) PROVE FALSE
                OBVIOUS
            <4>2. Len(entries) <= Len(recorded) /\ \A i \in 1 .. Len(entries) : entries[i] = recorded[i]
                BY <4>1, <2>4 DEF Audit!IsPrefix
            <4> QED
                BY <4>2, <2>3, <3>4
        <3>8. Audit!IsPrefix(SubSeq(entries, 1, v - 1), recorded)
            <4>1. SubSeq(entries, 1, v - 1) = SubSeq(recorded, 1, v - 1)
                BY <2>4, <3>4, <3>6
            <4>2. Len(SubSeq(entries, 1, v - 1)) = v - 1
                BY <3>4
            <4>3. SubSeq(SubSeq(entries, 1, v - 1), 1, v - 1) = SubSeq(entries, 1, v - 1)
                BY <3>4
            <4> QED
                BY <4>1, <4>2, <4>3, <3>6 DEF Audit!IsPrefix
        <3> QED
            BY <3>4, <3>7, <3>8 DEF Audit!TamperingFound, v
    <2> QED
        BY <2>5, <2>6
<1> QED
    BY <1>1, ChainInductive, PTL

-----------------------------------------------------------------------------
(* All of it together, as it is checked.                                   *)

\* Every part takes steps of its own only.
LEMMA Parts ==
    MCSpec => /\ Spec
              /\ Buffer!Spec
              /\ Sessions!Spec
              /\ Group!Spec
              /\ Audit!Spec
<1>1. MCInit => Init /\ Buffer!Init /\ Sessions!Init /\ Group!Init /\ Audit!Init
    BY DEF MCInit
<1>2. [MCNext]_allVars => [Next]_vars
    <2>1. TeardownNext => Next
        BY CloserAssumption DEF TeardownNext, StartClose, Talk, AnswerClose, Arrive, Next
    <2> QED
        BY <2>1 DEF MCNext, allVars
<1>3. [MCNext]_allVars =>
         /\ [Buffer!Next]_(Buffer!vars)
         /\ [Sessions!Next]_(Sessions!vars)
         /\ [Group!Next]_(Group!vars)
         /\ [Audit!Next]_(Audit!vars)
    BY DEF MCNext, allVars, bufferVars, sessionVars, groupVars, auditVars,
           Buffer!vars, Sessions!vars, Group!vars, Audit!vars
<1> QED
    BY <1>1, <1>2, <1>3, PTL DEF MCSpec, Spec, Buffer!Spec, Sessions!Spec, Group!Spec, Audit!Spec

\* Of a channel, whether it is torn down in order or not.
THEOREM ChannelsAreSafe ==
    MCSpec => [](NonceUniqueLive /\ KeyAgreement /\ NoEarlyRefusal) /\ ImplementsAtMostOnceChannel
BY Parts, NoncesUnique, KeysAgree, NoNumberRefusedEarly, Refinement, PTL

\* Streams are handed on in sequence, for buffers and streams of every size.
THEOREM StreamsInSequence ==
    ASSUME MaxBufferSize \in Nat, StreamLength \in Nat
    PROVE  MCSpec => []Buffer!InSequence
BY Parts, StreamInSequence, PTL

\* Of every session: a key for each message, and a message of a session with a one-time
\* pre-key is opened once.
THEOREM EachMessageIsOpenedOnce == MCSpec => []EachMessageOnce
<1>1. Sessions!MessageKeysUnique /\ Sessions!OpenedOnce => EachMessageOnce
    BY DEF EachMessageOnce
<1>2. Sessions!Spec => []Sessions!OpenedOnce
    BY SessionAssumption, Sessions!OpensOnce
<1> QED
    BY <1>1, <1>2, Parts, Sessions!KeysAreUnique, PTL

\* Of every session with a one-time pre-key: what was opened stays shut.
THEOREM OpenedStaysShut == MCSpec => []ForwardSecrecy
<1>1. Sessions!ForwardSecrecy <=> ForwardSecrecy
    BY DEF ForwardSecrecy
<1>2. Sessions!Spec => []Sessions!ForwardSecrecy
    BY SessionAssumption, Sessions!ErasedKeysAreGone
<1> QED
    BY <1>1, <1>2, Parts, PTL

\* Of every session: the ends agree on the root key, save where the one-time pre-key was
\* used up, and then the first message to arrive opens.
THEOREM SessionsDoAgree == MCSpec => []SessionsAgree
<1>1. Sessions!RootKeysAgree /\ Sessions!FirstArrivalOpens => SessionsAgree
    BY DEF SessionsAgree
<1>2. Sessions!Spec => [](Sessions!RootKeysAgree /\ Sessions!FirstArrivalOpens)
    BY SessionAssumption, Sessions!HandshakesAgree
<1> QED
    BY <1>1, <1>2, Parts, PTL

\* Of groups of any number of members and epochs, whatever path updates and welcomes
\* arrive and in whichever order.
THEOREM EpochsDoAgree == MCSpec => []GroupEpochsAgree
BY Parts, GroupsInOrder, EpochsAgree, PTL

\* Whatever was done to the entries before the last is found, for any number of entries.
THEOREM TamperingIsFound == MCSpec => []TamperingFound
<1>1. Audit!TamperingFound <=> TamperingFound
    BY DEF TamperingFound
<1> QED
    BY <1>1, Parts, ChangesFound, PTL

=============================================================================
