---------------------------- MODULE SharingProofs ----------------------------
(***************************************************************************)
(* Theorems about threshold signing and multi-party computation as         *)
(* MCSharing puts them together: for any number of parties, any threshold, *)
(* and any number of sessions, nonces, rounds and messages.                *)
(***************************************************************************)
EXTENDS MCSharing, WellFoundedInduction, TLAPS

\* What Append() does to a sequence.
LEMMA Appended ==
    ASSUME NEW S, NEW s \in Seq(S), NEW e \in S
    PROVE  /\ Append(s, e) \in Seq(S)
           /\ Len(Append(s, e)) = Len(s) + 1 /\ Len(s) \in Nat
           /\ DOMAIN Append(s, e) = 1 .. Len(s) + 1 /\ DOMAIN s = 1 .. Len(s)
           /\ Append(s, e)[Len(s) + 1] = e
           /\ \A n \in DOMAIN s : Append(s, e)[n] = s[n]
           /\ \A n \in DOMAIN Append(s, e) : n = Len(s) + 1 \/ n \in DOMAIN s
OBVIOUS

-----------------------------------------------------------------------------
(* MPCSession.                                                             *)

phase == slot2
connectedParties == slot3
inputsReceived == slot4
aborted == slot7

\* No step leads back from where complete() and abort() lead to.
LEMMA SessionInductive ==
    /\ Session!Init => Session!SessionInv
    /\ Session!SessionInv /\ [Session!Next]_(Session!vars) => Session!SessionInv'
<1> USE DEF phase, connectedParties, inputsReceived, aborted, Session!SessionInv
<1>1. Session!Init => Session!SessionInv
    BY DEF Session!Init
<1>2. ASSUME Session!SessionInv, [Session!Next]_(Session!vars) PROVE Session!SessionInv'
    <2>1. ASSUME NEW party \in Name, Session!ConnectParty(party) PROVE Session!SessionInv'
        BY <1>2, <2>1 DEF Session!ConnectParty, Session!Counted
    <2>2. ASSUME NEW n \in 0 .. MaxTriples, Session!Preprocess(n) PROVE Session!SessionInv'
        BY <1>2, <2>2 DEF Session!Preprocess
    <2>3. ASSUME NEW party \in Name, Session!RecordInput(party) PROVE Session!SessionInv'
        BY <1>2, <2>3 DEF Session!RecordInput, Session!Counted
    <2>4. CASE Session!BeginOutput
        BY <1>2, <2>4 DEF Session!BeginOutput
    <2>5. CASE Session!Complete
        BY <1>2, <2>5 DEF Session!Complete
    <2>6. CASE Session!Abort
        BY <1>2, <2>6 DEF Session!Abort
    <2>7. CASE UNCHANGED Session!vars
        BY <1>2, <2>7 DEF Session!vars
    <2> QED
        BY <1>2, <2>1, <2>2, <2>3, <2>4, <2>5, <2>6, <2>7 DEF Session!Next
<1> QED
    BY <1>1, <1>2

\* Results are those of everybody's inputs.
LEMMA SessionSafe == Session!SessionInv => Session!ComputesForAll
BY DEF Session!SessionInv, Session!ComputesForAll

-----------------------------------------------------------------------------
(* EchoBroadcast.                                                          *)

broadcastSeq == slot1
sendSeq == slot2
network == slot3
recvSeq == slot4
received == slot5
echoes == slot6
equivocated == slot7

\* A broadcast goes to every channel with the number that the channel is at.
LEMMA BroadcastStep ==
    ASSUME Echoes!EchoInv, NEW payload \in Payload, Echoes!Broadcast(payload)
    PROVE  Echoes!EchoInv'
<1> USE DEF broadcastSeq, sendSeq, network, recvSeq, received, echoes, equivocated
<1> DEFINE sent == {Echoes!Send(r, sendSeq[r], Echoes!Tagged(broadcastSeq, payload)) : r \in Receiver}
<1>1. /\ network' = network \cup sent
      /\ sendSeq' = [r \in Receiver |-> sendSeq[r] + 1]
      /\ broadcastSeq' = broadcastSeq + 1
      /\ UNCHANGED <<recvSeq, received, echoes, equivocated>>
    BY DEF Echoes!Broadcast
<1>2. Echoes!EchoTypeOK
    BY DEF Echoes!EchoInv
<1>3. \A message \in sent :
        /\ message \in Echoes!Message
        /\ \E r \in Receiver : message.content.number = broadcastSeq /\ message.seq = sendSeq[r]
    <2> SUFFICES ASSUME NEW r \in Receiver, NEW message,
                        message = Echoes!Send(r, sendSeq[r], Echoes!Tagged(broadcastSeq, payload))
                 PROVE  /\ message \in Echoes!Message
                        /\ message.content.number = broadcastSeq /\ message.seq = sendSeq[r]
        OBVIOUS
    <2>1. sendSeq[r] \in Nat /\ broadcastSeq \in Nat
        BY <1>2 DEF Echoes!EchoTypeOK
    <2>2. message = [to |-> r, seq |-> sendSeq[r],
                     content |-> [number |-> broadcastSeq, payload |-> payload]]
        BY DEF Echoes!Send, Echoes!Tagged
    <2> HIDE DEF sendSeq, broadcastSeq
    <2> QED
        BY <2>1, <2>2 DEF Echoes!Message, Echoes!Content
<1> HIDE DEF sent
<1>4. Echoes!EchoTypeOK'
    BY <1>1, <1>2, <1>3 DEF Echoes!EchoTypeOK
<1>5. \A e \in echoes' : \E r \in Receiver : \E n \in DOMAIN received'[r] :
        e = Echoes!Echo(r, received'[r][n])
    BY <1>1 DEF Echoes!EchoInv
<1>6. ASSUME ~equivocated
      PROVE  /\ \A r \in Receiver : sendSeq'[r] = broadcastSeq'
             /\ \A message \in network' : message.content.number = message.seq
    BY <1>1, <1>3, <1>6 DEF Echoes!EchoInv
<1> QED
    BY <1>1, <1>4, <1>5, <1>6 DEF Echoes!EchoInv

\* Once the broadcaster equivocates the order of numbers is not asked for.
LEMMA EquivocateStep ==
    ASSUME Echoes!EchoInv, NEW to \in Receiver, NEW number \in Echoes!Number,
           NEW payload \in Payload, Echoes!Equivocate(to, number, payload)
    PROVE  Echoes!EchoInv'
<1> USE DEF broadcastSeq, sendSeq, network, recvSeq, received, echoes, equivocated
<1> DEFINE sent == Echoes!Send(to, sendSeq[to], Echoes!Tagged(number, payload))
<1>1. /\ network' = network \cup {sent}
      /\ sendSeq' = [sendSeq EXCEPT ![to] = sendSeq[to] + 1]
      /\ equivocated' = TRUE
      /\ UNCHANGED <<broadcastSeq, recvSeq, received, echoes>>
    BY DEF Echoes!Equivocate
<1>2. Echoes!EchoTypeOK
    BY DEF Echoes!EchoInv
<1>3. sent \in Echoes!Message
    BY <1>2, SendsAssumption
    DEF Echoes!Send, Echoes!Tagged, Echoes!Message, Echoes!Content, Echoes!EchoTypeOK, Echoes!Number
<1> HIDE DEF sent
<1>4. Echoes!EchoTypeOK'
    BY <1>1, <1>2, <1>3 DEF Echoes!EchoTypeOK
<1> QED
    BY <1>1, <1>4 DEF Echoes!EchoInv

\* A message that is taken has a later number than those before it.
LEMMA ProcessBroadcastStep ==
    ASSUME Echoes!EchoInv, NEW message \in network, Echoes!ProcessBroadcast(message)
    PROVE  Echoes!EchoInv'
<1> USE DEF broadcastSeq, sendSeq, network, recvSeq, received, echoes, equivocated
<1> DEFINE to == message.to
           content == message.content
           taken == Append(received[to], content)
<1>1. Echoes!EchoTypeOK
    BY DEF Echoes!EchoInv
<1>2. to \in Receiver /\ message.seq \in Nat /\ content \in Echoes!Content /\ content.number \in Nat
    BY <1>1 DEF Echoes!EchoTypeOK, Echoes!Message, Echoes!Content
<1>3. /\ message.seq >= recvSeq[to]
      /\ recvSeq' = [recvSeq EXCEPT ![to] = message.seq + 1]
      /\ received' = [received EXCEPT ![to] = taken]
      /\ echoes' = echoes \cup {Echoes!Echo(to, content)}
      /\ UNCHANGED <<broadcastSeq, sendSeq, network, equivocated>>
    BY DEF Echoes!ProcessBroadcast, Echoes!Fresh
<1>4. /\ received[to] \in Seq(Echoes!Content) /\ taken \in Seq(Echoes!Content)
      /\ Len(taken) = Len(received[to]) + 1
      /\ taken[Len(taken)] = content
      /\ \A n \in DOMAIN received[to] : taken[n] = received[to][n]
    BY <1>1, <1>2 DEF Echoes!EchoTypeOK
<1> HIDE DEF to, content, taken
<1>5. /\ received'[to] = taken /\ recvSeq'[to] = message.seq + 1
      /\ \A r \in Receiver : r # to => received'[r] = received[r] /\ recvSeq'[r] = recvSeq[r]
      /\ DOMAIN received[to] = 1 .. Len(taken) - 1 /\ DOMAIN taken = 1 .. Len(taken)
      /\ Len(taken) \in Nat \ {0}
    BY <1>1, <1>2, <1>3, <1>4 DEF Echoes!EchoTypeOK
<1>6. Echoes!EchoTypeOK'
    BY <1>1, <1>2, <1>3, <1>4 DEF Echoes!EchoTypeOK
<1>7. \A e \in echoes' : \E r \in Receiver : \E n \in DOMAIN received'[r] :
        e = Echoes!Echo(r, received'[r][n])
    <2> SUFFICES ASSUME NEW e \in echoes'
                 PROVE  \E r \in Receiver : \E n \in DOMAIN received'[r] :
                            e = Echoes!Echo(r, received'[r][n])
        OBVIOUS
    <2>1. CASE e = Echoes!Echo(to, content)
        <3>1. Len(taken) \in DOMAIN received'[to]
            BY <1>5
        <3>2. e = Echoes!Echo(to, received'[to][Len(taken)])
            BY <2>1, <1>4, <1>5
        <3> QED
            BY <3>1, <3>2, <1>2
    <2>2. CASE e \in echoes
        <3>1. PICK r \in Receiver : \E n \in DOMAIN received[r] : e = Echoes!Echo(r, received[r][n])
            BY <2>2 DEF Echoes!EchoInv
        <3>2. PICK n \in DOMAIN received[r] : e = Echoes!Echo(r, received[r][n])
            BY <3>1
        <3>3. n \in DOMAIN received'[r] /\ received'[r][n] = received[r][n]
            BY <3>2, <1>4, <1>5
        <3> QED
            BY <3>2, <3>3
    <2> QED
        BY <1>3, <2>1, <2>2
<1>8. ASSUME ~equivocated
      PROVE  /\ \A r \in Receiver : \A n \in DOMAIN received'[r] : received'[r][n].number < recvSeq'[r]
             /\ \A r \in Receiver : \A m, n \in DOMAIN received'[r] :
                  m < n => received'[r][m].number < received'[r][n].number
    <2>1. content.number = message.seq
        BY <1>8 DEF Echoes!EchoInv, content
    <2>2. \A n \in DOMAIN received[to] :
            /\ received[to][n].number < recvSeq[to]
            /\ received[to][n].number \in Nat
        <3>1. \A n \in DOMAIN received[to] : received[to][n].number < recvSeq[to]
            BY <1>2, <1>8 DEF Echoes!EchoInv
        <3>2. \A n \in DOMAIN received[to] : received[to][n] \in Echoes!Content
            BY <1>4
        <3> QED
            BY <3>1, <3>2 DEF Echoes!Content
    <2>3. recvSeq[to] \in Nat
        BY <1>1, <1>2 DEF Echoes!EchoTypeOK
    <2>4. \A n \in DOMAIN taken : taken[n].number < message.seq + 1
        <3> SUFFICES ASSUME NEW n \in DOMAIN taken PROVE taken[n].number < message.seq + 1
            OBVIOUS
        <3>1. CASE n = Len(taken)
            BY <3>1, <1>2, <1>4, <2>1
        <3>2. CASE n # Len(taken)
            <4>1. n \in DOMAIN received[to]
                BY <3>2, <1>5
            <4>2. taken[n].number < recvSeq[to] /\ taken[n].number \in Nat
                BY <4>1, <1>4, <2>2
            <4> QED
                BY <4>2, <1>2, <1>3, <2>3
        <3> QED
            BY <3>1, <3>2
    <2>5. \A m, n \in DOMAIN received[to] : m < n => received[to][m].number < received[to][n].number
        BY <1>2, <1>8 DEF Echoes!EchoInv
    <2>6. \A m, n \in DOMAIN taken : m < n => taken[m].number < taken[n].number
        <3> SUFFICES ASSUME NEW m \in DOMAIN taken, NEW n \in DOMAIN taken, m < n
                     PROVE  taken[m].number < taken[n].number
            OBVIOUS
        <3>1. m \in DOMAIN received[to]
            BY <1>5
        <3>2. CASE n = Len(taken)
            BY <3>1, <3>2, <1>2, <1>3, <1>4, <2>1, <2>2, <2>3
        <3>3. CASE n # Len(taken)
            <4>1. n \in DOMAIN received[to]
                BY <3>3, <1>5
            <4> QED
                BY <3>1, <4>1, <1>4, <2>5
        <3> QED
            BY <3>2, <3>3
    <2> QED
        BY <1>5, <1>8, <2>4, <2>6 DEF Echoes!EchoInv
<1> QED
    BY <1>3, <1>6, <1>7, <1>8 DEF Echoes!EchoInv

\* The invariant of the broadcasts.
LEMMA EchoInductive ==
    /\ Echoes!Init => Echoes!EchoInv
    /\ Echoes!EchoInv /\ [Echoes!Next]_(Echoes!vars) => Echoes!EchoInv'
<1>1. Echoes!Init => Echoes!EchoInv
    <2> SUFFICES ASSUME Echoes!Init PROVE Echoes!EchoInv
        OBVIOUS
    <2>1. \A r \in Receiver : received[r] = << >> /\ sendSeq[r] = 0
        BY DEF Echoes!Init, received, sendSeq
    <2>2. Echoes!EchoTypeOK
        <3>1. received \in [Receiver -> Seq(Echoes!Content)]
            BY DEF Echoes!Init, received
        <3> QED
            BY <3>1 DEF Echoes!Init, Echoes!EchoTypeOK, received
    <2> QED
        BY <2>1, <2>2 DEF Echoes!Init, Echoes!EchoInv, received, sendSeq
<1>2. Echoes!EchoInv /\ UNCHANGED Echoes!vars => Echoes!EchoInv'
    BY DEF Echoes!vars, Echoes!EchoInv, Echoes!EchoTypeOK
<1>3. Echoes!EchoInv /\ Echoes!Next => Echoes!EchoInv'
    BY BroadcastStep, EquivocateStep, ProcessBroadcastStep DEF Echoes!Next, network
<1> QED
    BY <1>1, <1>2, <1>3

\* Echoes that verify are of what was received.
LEMMA EchoesSafe == Echoes!EchoInv => Echoes!EchoesAgree
<1> USE DEF broadcastSeq, sendSeq, network, recvSeq, received, echoes, equivocated
<1> SUFFICES ASSUME Echoes!EchoInv PROVE Echoes!EchoesAgree
    OBVIOUS
<1>1. ASSUME NEW parties \in SUBSET Receiver, NEW number \in Echoes!Number, NEW payload \in Payload,
             NEW given \in [parties -> echoes],
             Echoes!VerifyEchoes(given, Echoes!Tagged(number, payload)),
             NEW p \in parties
      PROVE  Echoes!Tagged(number, payload) \in Echoes!ToSet(received[p])
    <2> DEFINE expected == Echoes!Tagged(number, payload)
    <2>1. Echoes!Echo(p, expected) \in echoes
        BY <1>1 DEF Echoes!VerifyEchoes
    <2> HIDE DEF expected
    <2>2. PICK r \in Receiver : \E n \in DOMAIN received[r] :
                Echoes!Echo(p, expected) = Echoes!Echo(r, received[r][n])
        BY <2>1 DEF Echoes!EchoInv
    <2>3. PICK n \in DOMAIN received[r] : Echoes!Echo(p, expected) = Echoes!Echo(r, received[r][n])
        BY <2>2
    <2>4. p = r /\ expected = received[r][n]
        BY <2>3 DEF Echoes!Echo
    <2> QED
        BY <2>3, <2>4 DEF Echoes!ToSet, expected
<1>2. ~equivocated => \A r \in Receiver : \A m, n \in DOMAIN received[r] :
            m < n => received[r][m].number < received[r][n].number
    BY DEF Echoes!EchoInv
<1> QED
    BY <1>1, <1>2 DEF Echoes!EchoesAgree

-----------------------------------------------------------------------------
(* ThresholdWallet.                                                        *)

array == slot3
signer == slot4
wallet == slot5
beacon == slot6

\* What a signature of the system's shares is.
LEMMA PartialRight ==
    ASSUME Wallet!WalletInv, Wallet!Initialized, NEW party \in Wallet!Signer
    PROVE  /\ Wallet!Partial(signer, party) \in Wallet!Part
           /\ Wallet!Partial(signer, party).shares = signer
<1> USE DEF array, signer, wallet, beacon
<1>1. array[signer] \in Nat /\ signer \in Nat
    BY DEF Wallet!WalletInv, Wallet!Initialized
<1> QED
    BY <1>1 DEF Wallet!Partial, Wallet!Part

\* A new array of shares comes with a wallet and a beacon that hold it.
LEMMA InitializeDoneStep ==
    ASSUME Wallet!WalletInv, Wallet!InitializeDone
    PROVE  Wallet!WalletInv'
<1> USE DEF array, signer, wallet, beacon
<1>1. /\ array' = Append(array, 0)
      /\ signer' = Len(array) + 1
      /\ wallet' = [shares |-> Len(array) + 1, nonce |-> 0, pendingTx |-> << >>, executed |-> 0]
      /\ beacon' = [shares |-> Len(array) + 1, round |-> 0, partials |-> << >>, history |-> << >>]
    BY DEF Wallet!InitializeDone, Wallet!NoWallet, Wallet!NoBeacon
<1>2. array \in Seq(Nat) /\ Len(array) \in Nat
    BY DEF Wallet!WalletInv
<1>3. array' \in Seq(Nat) /\ Len(array') = Len(array) + 1
    BY <1>1, <1>2
<1>4. wallet' \in Wallet!WalletState /\ beacon' \in Wallet!BeaconState
    BY <1>1, <1>2 DEF Wallet!WalletState, Wallet!BeaconState
<1>5. wallet'.pendingTx = << >> /\ beacon'.partials = << >> /\ beacon'.history = << >>
    BY <1>1
<1> QED
    BY <1>1, <1>2, <1>3, <1>4, <1>5 DEF Wallet!WalletInv, Wallet!BySystem

\* A refresh writes in the array that everyone holds.
LEMMA RefreshSharesStep ==
    ASSUME Wallet!WalletInv, Wallet!RefreshShares
    PROVE  Wallet!WalletInv'
<1> USE DEF array, signer, wallet, beacon
<1>1. signer \in 1 .. Len(array) /\ array \in Seq(Nat)
    BY DEF Wallet!WalletInv, Wallet!RefreshShares, Wallet!Initialized
<1>2. array' = [array EXCEPT ![signer] = array[signer] + 1] /\ UNCHANGED <<signer, wallet, beacon>>
    BY DEF Wallet!RefreshShares
<1>3. array' \in Seq(Nat) /\ Len(array') = Len(array)
    BY <1>1, <1>2
<1> QED
    BY <1>2, <1>3 DEF Wallet!WalletInv, Wallet!BySystem, Wallet!Initialized

\* A transaction is proposed without signatures.
LEMMA ProposeStep ==
    ASSUME Wallet!WalletInv, Wallet!ProposeTransaction
    PROVE  Wallet!WalletInv'
<1> USE DEF array, signer, wallet, beacon
<1> DEFINE tx == [nonce |-> wallet.nonce, status |-> "pending", signatures |-> << >>]
           more == Append(wallet.pendingTx, tx)
<1>1. wallet \in Wallet!WalletState /\ Wallet!Initialized /\ UNCHANGED <<array, signer, beacon>>
    BY DEF Wallet!WalletInv, Wallet!ProposeTransaction
<1>2. wallet.pendingTx \in Seq(Wallet!Transaction) /\ wallet.nonce \in Nat
    BY <1>1 DEF Wallet!WalletState
<1>3. tx \in Wallet!Transaction /\ Len(tx.signatures) = 0 /\ DOMAIN tx.signatures = {}
    BY <1>2 DEF Wallet!Transaction, Wallet!Status
<1>4. wallet' = [wallet EXCEPT !.pendingTx = more, !.nonce = wallet.nonce + 1]
    BY DEF Wallet!ProposeTransaction
<1>5. ~Wallet!Signed(tx)
    BY DEF Wallet!Signed
<1> HIDE DEF tx
<1>6. /\ more \in Seq(Wallet!Transaction)
      /\ \A i \in DOMAIN more : more[i] = tx \/ (i \in DOMAIN wallet.pendingTx /\ more[i] = wallet.pendingTx[i])
    BY <1>2, <1>3, Appended
<1> HIDE DEF more
<1>7. /\ wallet' \in Wallet!WalletState /\ wallet'.shares = wallet.shares
      /\ wallet'.pendingTx = more
    <2>1. wallet' = [shares |-> wallet.shares, nonce |-> wallet.nonce + 1, pendingTx |-> more,
                     executed |-> wallet.executed]
        BY <1>1, <1>4 DEF Wallet!WalletState
    <2> QED
        BY <1>1, <1>2, <1>6, <2>1 DEF Wallet!WalletState
<1>8. \A i \in DOMAIN more :
        /\ Len(more[i].signatures) <= Threshold
        /\ Wallet!Signed(more[i]) <=> Len(more[i].signatures) = Threshold
        /\ \A j \in DOMAIN more[i].signatures : more[i].signatures[j].shares = signer
    BY <1>3, <1>5, <1>6, SigningAssumption DEF Wallet!WalletInv, Wallet!BySystem
<1> QED
    BY <1>1, <1>7, <1>8 DEF Wallet!WalletInv, Wallet!BySystem, Wallet!Initialized

\* What is done to a transaction keeps the invariant if it does so of the transaction.
LEMMA TransactionChanged ==
    ASSUME Wallet!WalletInv, NEW tx \in DOMAIN wallet.pendingTx, NEW t \in Wallet!Transaction,
           Len(t.signatures) <= Threshold,
           Wallet!Signed(t) <=> Len(t.signatures) = Threshold,
           Wallet!BySystem(t.signatures),
           wallet' \in Wallet!WalletState, wallet'.shares = wallet.shares,
           wallet'.pendingTx = [wallet.pendingTx EXCEPT ![tx] = t],
           UNCHANGED <<array, signer, beacon>>
    PROVE  Wallet!WalletInv'
<1> USE DEF array, signer, wallet, beacon
<1>1. wallet.pendingTx \in Seq(Wallet!Transaction)
    BY DEF Wallet!WalletInv, Wallet!WalletState
<1>2. /\ DOMAIN wallet'.pendingTx = DOMAIN wallet.pendingTx
      /\ \A i \in DOMAIN wallet.pendingTx :
            wallet'.pendingTx[i] = t \/ wallet'.pendingTx[i] = wallet.pendingTx[i]
    BY <1>1
<1>3. \A i \in DOMAIN wallet'.pendingTx :
        /\ Len(wallet'.pendingTx[i].signatures) <= Threshold
        /\ Wallet!Signed(wallet'.pendingTx[i]) <=> Len(wallet'.pendingTx[i].signatures) = Threshold
        /\ \A j \in DOMAIN wallet'.pendingTx[i].signatures :
              wallet'.pendingTx[i].signatures[j].shares = signer
    BY <1>2 DEF Wallet!WalletInv, Wallet!BySystem
<1>4. Wallet!Initialized
    BY <1>1 DEF Wallet!WalletInv
<1> QED
    BY <1>3, <1>4 DEF Wallet!WalletInv, Wallet!BySystem, Wallet!Initialized

\* A transaction takes one more signature only while it has less than it needs.
LEMMA SignTransactionStep ==
    ASSUME Wallet!WalletInv, NEW tx \in DOMAIN wallet.pendingTx, NEW party \in Wallet!Signer,
           Wallet!SignTransaction(tx, party)
    PROVE  Wallet!WalletInv'
<1> USE DEF array, signer, wallet, beacon
<1> DEFINE t == wallet.pendingTx[tx]
           made == Wallet!Partial(wallet.shares, party)
           more == Append(t.signatures, made)
           new == [t EXCEPT !.signatures = more,
                            !.status = IF Len(more) >= Threshold THEN "signed" ELSE "pending"]
<1>1. /\ t.status = "pending"
      /\ wallet' = [wallet EXCEPT !.pendingTx[tx] = new]
      /\ UNCHANGED <<array, signer, beacon>>
    BY DEF Wallet!SignTransaction
<1>2. wallet \in Wallet!WalletState /\ wallet.shares = signer /\ wallet.pendingTx \in Seq(Wallet!Transaction)
    BY DEF Wallet!WalletInv, Wallet!WalletState
<1>3. t \in Wallet!Transaction /\ t.signatures \in Seq(Wallet!Part)
    <2>1. t \in Wallet!Transaction
        BY <1>2
    <2> QED
        BY <2>1 DEF Wallet!Transaction
<1>4. Len(t.signatures) < Threshold /\ Wallet!BySystem(t.signatures)
    <2>1. /\ Len(t.signatures) <= Threshold /\ Wallet!BySystem(t.signatures)
          /\ Wallet!Signed(t) <=> Len(t.signatures) = Threshold
        BY DEF Wallet!WalletInv
    <2>2. ~Wallet!Signed(t)
        BY <1>1 DEF Wallet!Signed
    <2> QED
        BY <2>1, <2>2, <1>3, SigningAssumption
<1>5. made \in Wallet!Part /\ made.shares = signer
    <2>1. Wallet!Initialized
        BY <1>2 DEF Wallet!WalletInv
    <2> QED
        BY <2>1, <1>2, PartialRight
<1> HIDE DEF t, made
<1>6. /\ more \in Seq(Wallet!Part) /\ Len(more) = Len(t.signatures) + 1
      /\ \A j \in DOMAIN more : more[j] = made \/ (j \in DOMAIN t.signatures /\ more[j] = t.signatures[j])
    BY <1>3, <1>5, Appended
<1> HIDE DEF more
<1>7. /\ new \in Wallet!Transaction /\ new.signatures = more
      /\ new.status = IF Len(more) >= Threshold THEN "signed" ELSE "pending"
    BY <1>3, <1>6 DEF Wallet!Transaction, Wallet!Status
<1> HIDE DEF new
<1>8. /\ wallet' \in Wallet!WalletState /\ wallet'.shares = wallet.shares
      /\ wallet'.pendingTx = [wallet.pendingTx EXCEPT ![tx] = new]
    <2>1. [wallet.pendingTx EXCEPT ![tx] = new] \in Seq(Wallet!Transaction)
        BY <1>2, <1>7
    <2> QED
        BY <1>1, <1>2, <2>1 DEF Wallet!WalletState
<1>9. Len(more) <= Threshold /\ (Wallet!Signed(new) <=> Len(more) = Threshold)
    BY <1>3, <1>4, <1>6, <1>7, SigningAssumption DEF Wallet!Signed
<1>10. Wallet!BySystem(more)
    BY <1>4, <1>5, <1>6 DEF Wallet!BySystem
<1> QED
    BY <1>1, <1>7, <1>8, <1>9, <1>10, TransactionChanged

\* Executing a transaction, or failing to, leaves its signatures.
LEMMA ExecuteStep ==
    ASSUME Wallet!WalletInv, NEW tx \in DOMAIN wallet.pendingTx, Wallet!ExecuteTransaction(tx)
    PROVE  Wallet!WalletInv'
<1> USE DEF array, signer, wallet, beacon
<1> DEFINE t == wallet.pendingTx[tx]
<1>1. wallet \in Wallet!WalletState /\ wallet.pendingTx \in Seq(Wallet!Transaction)
    BY DEF Wallet!WalletInv, Wallet!WalletState
<1>2. t \in Wallet!Transaction /\ t.signatures \in Seq(Wallet!Part)
    <2>1. t \in Wallet!Transaction
        BY <1>1
    <2> QED
        BY <2>1 DEF Wallet!Transaction
<1>3. Len(t.signatures) = Threshold /\ Wallet!BySystem(t.signatures)
    BY <1>2, SigningAssumption DEF Wallet!WalletInv, Wallet!ExecuteTransaction
<1>4. PICK status1 \in {"executed", "rejected"} :
        /\ \/ wallet' = [wallet EXCEPT !.pendingTx[tx].status = status1,
                                      !.executed = wallet.executed + 1]
           \/ wallet' = [wallet EXCEPT !.pendingTx[tx].status = status1]
        /\ UNCHANGED <<array, signer, beacon>>
    BY DEF Wallet!ExecuteTransaction
<1> DEFINE new == [t EXCEPT !.status = status1]
<1>5. new \in Wallet!Transaction /\ new.signatures = t.signatures /\ new.status = status1
    BY <1>2 DEF Wallet!Transaction, Wallet!Status
<1>6. /\ wallet' \in Wallet!WalletState /\ wallet'.shares = wallet.shares
      /\ wallet'.pendingTx = [wallet.pendingTx EXCEPT ![tx] = new]
    <2>1. [wallet.pendingTx EXCEPT ![tx] = new] \in Seq(Wallet!Transaction)
        BY <1>1, <1>5
    <2>2. \/ wallet' = [wallet EXCEPT !.pendingTx = [wallet.pendingTx EXCEPT ![tx] = new],
                                     !.executed = wallet.executed + 1]
          \/ wallet' = [wallet EXCEPT !.pendingTx = [wallet.pendingTx EXCEPT ![tx] = new]]
        BY <1>4
    <2> DEFINE txs == [wallet.pendingTx EXCEPT ![tx] = new]
    <2> HIDE DEF txs
    <2>3. \E n \in Nat :
            wallet' = [shares |-> wallet.shares, nonce |-> wallet.nonce, pendingTx |-> txs, executed |-> n]
        <3>1. wallet.executed \in Nat /\ wallet.executed + 1 \in Nat
            BY <1>1 DEF Wallet!WalletState
        <3>2. CASE wallet' = [wallet EXCEPT !.pendingTx = txs]
            <4>1. wallet' = [shares |-> wallet.shares, nonce |-> wallet.nonce, pendingTx |-> txs,
                             executed |-> wallet.executed]
                BY <1>1, <3>2 DEF Wallet!WalletState
            <4> QED
                BY <3>1, <4>1
        <3>3. CASE wallet' = [wallet EXCEPT !.pendingTx = txs, !.executed = wallet.executed + 1]
            <4>1. wallet' = [shares |-> wallet.shares, nonce |-> wallet.nonce, pendingTx |-> txs,
                             executed |-> wallet.executed + 1]
                BY <1>1, <3>3 DEF Wallet!WalletState
            <4> QED
                BY <3>1, <4>1
        <3> QED
            BY <2>2, <3>2, <3>3 DEF txs
    <2>4. txs \in Seq(Wallet!Transaction)
        BY <2>1 DEF txs
    <2> QED
        BY <1>1, <2>3, <2>4 DEF Wallet!WalletState, txs
<1>7. Wallet!Signed(new)
    BY <1>5 DEF Wallet!Signed
<1> HIDE DEF new, t
<1>8. Len(new.signatures) <= Threshold /\ (Wallet!Signed(new) <=> Len(new.signatures) = Threshold)
    BY <1>3, <1>5, <1>7, SigningAssumption
<1> QED
    BY <1>3, <1>4, <1>5, <1>6, <1>8, TransactionChanged

\* A beacon takes no more contributions than it combines.
LEMMA BeaconPartialStep ==
    ASSUME Wallet!WalletInv, NEW party \in Wallet!Signer, Wallet!GenerateBeaconPartial(party)
    PROVE  Wallet!WalletInv'
<1> USE DEF array, signer, wallet, beacon
<1> DEFINE made == Wallet!Partial(beacon.shares, party)
           more == Append(beacon.partials, made)
<1>1. Wallet!Initialized /\ UNCHANGED <<array, signer, wallet>> /\ beacon' = [beacon EXCEPT !.partials = more]
    BY DEF Wallet!GenerateBeaconPartial
<1>2. beacon \in Wallet!BeaconState /\ beacon.shares = signer /\ beacon.partials \in Seq(Wallet!Part)
    BY DEF Wallet!WalletInv, Wallet!BeaconState
<1>3. made \in Wallet!Part /\ made.shares = signer
    BY <1>1, <1>2, PartialRight
<1> HIDE DEF made
<1>4. /\ more \in Seq(Wallet!Part)
      /\ \A j \in DOMAIN more : more[j] = made \/ (j \in DOMAIN beacon.partials /\ more[j] = beacon.partials[j])
    BY <1>2, <1>3, Appended
<1> HIDE DEF more
<1>5. /\ beacon' \in Wallet!BeaconState /\ beacon'.shares = signer
      /\ beacon'.partials = more /\ beacon'.history = beacon.history
    <2>1. beacon' = [shares |-> beacon.shares, round |-> beacon.round, partials |-> more,
                     history |-> beacon.history]
        BY <1>1, <1>2 DEF Wallet!BeaconState
    <2> QED
        BY <1>2, <1>4, <2>1 DEF Wallet!BeaconState
<1>6. \A j \in DOMAIN more : more[j].shares = signer
    <2>1. \A j \in DOMAIN beacon.partials : beacon.partials[j].shares = signer
        BY DEF Wallet!WalletInv, Wallet!BySystem
    <2> QED
        BY <1>3, <1>4, <2>1
<1> QED
    BY <1>1, <1>5, <1>6 DEF Wallet!WalletInv, Wallet!BySystem, Wallet!Initialized

\* A round takes the first contributions.
LEMMA FinalizeBeaconStep ==
    ASSUME Wallet!WalletInv, Wallet!FinalizeBeacon
    PROVE  Wallet!WalletInv'
<1> USE DEF array, signer, wallet, beacon
<1> DEFINE taken == SubSeq(beacon.partials, 1, Threshold)
           more == Append(beacon.history, taken)
<1>1. /\ Wallet!Initialized /\ UNCHANGED <<array, signer, wallet>>
      /\ Len(beacon.partials) >= Threshold
      /\ beacon' = [beacon EXCEPT !.history = more, !.round = beacon.round + 1, !.partials = << >>]
    BY DEF Wallet!FinalizeBeacon
<1>2. /\ beacon \in Wallet!BeaconState /\ beacon.shares = signer
      /\ beacon.partials \in Seq(Wallet!Part) /\ beacon.history \in Seq(Seq(Wallet!Part))
      /\ beacon.round \in Nat
    BY DEF Wallet!WalletInv, Wallet!BeaconState
<1>3. /\ taken \in Seq(Wallet!Part) /\ Len(taken) = Threshold
      /\ \A j \in DOMAIN taken : j \in DOMAIN beacon.partials /\ taken[j] = beacon.partials[j]
    BY <1>1, <1>2, SigningAssumption
<1> HIDE DEF taken
<1>4. /\ more \in Seq(Seq(Wallet!Part))
      /\ \A r \in DOMAIN more : more[r] = taken \/ (r \in DOMAIN beacon.history /\ more[r] = beacon.history[r])
    BY <1>2, <1>3, Appended
<1> HIDE DEF more
<1>5. /\ beacon' \in Wallet!BeaconState /\ beacon'.shares = signer
      /\ beacon'.partials = << >> /\ beacon'.history = more
    <2>1. beacon' = [shares |-> beacon.shares, round |-> beacon.round + 1, partials |-> << >>,
                     history |-> more]
        BY <1>1, <1>2 DEF Wallet!BeaconState
    <2> QED
        BY <1>2, <1>4, <2>1 DEF Wallet!BeaconState
<1>6. \A r \in DOMAIN more :
        Len(more[r]) = Threshold /\ \A j \in DOMAIN more[r] : more[r][j].shares = signer
    <2>1. \A j \in DOMAIN taken : taken[j].shares = signer
        BY <1>3 DEF Wallet!WalletInv, Wallet!BySystem
    <2>2. \A r \in DOMAIN beacon.history :
            /\ Len(beacon.history[r]) = Threshold
            /\ \A j \in DOMAIN beacon.history[r] : beacon.history[r][j].shares = signer
        BY DEF Wallet!WalletInv, Wallet!BySystem
    <2> SUFFICES ASSUME NEW r \in DOMAIN more
                 PROVE  Len(more[r]) = Threshold /\ \A j \in DOMAIN more[r] : more[r][j].shares = signer
        OBVIOUS
    <2>3. CASE more[r] = taken
        BY <1>3, <2>1, <2>3
    <2>4. CASE r \in DOMAIN beacon.history /\ more[r] = beacon.history[r]
        BY <2>2, <2>4
    <2> QED
        BY <1>4, <2>3, <2>4
<1> QED
    BY <1>1, <1>5, <1>6 DEF Wallet!WalletInv, Wallet!BySystem, Wallet!Initialized

\* The invariant of the wallet.
LEMMA WalletInductive ==
    /\ Wallet!Init => Wallet!WalletInv
    /\ Wallet!WalletInv /\ [Wallet!Next]_(Wallet!vars) => Wallet!WalletInv'
<1>1. ASSUME Wallet!Init PROVE Wallet!WalletInv
    <2>1. wallet = [shares |-> 0, nonce |-> 0, pendingTx |-> << >>, executed |-> 0]
        BY <1>1 DEF Wallet!Init, Wallet!NoWallet, wallet
    <2>2. beacon = [shares |-> 0, round |-> 0, partials |-> << >>, history |-> << >>]
        BY <1>1 DEF Wallet!Init, Wallet!NoBeacon, beacon
    <2>3. wallet \in Wallet!WalletState /\ beacon \in Wallet!BeaconState
        BY <2>1, <2>2 DEF Wallet!WalletState, Wallet!BeaconState
    <2> QED
        BY <1>1, <2>1, <2>2, <2>3 DEF Wallet!Init, Wallet!WalletInv, Wallet!BySystem, wallet, beacon
<1>2. ASSUME Wallet!WalletInv, UNCHANGED <<array, signer, wallet, beacon>> PROVE Wallet!WalletInv'
    BY <1>2 DEF Wallet!WalletInv, Wallet!BySystem, Wallet!Initialized, array, signer, wallet, beacon
<1>3. Wallet!WalletInv /\ Wallet!Initialize => Wallet!WalletInv'
    BY <1>2 DEF Wallet!Initialize, array, signer, wallet, beacon
<1>4. Wallet!WalletInv /\ UNCHANGED Wallet!vars => Wallet!WalletInv'
    BY <1>2 DEF Wallet!vars, array, signer, wallet, beacon
<1>5. Wallet!WalletInv /\ Wallet!Next => Wallet!WalletInv'
    BY <1>3, InitializeDoneStep, RefreshSharesStep, ProposeStep, SignTransactionStep, ExecuteStep,
       BeaconPartialStep, FinalizeBeaconStep DEF Wallet!Next, wallet
<1> QED
    BY <1>1, <1>4, <1>5

\* Everyone has the system's shares.
LEMMA WalletSafe == Wallet!WalletInv => Wallet!OneSetOfShares
<1> USE DEF array, signer, wallet, beacon
<1> SUFFICES ASSUME Wallet!WalletInv PROVE Wallet!OneSetOfShares
    OBVIOUS
<1>1. wallet.shares = signer /\ beacon.shares = signer
    BY DEF Wallet!WalletInv
<1>2. \A i \in DOMAIN wallet.pendingTx :
        /\ Wallet!Signed(wallet.pendingTx[i]) <=> Len(wallet.pendingTx[i].signatures) = Threshold
        /\ \A j \in DOMAIN wallet.pendingTx[i].signatures :
              wallet.pendingTx[i].signatures[j].shares = signer
    BY DEF Wallet!WalletInv, Wallet!BySystem
<1>3. \A r \in DOMAIN beacon.history : \A j \in 1 .. Threshold : beacon.history[r][j].shares = signer
    <2>1. \A r \in DOMAIN beacon.history : beacon.history[r] \in Seq(Wallet!Part)
        BY DEF Wallet!WalletInv, Wallet!BeaconState
    <2> QED
        BY <2>1 DEF Wallet!WalletInv, Wallet!BySystem
<1> QED
    BY <1>1, <1>2, <1>3 DEF Wallet!OneSetOfShares

-----------------------------------------------------------------------------
(* BeaconChain.                                                            *)

beaconChain == slot1
currentLeader == slot2
contributed == slot3

\* A round of the chain is chained to the last one, and to no other.
LEMMA FinalizeRoundStep ==
    ASSUME Beacon!ChainInv, NEW partials \in SUBSET contributed, Beacon!FinalizeRound(partials)
    PROVE  Beacon!ChainInv'
<1> USE DEF beaconChain, currentLeader, contributed
<1> DEFINE n == Len(beaconChain)
           randomness == Beacon!Randomness(partials)
           new == [round |-> n, randomness |-> randomness, signature |-> partials,
                   leader |-> currentLeader, previousHash |-> Beacon!LastHash]
           results == {beaconChain[i] : i \in DOMAIN beaconChain} \cup {new}
<1>1. beaconChain' = Append(beaconChain, new) /\ contributed' = contributed
    BY DEF Beacon!FinalizeRound, Beacon!CurrentRound
<1> HIDE DEF new
<1>2. /\ beaconChain' \in Seq(results) /\ Len(beaconChain') = n + 1 /\ n \in Nat
      /\ DOMAIN beaconChain = 1 .. n /\ DOMAIN beaconChain' = 1 .. n + 1
      /\ beaconChain'[n + 1] = new /\ \A i \in 1 .. n : beaconChain'[i] = beaconChain[i]
    <2>1. beaconChain \in Seq(results) /\ new \in results
        BY DEF Beacon!ChainInv
    <2> HIDE DEF results
    <2> QED
        BY <1>1, <2>1, Appended
<1> HIDE DEF results
<1>3. beaconChain' \in Seq({beaconChain'[i] : i \in DOMAIN beaconChain'})
    BY <1>2
<1>4. /\ new.round = n /\ new.randomness = randomness /\ new.signature = partials
      /\ new.leader = currentLeader /\ new.previousHash = Beacon!LastHash
    BY DEF new
<1>5. /\ randomness[2] = Beacon!LastHash
      /\ randomness # Beacon!GenesisHash
      /\ Beacon!LastHash = IF n = 0 THEN Beacon!GenesisHash ELSE beaconChain[n].randomness
    BY <1>2 DEF Beacon!Randomness, Beacon!GenesisHash, Beacon!LastHash, Beacon!CurrentRound
<1> HIDE DEF randomness
<1>6. \A i \in 1 .. n :
        /\ beaconChain[i].previousHash = IF i = 1 THEN Beacon!GenesisHash ELSE beaconChain[i - 1].randomness
        /\ beaconChain[i].randomness[2] = beaconChain[i].previousHash
        /\ beaconChain[i].round = i - 1
        /\ beaconChain[i].signature \subseteq contributed
        /\ beaconChain[i].randomness # Beacon!GenesisHash
    BY <1>2 DEF Beacon!ChainInv, Beacon!VerifyChain
<1>7. Beacon!VerifyChain'
    <2> SUFFICES ASSUME NEW i \in 1 .. n + 1
                 PROVE  /\ beaconChain'[i].previousHash =
                             IF i = 1 THEN Beacon!GenesisHash ELSE beaconChain'[i - 1].randomness
                        /\ beaconChain'[i].randomness[2] = beaconChain'[i].previousHash
        BY <1>2 DEF Beacon!VerifyChain, Beacon!GenesisHash
    <2>1. CASE i = n + 1
        BY <2>1, <1>2, <1>4, <1>5
    <2>2. CASE i \in 1 .. n
        BY <2>2, <1>2, <1>6
    <2> QED
        BY <2>1, <2>2, <1>2
<1>8. ASSUME NEW c \in contributed PROVE Beacon!MessageRight(c.message)'
    <2> DEFINE m == c.message
    <2>1. /\ m = [round |-> m.round, previous |-> m.previous, leader |-> m.leader]
          /\ m.round \in 0 .. n
          /\ m.previous = IF m.round = 0 THEN Beacon!GenesisHash ELSE beaconChain[m.round].randomness
          /\ m.leader = IF m.round = n THEN currentLeader ELSE beaconChain[m.round + 1].leader
        BY DEF Beacon!ChainInv, Beacon!MessageRight, Beacon!CurrentRound
    <2> HIDE DEF m
    <2>2. m.round \in 0 .. n + 1 /\ m.round # n + 1
        BY <1>2, <2>1
    <2>3. m.previous = IF m.round = 0 THEN Beacon!GenesisHash ELSE beaconChain'[m.round].randomness
        BY <1>2, <2>1
    <2>4. m.leader = beaconChain'[m.round + 1].leader
        BY <1>2, <1>4, <2>1
    <2> QED
        BY <1>2, <2>1, <2>2, <2>3, <2>4 DEF Beacon!MessageRight, Beacon!CurrentRound, Beacon!GenesisHash, m
<1>9. \A i \in 1 .. n + 1 :
        /\ beaconChain'[i].round = i - 1
        /\ beaconChain'[i].signature \subseteq contributed
        /\ beaconChain'[i].randomness # Beacon!GenesisHash
    <2> SUFFICES ASSUME NEW i \in 1 .. n + 1
                 PROVE  /\ beaconChain'[i].round = i - 1
                        /\ beaconChain'[i].signature \subseteq contributed
                        /\ beaconChain'[i].randomness # Beacon!GenesisHash
        OBVIOUS
    <2>1. CASE i = n + 1
        BY <2>1, <1>2, <1>4, <1>5
    <2>2. CASE i \in 1 .. n
        BY <2>2, <1>2, <1>6
    <2> QED
        BY <2>1, <2>2, <1>2
<1>10. \A i \in 1 .. n : beaconChain[i].randomness # randomness
    <2> SUFFICES ASSUME NEW i \in 1 .. n, beaconChain[i].randomness = randomness PROVE FALSE
        OBVIOUS
    <2>1. beaconChain[i].previousHash = beaconChain[n].randomness
        BY <1>2, <1>5, <1>6
    <2>2. i # 1
        BY <2>1, <1>2, <1>6
    <2>3. i - 1 \in 1 .. n /\ n \in 1 .. n /\ beaconChain[i - 1].randomness = beaconChain[n].randomness
        BY <2>1, <2>2, <1>2, <1>6
    <2>4. i - 1 = n
        BY <2>3, <1>2 DEF Beacon!ChainInv
    <2> QED
        BY <2>4, <1>2
<1>11. \A i, j \in 1 .. n + 1 : beaconChain'[i].randomness = beaconChain'[j].randomness => i = j
    <2> SUFFICES ASSUME NEW i \in 1 .. n + 1, NEW j \in 1 .. n + 1,
                        beaconChain'[i].randomness = beaconChain'[j].randomness
                 PROVE  i = j
        OBVIOUS
    <2>1. CASE i \in 1 .. n /\ j \in 1 .. n
        BY <2>1, <1>2 DEF Beacon!ChainInv
    <2>2. CASE i = n + 1 /\ j \in 1 .. n
        BY <2>2, <1>2, <1>4, <1>10
    <2>3. CASE i \in 1 .. n /\ j = n + 1
        BY <2>3, <1>2, <1>4, <1>10
    <2> QED
        BY <2>1, <2>2, <2>3, <1>2
<1> QED
    BY <1>1, <1>2, <1>3, <1>7, <1>8, <1>9, <1>11 DEF Beacon!ChainInv, Beacon!GenesisHash

\* A contribution is for the round of the moment.
LEMMA ContributeStep ==
    ASSUME Beacon!ChainInv, NEW party \in Beacon!Party, Beacon!ContributePartial(party)
    PROVE  Beacon!ChainInv'
<1> USE DEF beaconChain, currentLeader, contributed
<1> DEFINE new == [party |-> party, message |-> Beacon!RoundMessage]
<1>1. contributed' = contributed \cup {new} /\ UNCHANGED <<beaconChain, currentLeader>>
    BY DEF Beacon!ContributePartial
<1>2. Len(beaconChain) \in Nat
    BY DEF Beacon!ChainInv
<1>3. Beacon!MessageRight(new.message)
    <2>1. new.message = [round |-> Len(beaconChain), previous |-> Beacon!LastHash, leader |-> currentLeader]
        BY DEF Beacon!RoundMessage, Beacon!CurrentRound
    <2>2. Beacon!LastHash = IF Len(beaconChain) = 0 THEN Beacon!GenesisHash
                           ELSE beaconChain[Len(beaconChain)].randomness
        BY DEF Beacon!LastHash, Beacon!CurrentRound, Beacon!ChainInv
    <2> HIDE DEF new
    <2> QED
        BY <1>2, <2>1, <2>2 DEF Beacon!MessageRight, Beacon!CurrentRound
<1> HIDE DEF new
<1>4. \A c \in contributed' : Beacon!MessageRight(c.message)
    BY <1>1, <1>3 DEF Beacon!ChainInv
<1>5. \A c \in contributed' : Beacon!MessageRight(c.message)'
    BY <1>1, <1>4 DEF Beacon!MessageRight, Beacon!CurrentRound, Beacon!GenesisHash
<1>6. Beacon!VerifyChain'
    BY <1>1 DEF Beacon!ChainInv, Beacon!VerifyChain, Beacon!GenesisHash
<1> QED
    BY <1>1, <1>5, <1>6 DEF Beacon!ChainInv, Beacon!GenesisHash

\* The invariant of the chain.
LEMMA BeaconInductive ==
    /\ Beacon!Init => Beacon!ChainInv
    /\ Beacon!ChainInv /\ [Beacon!Next]_(Beacon!vars) => Beacon!ChainInv'
<1> USE DEF beaconChain, currentLeader, contributed
<1>1. Beacon!Init => Beacon!ChainInv
    BY DEF Beacon!Init, Beacon!ChainInv, Beacon!VerifyChain
<1>2. Beacon!ChainInv /\ UNCHANGED Beacon!vars => Beacon!ChainInv'
    BY DEF Beacon!vars, Beacon!ChainInv, Beacon!VerifyChain, Beacon!GenesisHash, Beacon!MessageRight,
           Beacon!CurrentRound
<1>3. Beacon!ChainInv /\ Beacon!Next => Beacon!ChainInv'
    BY ContributeStep, FinalizeRoundStep DEF Beacon!Next
<1> QED
    BY <1>1, <1>2, <1>3

\* The chain verifies.
LEMMA BeaconSafe == Beacon!ChainInv => Beacon!ChainVerifies
<1> USE DEF beaconChain, currentLeader, contributed
<1> SUFFICES ASSUME Beacon!ChainInv PROVE Beacon!ChainVerifies
    OBVIOUS
<1>1. Beacon!VerifyChain /\ \A i, j \in DOMAIN beaconChain :
            beaconChain[i].randomness = beaconChain[j].randomness => i = j
    BY DEF Beacon!ChainInv
<1>2. ASSUME NEW i \in DOMAIN beaconChain
      PROVE  /\ beaconChain[i].round = i - 1
             /\ (\A p \in beaconChain[i].signature : p.message.round = beaconChain[i].round)
                   => \A p \in beaconChain[i].signature : p.message = Beacon!MessageOf(beaconChain[i])
    <2>1. beaconChain[i].round = i - 1 /\ beaconChain[i].signature \subseteq contributed
        BY DEF Beacon!ChainInv
    <2>2. i \in 1 .. Len(beaconChain) /\ Len(beaconChain) \in Nat
        BY DEF Beacon!ChainInv
    <2>3. ASSUME NEW p \in beaconChain[i].signature, p.message.round = beaconChain[i].round
          PROVE  p.message = Beacon!MessageOf(beaconChain[i])
        <3> DEFINE m == p.message
        <3>1. Beacon!MessageRight(m)
            BY <2>1 DEF Beacon!ChainInv
        <3>2. m.round = i - 1
            BY <2>1, <2>3
        <3> HIDE DEF m
        <3>3. m.leader = beaconChain[i].leader
            BY <2>2, <3>1, <3>2 DEF Beacon!MessageRight, Beacon!CurrentRound
        <3>4. m.previous = Beacon!PreviousOf(beaconChain[i])
            BY <2>1, <2>2, <3>1, <3>2 DEF Beacon!MessageRight, Beacon!CurrentRound, Beacon!PreviousOf
        <3>5. m = [round |-> m.round, previous |-> m.previous, leader |-> m.leader]
            BY <3>1 DEF Beacon!MessageRight
        <3> QED
            BY <2>1, <3>2, <3>3, <3>4, <3>5 DEF Beacon!MessageOf, m
    <2> QED
        BY <2>1, <2>3
<1> QED
    BY <1>1, <1>2 DEF Beacon!ChainVerifies

-----------------------------------------------------------------------------
(* ThresholdSystem.                                                        *)

signingKeyPair == slot1
keys == slot4
sessions == slot8
nonces == slot9
made == slot10
signatures == slot11

\* A session of FROST is a record of its fields.
LEMMA FrostTyped ==
    ASSUME System!SigningTypeOK, NEW id \in System!FrostSessions
    PROVE  /\ id \in DOMAIN sessions /\ sessions[id] \in System!FrostSession
           /\ sessions[id].commitments \in System!Commitments
<1> USE DEF sessions
<1>1. id \in DOMAIN sessions /\ sessions[id].type = "frost"
    BY DEF System!FrostSessions, System!Session
<1>2. sessions[id] \in System!AnySession
    BY <1>1 DEF System!SigningTypeOK
<1>3. sessions[id] \in System!FrostSession
    BY <1>1, <1>2 DEF System!AnySession, System!StandardSession, System!Over
<1> QED
    BY <1>1, <1>3 DEF System!FrostSession

\* Of an update: the session has its new state, all others have what they had.
LEMMA SessionUpdated ==
    ASSUME System!SigningTypeOK, NEW id \in DOMAIN sessions, NEW new \in System!AnySession,
           sessions' = [sessions EXCEPT ![id] = new]
    PROVE  /\ sessions' \in Seq(System!AnySession) /\ DOMAIN sessions' = DOMAIN sessions
           /\ sessions'[id] = new
           /\ \A other \in DOMAIN sessions : other # id => sessions'[other] = sessions[other]
BY DEF System!SigningTypeOK, sessions

\* Keys and ceremonies are nothing to what was signed before.
LEMMA KeysChanged ==
    ASSUME System!SigningInv, UNCHANGED <<sessions, nonces, made, signatures>>,
           keys' \in Nat, signingKeyPair' \in System!Pair
    PROVE  System!SigningInv'
<1> USE DEF sessions, nonces, made, signatures, keys, signingKeyPair
<1>1. System!SigningTypeOK'
    BY DEF System!SigningInv, System!SigningTypeOK
<1>2. System!NonceCommitted'
    BY DEF System!SigningInv, System!NonceCommitted, System!FrostSessions, System!Session
<1> QED
    BY <1>1, <1>2 DEF System!SigningInv, System!FrostSessions, System!Session, System!AllFit, System!Fits

\* Key generation, refreshes and ceremonies.
LEMMA KeySteps ==
    ASSUME System!SigningInv,
           \/ System!StartKeygenCeremony \/ System!StartRefreshCeremony
           \/ \E c \in DOMAIN slot5 : System!ExecuteKeygenCeremony(c) \/ System!ExecuteRefresh(c)
           \/ \E i \in DOMAIN slot6 : System!KeygenDone(i) \/ System!KeygenFailed(i)
           \/ UNCHANGED System!vars
    PROVE  System!SigningInv'
<1> USE DEF sessions, nonces, made, signatures, keys, signingKeyPair
<1>1. keys \in Nat /\ signingKeyPair \in System!Pair
    BY DEF System!SigningInv, System!SigningTypeOK
<1>2. CASE UNCHANGED <<System!keyVars, System!signingVars>>
    BY <1>1, <1>2, KeysChanged DEF System!keyVars, System!signingVars
<1>3. ASSUME NEW i \in DOMAIN slot6, System!KeygenDone(i) PROVE System!SigningInv'
    <2>1. keys' = keys + 1 /\ signingKeyPair' = [key |-> keys + 1, version |-> 1]
        BY <1>3 DEF System!KeygenDone, System!NewKeyPair
    <2>2. keys' \in Nat /\ signingKeyPair' \in System!Pair
        BY <1>1, <2>1 DEF System!Pair
    <2> QED
        BY <1>3, <2>2, KeysChanged DEF System!KeygenDone, System!signingVars
<1>4. ASSUME NEW c \in DOMAIN slot5, System!ExecuteRefresh(c) PROVE System!SigningInv'
    <2>1. signingKeyPair' = [signingKeyPair EXCEPT !.version = signingKeyPair.version + 1]
        BY <1>4 DEF System!ExecuteRefresh, System!RefreshKeys
    <2>2. keys' \in Nat /\ signingKeyPair' \in System!Pair
        BY <1>1, <1>4, <2>1 DEF System!Pair, System!ExecuteRefresh
    <2> QED
        BY <1>4, <2>2, KeysChanged DEF System!ExecuteRefresh, System!signingVars
<1>5. ASSUME NEW c \in DOMAIN slot5, System!ExecuteKeygenCeremony(c)
      PROVE  UNCHANGED <<System!keyVars, System!signingVars>>
    BY <1>5 DEF System!ExecuteKeygenCeremony
<1>6. ASSUME NEW i \in DOMAIN slot6, System!KeygenFailed(i)
      PROVE  UNCHANGED <<System!keyVars, System!signingVars>>
    BY <1>6 DEF System!KeygenFailed
<1>7. ASSUME System!StartKeygenCeremony \/ System!StartRefreshCeremony \/ UNCHANGED System!vars
      PROVE  UNCHANGED <<System!keyVars, System!signingVars>>
    BY <1>7 DEF System!StartKeygenCeremony, System!StartRefreshCeremony, System!vars
<1> QED
    BY <1>2, <1>3, <1>4, <1>5, <1>6, <1>7

\* A session that is not of FROST, or is over, holds no nonces.
LEMMA OtherSession ==
    ASSUME System!SigningInv, NEW id \in DOMAIN sessions, NEW new \in System!AnySession,
           new.type # "frost", sessions' = [sessions EXCEPT ![id] = new],
           UNCHANGED <<keys, signingKeyPair, nonces, made>>,
           signatures' \subseteq System!Signature,
           \A sig \in signatures' : /\ System!AllFit(sig.shares, sig.committed)
                                    /\ sig.challenge.commitments = sig.committed
    PROVE  System!SigningInv'
<1> USE DEF sessions, nonces, made, signatures, keys, signingKeyPair
<1>1. System!SigningTypeOK
    BY DEF System!SigningInv
<1>2. /\ sessions' \in Seq(System!AnySession) /\ DOMAIN sessions' = DOMAIN sessions
      /\ sessions'[id] = new
      /\ \A other \in DOMAIN sessions : other # id => sessions'[other] = sessions[other]
    BY <1>1, SessionUpdated
<1>3. System!SigningTypeOK'
    BY <1>1, <1>2 DEF System!SigningTypeOK
<1>4. \A other \in System!FrostSessions' :
        other \in System!FrostSessions /\ sessions'[other] = sessions[other]
    BY <1>2 DEF System!FrostSessions, System!Session
<1>5. System!NonceCommitted'
    BY <1>4 DEF System!SigningInv, System!NonceCommitted
<1>6. \A other \in System!FrostSessions' :
        /\ System!AllFit(sessions'[other].shares, sessions'[other].commitments)
        /\ sessions'[other].status = "commitment" => DOMAIN sessions'[other].shares = {}
    BY <1>4 DEF System!SigningInv
<1> QED
    BY <1>3, <1>5, <1>6 DEF System!SigningInv, System!AllFit, System!Fits

\* A session begins without commitments.
LEMMA CreateSessionStep ==
    ASSUME System!SigningInv, NEW protocol1 \in {"standard", "frost"},
           System!CreateSigningSession(protocol1)
    PROVE  System!SigningInv'
<1> USE DEF sessions, nonces, made, signatures, keys, signingKeyPair
<1> DEFINE new == IF protocol1 = "frost"
                  THEN [type |-> "frost", status |-> "commitment",
                        commitments |-> << >>, shares |-> << >>]
                  ELSE [type |-> "standard", partials |-> << >>]
<1>1. System!SigningTypeOK
    BY DEF System!SigningInv
<1>2. sessions' = Append(sessions, new) /\ UNCHANGED <<keys, signingKeyPair, nonces, made, signatures>>
    BY DEF System!CreateSigningSession, System!keyVars
<1>3. /\ new \in System!AnySession
      /\ new.type = "frost" => new.commitments = << >> /\ new.shares = << >>
    <2>1. << >> \in System!Commitments
        BY DEF System!Commitments
    <2>2. << >> \in UNION {[parties -> System!Response] : parties \in SUBSET System!Party}
        <3>1. << >> \in [{} -> System!Response] /\ {} \in SUBSET System!Party
            OBVIOUS
        <3> QED
            BY <3>1
    <2> QED
        BY <2>1, <2>2 DEF System!AnySession, System!FrostSession, System!StandardSession
<1> HIDE DEF new
<1>4. /\ sessions' \in Seq(System!AnySession)
      /\ \A other \in DOMAIN sessions' :
            \/ sessions'[other] = new
            \/ other \in DOMAIN sessions /\ sessions'[other] = sessions[other]
    BY <1>1, <1>2, <1>3, Appended DEF System!SigningTypeOK
<1>5. System!SigningTypeOK'
    BY <1>1, <1>2, <1>4 DEF System!SigningTypeOK
<1>6. \A other \in System!FrostSessions' :
        \/ DOMAIN sessions'[other].commitments = {} /\ DOMAIN sessions'[other].shares = {}
        \/ other \in System!FrostSessions /\ sessions'[other] = sessions[other]
    BY <1>3, <1>4 DEF System!FrostSessions, System!Session
<1>7. System!NonceCommitted'
    <2>1. ASSUME NEW other \in System!FrostSessions', NEW p \in DOMAIN sessions'[other].commitments
          PROVE  other \in System!FrostSessions /\ sessions'[other] = sessions[other]
        BY <1>6, <2>1
    <2>2. System!NonceCommitted
        BY DEF System!SigningInv
    <2>3. ASSUME NEW other \in System!FrostSessions', NEW p \in DOMAIN sessions'[other].commitments
          PROVE  /\ sessions'[other].commitments[p] <= nonces
                 /\ \A a \in made : a.nonce = sessions'[other].commitments[p] =>
                       /\ sessions'[other].status = "signing"
                       /\ a.challenge.commitments = sessions'[other].commitments
        <3>1. other \in System!FrostSessions /\ sessions'[other] = sessions[other]
            BY <2>1, <2>3
        <3> QED
            BY <2>2, <2>3, <3>1 DEF System!NonceCommitted
    <2>4. ASSUME NEW other \in System!FrostSessions', NEW p \in DOMAIN sessions'[other].commitments,
                 NEW third \in System!FrostSessions', NEW q \in DOMAIN sessions'[third].commitments,
                 sessions'[third].commitments[q] = sessions'[other].commitments[p]
          PROVE  third = other
        <3>1. other \in System!FrostSessions /\ sessions'[other] = sessions[other]
            BY <2>1, <2>4
        <3>2. third \in System!FrostSessions /\ sessions'[third] = sessions[third]
            BY <2>1, <2>4
        <3> QED
            BY <2>2, <2>4, <3>1, <3>2 DEF System!NonceCommitted
    <2>5. /\ \A a \in made : a.nonce <= nonces /\ a.challenge.key = a.pair.key
          /\ \A a, b \in made : a.nonce = b.nonce => a.challenge.commitments = b.challenge.commitments
        BY <2>2 DEF System!NonceCommitted
    <2>6. /\ \A a \in made' : a.nonce <= nonces' /\ a.challenge.key = a.pair.key
          /\ \A a, b \in made' : a.nonce = b.nonce => a.challenge.commitments = b.challenge.commitments
        BY <1>2, <2>5
    <2>7. ASSUME NEW other \in System!FrostSessions', NEW p \in DOMAIN sessions'[other].commitments
          PROVE  /\ sessions'[other].commitments[p] <= nonces'
                 /\ \A a \in made' : a.nonce = sessions'[other].commitments[p] =>
                       /\ sessions'[other].status = "signing"
                       /\ a.challenge.commitments = sessions'[other].commitments
        BY <1>2, <2>3, <2>7
    <2> QED
        BY <2>4, <2>6, <2>7 DEF System!NonceCommitted
<1>8. \A other \in System!FrostSessions' :
        /\ System!AllFit(sessions'[other].shares, sessions'[other].commitments)
        /\ sessions'[other].status = "commitment" => DOMAIN sessions'[other].shares = {}
    BY <1>6 DEF System!SigningInv, System!AllFit
<1> QED
    BY <1>2, <1>5, <1>7, <1>8 DEF System!SigningInv, System!AllFit, System!Fits

\* A partial signature of the standard protocol.
LEMMA ContributeStandardStep ==
    ASSUME System!SigningInv, NEW id \in System!Session, NEW party \in System!Party,
           System!ContributePartial(id, party)
    PROVE  System!SigningInv'
<1> USE DEF sessions, nonces, made, signatures, keys, signingKeyPair
<1> DEFINE old == sessions[id]
           more == Append(old.partials, System!PartialSign(party))
           new == [old EXCEPT !.partials = more]
<1>1. System!SigningTypeOK /\ id \in DOMAIN sessions
    BY DEF System!SigningInv, System!Session
<1>2. /\ old.type = "standard" /\ sessions' = [sessions EXCEPT ![id] = new]
      /\ UNCHANGED <<keys, signingKeyPair, nonces, made, signatures>>
    BY DEF System!ContributePartial, System!Update, System!keyVars
<1>3. old \in System!StandardSession
    <2>1. old \in System!AnySession
        BY <1>1 DEF System!SigningTypeOK
    <2> QED
        BY <1>2, <2>1 DEF System!AnySession, System!FrostSession, System!Over
<1> HIDE DEF old
<1>4. more \in Seq([party : System!Party, pair : System!Pair])
    <2>1. System!PartialSign(party) \in [party : System!Party, pair : System!Pair]
        BY <1>1 DEF System!PartialSign, System!SigningTypeOK
    <2>2. old.partials \in Seq([party : System!Party, pair : System!Pair])
        BY <1>3 DEF System!StandardSession
    <2> QED
        BY <2>1, <2>2, Appended
<1> HIDE DEF more
<1>5. new \in System!AnySession /\ new.type # "frost"
    BY <1>3, <1>4 DEF System!StandardSession, System!AnySession
<1> HIDE DEF new
<1> QED
    BY <1>1, <1>2, <1>5, OtherSession DEF System!SigningInv, System!SigningTypeOK

\* Finalizing adds a signature, or none, and ends the session.
LEMMA FinalizeSteps ==
    ASSUME System!SigningInv, NEW id \in System!Session,
           System!FinalizeFrost(id) \/ System!FinalizeStandard(id)
    PROVE  System!SigningInv'
<1> USE DEF sessions, nonces, made, signatures, keys, signingKeyPair
<1> DEFINE old == sessions[id]
           sig == System!Aggregate(old)
<1>1. System!SigningTypeOK /\ id \in DOMAIN sessions
    BY DEF System!SigningInv, System!Session
<1>2. System!Over \in System!AnySession /\ System!Over.type # "frost"
    BY DEF System!Over, System!AnySession
<1>3. /\ sessions' = [sessions EXCEPT ![id] = System!Over]
      /\ UNCHANGED <<keys, signingKeyPair, nonces, made>>
    BY DEF System!FinalizeFrost, System!FinalizeStandard, System!Update, System!keyVars
<1>4. CASE System!FinalizeStandard(id)
    BY <1>1, <1>2, <1>3, <1>4, OtherSession
    DEF System!FinalizeStandard, System!SigningInv, System!SigningTypeOK
<1>5. CASE System!FinalizeFrost(id)
    <2>1. id \in System!FrostSessions /\ signatures' = signatures \cup {sig}
        BY <1>5 DEF System!FinalizeFrost, System!FrostSessions
    <2>2. old \in System!FrostSession
        BY <1>1, <2>1, FrostTyped
    <2>3. /\ sig \in System!Signature
          /\ sig.shares = old.shares /\ sig.committed = old.commitments
          /\ sig.challenge.commitments = old.commitments
        <3>1. sig = [committed |-> old.commitments, shares |-> old.shares,
                     challenge |-> [commitments |-> old.commitments, key |-> signingKeyPair.key],
                     valid |-> TRUE]
            BY DEF System!Aggregate, System!Challenge
        <3>2. signingKeyPair.key \in Nat
            BY <1>1 DEF System!SigningTypeOK, System!Pair
        <3> HIDE DEF sig, old
        <3> QED
            BY <2>2, <3>1, <3>2 DEF System!Signature, System!FrostSession
    <2>4. System!AllFit(old.shares, old.commitments)
        BY <2>1 DEF System!SigningInv
    <2> HIDE DEF sig, old
    <2>5. \A any \in signatures' : /\ System!AllFit(any.shares, any.committed)
                                   /\ any.challenge.commitments = any.committed
        BY <2>1, <2>3, <2>4 DEF System!SigningInv
    <2>6. signatures' \subseteq System!Signature
        BY <1>1, <2>1, <2>3 DEF System!SigningTypeOK
    <2> QED
        BY <1>1, <1>2, <1>3, <2>5, <2>6, OtherSession
<1> QED
    BY <1>4, <1>5

\* A session of FROST that is updated and keeps its commitments.
LEMMA SameCommitments ==
    ASSUME System!SigningInv, NEW id \in System!FrostSessions, NEW new \in System!FrostSession,
           sessions' = [sessions EXCEPT ![id] = new],
           new.commitments = sessions[id].commitments,
           new.status = "signing",
           System!AllFit(new.shares, new.commitments),
           UNCHANGED <<keys, signingKeyPair, nonces, signatures>>,
           made' \subseteq System!Response,
           \A a \in made' : \/ a \in made
                            \/ /\ a.challenge.commitments = new.commitments /\ a.challenge.key = a.pair.key
                               /\ \E p \in DOMAIN new.commitments : a.nonce = new.commitments[p]
    PROVE  System!SigningInv'
<1> USE DEF sessions, nonces, made, signatures, keys, signingKeyPair
<1>1. System!SigningTypeOK /\ System!NonceCommitted
    BY DEF System!SigningInv
<1>2. id \in DOMAIN sessions /\ sessions[id].type = "frost" /\ new.type = "frost"
    BY <1>1, FrostTyped DEF System!FrostSession
<1>3. /\ sessions' \in Seq(System!AnySession) /\ DOMAIN sessions' = DOMAIN sessions
      /\ sessions'[id] = new
      /\ \A other \in DOMAIN sessions : other # id => sessions'[other] = sessions[other]
    BY <1>1, <1>2, SessionUpdated DEF System!AnySession
<1>4. System!SigningTypeOK'
    BY <1>1, <1>3 DEF System!SigningTypeOK
<1>5. /\ System!FrostSessions' = System!FrostSessions
      /\ \A other \in System!FrostSessions : sessions'[other].commitments = sessions[other].commitments
      /\ \A other \in System!FrostSessions :
            sessions[other].status = "signing" => sessions'[other].status = "signing"
    BY <1>2, <1>3 DEF System!FrostSessions, System!Session
<1>6. ASSUME NEW other \in System!FrostSessions, NEW p \in DOMAIN sessions[other].commitments,
             NEW a \in made', a.nonce = sessions[other].commitments[p]
      PROVE  sessions'[other].status = "signing" /\ a.challenge.commitments = sessions[other].commitments
    <2>1. CASE a \in made
        BY <1>1, <1>5, <1>6, <2>1 DEF System!NonceCommitted
    <2>2. CASE a \notin made
        <3>1. PICK q \in DOMAIN sessions[id].commitments : a.nonce = sessions[id].commitments[q]
            BY <2>2
        <3>2. \A first, second \in System!FrostSessions :
                 \A r \in DOMAIN sessions[first].commitments, t \in DOMAIN sessions[second].commitments :
                    sessions[second].commitments[t] = sessions[first].commitments[r] => second = first
            BY <1>1 DEF System!NonceCommitted
        <3>3. sessions[other].commitments[p] = sessions[id].commitments[q]
            BY <1>6, <3>1
        <3>4. other = id
            BY <1>6, <3>1, <3>2, <3>3
        <3> QED
            BY <1>3, <2>2, <3>4
    <2> QED
        BY <2>1, <2>2
<1>7. ASSUME NEW a \in made'
      PROVE  a.nonce <= nonces /\ a.challenge.key = a.pair.key
    BY <1>1 DEF System!NonceCommitted
<1>8. ASSUME NEW a \in made', NEW b \in made', a.nonce = b.nonce
      PROVE  a.challenge.commitments = b.challenge.commitments
    <2>1. CASE a \in made /\ b \in made
        BY <1>1, <1>8, <2>1 DEF System!NonceCommitted
    <2>2. CASE a \notin made
        BY <1>6, <1>8, <2>2
    <2>3. CASE b \notin made
        BY <1>6, <1>8, <2>3
    <2> QED
        BY <2>1, <2>2, <2>3
<1>9. System!NonceCommitted'
    BY <1>1, <1>5, <1>6, <1>7, <1>8 DEF System!NonceCommitted
<1>10. \A other \in System!FrostSessions' :
        /\ System!AllFit(sessions'[other].shares, sessions'[other].commitments)
        /\ sessions'[other].status = "commitment" => DOMAIN sessions'[other].shares = {}
    <2> SUFFICES ASSUME NEW other \in System!FrostSessions
                 PROVE  /\ System!AllFit(sessions'[other].shares, sessions'[other].commitments)
                        /\ sessions'[other].status = "commitment" => DOMAIN sessions'[other].shares = {}
        BY <1>5
    <2>1. CASE other = id
        BY <1>3, <2>1
    <2>2. CASE other # id
        <3>1. sessions'[other] = sessions[other]
            BY <1>3, <2>2 DEF System!FrostSessions, System!Session
        <3> QED
            BY <3>1 DEF System!SigningInv
    <2> QED
        BY <2>1, <2>2
<1> QED
    BY <1>4, <1>9, <1>10 DEF System!SigningInv, System!AllFit, System!Fits

\* A map of parties to members of a set is one after Put().
LEMMA PutTyped ==
    ASSUME NEW S, NEW value \in S, NEW party \in System!Party,
           NEW map \in UNION {[parties -> S] : parties \in SUBSET System!Party}
    PROVE  System!Put(map, party, value) \in UNION {[parties -> S] : parties \in SUBSET System!Party}
<1>1. PICK parties \in SUBSET System!Party : map \in [parties -> S]
    OBVIOUS
<1>2. System!Put(map, party, value) \in [parties \cup {party} -> S]
    BY <1>1 DEF System!Put
<1>3. parties \cup {party} \in SUBSET System!Party
    OBVIOUS
<1> QED
    BY <1>2, <1>3

\* beginSigningPhase() leaves the commitments and what was computed from them.
LEMMA TransitionStep ==
    ASSUME System!SigningInv, NEW id \in System!Session, System!TransitionFrostToSigning(id)
    PROVE  System!SigningInv'
<1> USE DEF sessions, nonces, made, signatures, keys, signingKeyPair
<1> DEFINE old == sessions[id]
           new == [old EXCEPT !.status = "signing"]
<1>1. System!SigningTypeOK /\ id \in System!FrostSessions
    BY DEF System!SigningInv, System!FrostSessions, System!TransitionFrostToSigning
<1>2. old \in System!FrostSession
    BY <1>1, FrostTyped
<1>3. /\ sessions' = [sessions EXCEPT ![id] = new]
      /\ UNCHANGED <<keys, signingKeyPair, nonces, made, signatures>>
    BY DEF System!TransitionFrostToSigning, System!Update, System!keyVars
<1>4. System!AllFit(old.shares, old.commitments)
    BY <1>1 DEF System!SigningInv
<1>5. made \subseteq System!Response
    BY <1>1 DEF System!SigningTypeOK
<1>6. old.commitments = sessions[id].commitments
    OBVIOUS
<1> HIDE DEF old
<1>7. /\ new \in System!FrostSession
      /\ new.commitments = old.commitments /\ new.shares = old.shares /\ new.status = "signing"
    BY <1>2 DEF System!FrostSession
<1> HIDE DEF new
<1> QED
    BY <1>1, <1>3, <1>4, <1>5, <1>6, <1>7, SameCommitments

\* A response fits the commitments that it answers.
LEMMA ShareStep ==
    ASSUME System!SigningInv, NEW id \in System!Session, NEW party \in System!Party,
           System!GenerateSigningShare(id, party)
    PROVE  System!SigningInv'
<1> USE DEF sessions, nonces, made, signatures, keys, signingKeyPair
<1> DEFINE old == sessions[id]
           share == System!SigningShare(old, party)
           shares == System!Put(old.shares, party, share)
           new == [old EXCEPT !.shares = shares]
<1>1. System!SigningTypeOK /\ id \in System!FrostSessions
    BY DEF System!SigningInv, System!FrostSessions, System!GenerateSigningShare
<1>2. old \in System!FrostSession
    BY <1>1, FrostTyped
<1>3. /\ sessions' = [sessions EXCEPT ![id] = new] /\ made' = made \cup {share}
      /\ UNCHANGED <<keys, signingKeyPair, nonces, signatures>>
      /\ old.status # "commitment" /\ party \in DOMAIN old.commitments
    BY DEF System!GenerateSigningShare, System!Update, System!keyVars, System!Commits
<1>4. System!AllFit(old.shares, old.commitments)
    BY <1>1 DEF System!SigningInv
<1>5. made \subseteq System!Response
    BY <1>1 DEF System!SigningTypeOK
<1>6. old.commitments = sessions[id].commitments
    OBVIOUS
<1> HIDE DEF old
<1>7. /\ old.type = "frost" /\ old.status = "signing" /\ old.commitments \in System!Commitments
      /\ old.shares \in UNION {[parties -> System!Response] : parties \in SUBSET System!Party}
    BY <1>2, <1>3 DEF System!FrostSession
<1>8. share = [nonce |-> old.commitments[party],
               challenge |-> [commitments |-> old.commitments, key |-> signingKeyPair.key],
               weightedFor |-> DOMAIN old.commitments, pair |-> signingKeyPair]
    BY DEF System!SigningShare, System!Challenge, System!WeightedFor
<1> HIDE DEF share
<1>9. share \in System!Response
    <2>1. old.commitments[party] \in Nat /\ DOMAIN old.commitments \in SUBSET System!Party
        BY <1>3, <1>7 DEF System!Commitments
    <2>2. signingKeyPair \in System!Pair /\ signingKeyPair.key \in Nat
        BY <1>1 DEF System!SigningTypeOK, System!Pair
    <2> QED
        BY <1>7, <1>8, <2>1, <2>2 DEF System!Response
<1>10. System!Fits(share, old.commitments, party)
    BY <1>8 DEF System!Fits
<1>11. /\ shares \in UNION {[parties -> System!Response] : parties \in SUBSET System!Party}
       /\ DOMAIN shares = DOMAIN old.shares \cup {party} /\ shares[party] = share
       /\ \A p \in DOMAIN old.shares : p # party => shares[p] = old.shares[p]
    <2> DEFINE maps == UNION {[parties -> System!Response] : parties \in SUBSET System!Party}
    <2>1. old.shares \in maps
        BY <1>7
    <2>2. shares \in maps
        <3> HIDE DEF shares
        <3>1. System!Put(old.shares, party, share) \in maps
            BY <1>9, <2>1, PutTyped
        <3> QED
            BY <3>1 DEF shares
    <2>3. /\ DOMAIN shares = DOMAIN old.shares \cup {party} /\ shares[party] = share
          /\ \A p \in DOMAIN old.shares : p # party => shares[p] = old.shares[p]
        BY DEF System!Put
    <2> QED
        BY <2>2, <2>3
<1> HIDE DEF shares
<1>12. System!AllFit(shares, old.commitments)
    BY <1>3, <1>4, <1>10, <1>11 DEF System!AllFit
<1>13. new = [type |-> "frost", status |-> "signing", commitments |-> old.commitments, shares |-> shares]
    BY <1>2, <1>7 DEF System!FrostSession
<1>14. /\ new \in System!FrostSession
       /\ new.commitments = old.commitments /\ new.shares = shares /\ new.status = "signing"
    BY <1>7, <1>11, <1>13 DEF System!FrostSession
<1> HIDE DEF new
<1>15. \A a \in made' : \/ a \in made
                        \/ /\ a.challenge.commitments = new.commitments /\ a.challenge.key = a.pair.key
                           /\ \E p \in DOMAIN new.commitments : a.nonce = new.commitments[p]
    <2>1. /\ share.challenge.commitments = old.commitments /\ share.challenge.key = share.pair.key
          /\ share.nonce = old.commitments[party]
        BY <1>8
    <2> QED
        BY <1>3, <1>14, <2>1
<1>16. made' \subseteq System!Response
    BY <1>3, <1>5, <1>9
<1> QED
    BY <1>1, <1>3, <1>6, <1>12, <1>14, <1>15, <1>16, SameCommitments

\* A commitment is to a nonce that nobody has.  The one that it replaces answered nothing.
LEMMA CommitStep ==
    ASSUME System!SigningInv, NEW id \in System!Session, NEW party \in System!Party,
           System!GenerateNonceCommitment(id, party)
    PROVE  System!SigningInv'
<1> USE DEF sessions, nonces, made, signatures, keys, signingKeyPair
<1> DEFINE old == sessions[id]
           commitments == System!Put(old.commitments, party, nonces + 1)
           new == [old EXCEPT !.commitments = commitments]
<1>1. /\ System!SigningTypeOK /\ id \in System!FrostSessions
      /\ System!NonceCommitted /\ id \in DOMAIN sessions
    BY DEF System!SigningInv, System!FrostSessions, System!GenerateNonceCommitment, System!Session
<1>2. old \in System!FrostSession
    BY <1>1, FrostTyped
<1>3. /\ sessions' = [sessions EXCEPT ![id] = new] /\ nonces' = nonces + 1
      /\ UNCHANGED <<keys, signingKeyPair, made, signatures>>
      /\ old.status = "commitment"
    BY DEF System!GenerateNonceCommitment, System!Update, System!keyVars, System!Commits
<1>4. DOMAIN old.shares = {}
    BY <1>1, <1>3 DEF System!SigningInv
<1>5. nonces \in Nat
    BY <1>1 DEF System!SigningTypeOK
<1>6. old = sessions[id]
    OBVIOUS
<1> HIDE DEF old
<1>7. /\ old.type = "frost" /\ old.commitments \in System!Commitments
      /\ old.shares \in UNION {[parties -> System!Response] : parties \in SUBSET System!Party}
    BY <1>2 DEF System!FrostSession
<1>8. /\ commitments \in System!Commitments
      /\ DOMAIN commitments = DOMAIN old.commitments \cup {party} /\ commitments[party] = nonces + 1
      /\ \A p \in DOMAIN old.commitments : p # party => commitments[p] = old.commitments[p]
    <2> DEFINE maps == UNION {[parties -> Nat] : parties \in SUBSET System!Party}
    <2>1. old.commitments \in maps /\ nonces + 1 \in Nat
        BY <1>5, <1>7 DEF System!Commitments
    <2>2. commitments \in maps
        <3> HIDE DEF commitments
        <3>1. System!Put(old.commitments, party, nonces + 1) \in maps
            BY <2>1, PutTyped
        <3> QED
            BY <3>1 DEF commitments
    <2>3. /\ DOMAIN commitments = DOMAIN old.commitments \cup {party}
          /\ commitments[party] = nonces + 1
          /\ \A p \in DOMAIN old.commitments : p # party => commitments[p] = old.commitments[p]
        BY DEF System!Put
    <2> QED
        BY <2>2, <2>3 DEF System!Commitments
<1> HIDE DEF commitments
<1>9. new = [type |-> "frost", status |-> "commitment", commitments |-> commitments, shares |-> old.shares]
    BY <1>2, <1>3, <1>7 DEF System!FrostSession
<1>10. /\ new \in System!FrostSession /\ new.type = "frost"
       /\ new.commitments = commitments /\ new.shares = old.shares
    BY <1>7, <1>8, <1>9 DEF System!FrostSession
<1> HIDE DEF new
<1>11. /\ sessions' \in Seq(System!AnySession) /\ DOMAIN sessions' = DOMAIN sessions
       /\ sessions'[id] = new
       /\ \A other \in DOMAIN sessions : other # id => sessions'[other] = sessions[other]
    BY <1>1, <1>3, <1>10, SessionUpdated DEF System!AnySession
<1>12. System!SigningTypeOK'
    BY <1>1, <1>3, <1>5, <1>11 DEF System!SigningTypeOK
<1>13. System!FrostSessions' = System!FrostSessions
    BY <1>1, <1>10, <1>11 DEF System!FrostSessions, System!Session
<1>14. ASSUME NEW other \in System!FrostSessions, NEW p \in DOMAIN sessions'[other].commitments
       PROVE  \/ other = id /\ p = party /\ sessions'[other].commitments[p] = nonces + 1
              \/ /\ p \in DOMAIN sessions[other].commitments
                 /\ sessions'[other].commitments[p] = sessions[other].commitments[p]
    <2>1. other \in DOMAIN sessions
        BY DEF System!FrostSessions, System!Session
    <2>2. CASE other = id
        BY <1>6, <1>8, <1>10, <1>11, <1>14, <2>2
    <2>3. CASE other # id
        BY <1>11, <1>14, <2>1, <2>3
    <2> QED
        BY <2>2, <2>3
<1>15. /\ \A first, second \in System!FrostSessions :
             \A r \in DOMAIN sessions[first].commitments, t \in DOMAIN sessions[second].commitments :
                sessions[second].commitments[t] = sessions[first].commitments[r] => second = first
       /\ \A other \in System!FrostSessions : \A p \in DOMAIN sessions[other].commitments :
             /\ sessions[other].commitments[p] <= nonces
             /\ \A a \in made : a.nonce = sessions[other].commitments[p] =>
                   /\ sessions[other].status = "signing"
                   /\ a.challenge.commitments = sessions[other].commitments
       /\ \A a \in made : a.nonce <= nonces /\ a.challenge.key = a.pair.key
       /\ \A a, b \in made : a.nonce = b.nonce => a.challenge.commitments = b.challenge.commitments
    BY <1>1 DEF System!NonceCommitted
<1>16. \A other \in System!FrostSessions : \A p \in DOMAIN sessions[other].commitments :
             sessions[other].commitments[p] \in Nat
    BY <1>1, FrostTyped DEF System!Commitments
<1>17. \A a \in made : a.nonce \in Nat
    BY <1>1 DEF System!SigningTypeOK, System!Response
<1>18. ASSUME NEW other \in System!FrostSessions, NEW p \in DOMAIN sessions'[other].commitments
       PROVE  sessions'[other].commitments[p] <= nonces + 1
    BY <1>5, <1>14, <1>15, <1>16, <1>18
<1>19. ASSUME NEW first \in System!FrostSessions, NEW second \in System!FrostSessions,
              NEW r \in DOMAIN sessions'[first].commitments, NEW t \in DOMAIN sessions'[second].commitments,
              sessions'[second].commitments[t] = sessions'[first].commitments[r]
       PROVE  second = first
    <2>1. \/ first = id /\ r = party /\ sessions'[first].commitments[r] = nonces + 1
          \/ /\ r \in DOMAIN sessions[first].commitments
             /\ sessions'[first].commitments[r] = sessions[first].commitments[r]
             /\ sessions'[first].commitments[r] <= nonces /\ sessions'[first].commitments[r] \in Nat
        BY <1>14, <1>15, <1>16
    <2>2. \/ second = id /\ t = party /\ sessions'[second].commitments[t] = nonces + 1
          \/ /\ t \in DOMAIN sessions[second].commitments
             /\ sessions'[second].commitments[t] = sessions[second].commitments[t]
             /\ sessions'[second].commitments[t] <= nonces /\ sessions'[second].commitments[t] \in Nat
        BY <1>14, <1>15, <1>16
    <2> QED
        BY <1>5, <1>15, <1>19, <2>1, <2>2
<1>20. ASSUME NEW other \in System!FrostSessions, NEW p \in DOMAIN sessions'[other].commitments,
              NEW a \in made, a.nonce = sessions'[other].commitments[p]
       PROVE  /\ sessions'[other].status = "signing"
              /\ a.challenge.commitments = sessions'[other].commitments
    <2>1. a.nonce # nonces + 1
        BY <1>5, <1>15, <1>17
    <2>2. p \in DOMAIN sessions[other].commitments /\ a.nonce = sessions[other].commitments[p]
        BY <1>14, <1>20, <2>1
    <2>3. sessions[other].status = "signing" /\ a.challenge.commitments = sessions[other].commitments
        BY <1>15, <2>2
    <2>4. other # id /\ other \in DOMAIN sessions
        BY <1>3, <1>6, <2>3 DEF System!FrostSessions, System!Session
    <2> QED
        BY <1>11, <2>3, <2>4
<1>21. \A a \in made : a.nonce <= nonces + 1 /\ a.challenge.key = a.pair.key
    BY <1>5, <1>15, <1>17
<1>22. System!NonceCommitted'
    BY <1>3, <1>13, <1>15, <1>18, <1>19, <1>20, <1>21 DEF System!NonceCommitted
<1>23. \A other \in System!FrostSessions' :
        /\ System!AllFit(sessions'[other].shares, sessions'[other].commitments)
        /\ sessions'[other].status = "commitment" => DOMAIN sessions'[other].shares = {}
    <2> SUFFICES ASSUME NEW other \in System!FrostSessions
                 PROVE  /\ System!AllFit(sessions'[other].shares, sessions'[other].commitments)
                        /\ sessions'[other].status = "commitment" => DOMAIN sessions'[other].shares = {}
        BY <1>13
    <2>1. CASE other = id
        BY <1>4, <1>10, <1>11, <2>1 DEF System!AllFit
    <2>2. CASE other # id
        <3>1. sessions'[other] = sessions[other]
            BY <1>11, <2>2 DEF System!FrostSessions, System!Session
        <3> QED
            BY <3>1 DEF System!SigningInv
    <2> QED
        BY <2>1, <2>2
<1> QED
    BY <1>3, <1>12, <1>22, <1>23 DEF System!SigningInv, System!AllFit, System!Fits

\* The invariant of signing.
LEMMA SystemInductive ==
    /\ System!Init => System!SigningInv
    /\ System!SigningInv /\ [System!Next]_(System!vars) => System!SigningInv'
<1> USE DEF sessions, nonces, made, signatures, keys, signingKeyPair
<1>1. ASSUME System!Init PROVE System!SigningInv
    <2>1. System!SigningTypeOK
        BY <1>1 DEF System!Init, System!SigningTypeOK, System!NoKey, System!Pair
    <2>2. System!FrostSessions = {}
        BY <1>1 DEF System!Init, System!FrostSessions, System!Session
    <2> QED
        BY <1>1, <2>1, <2>2 DEF System!Init, System!SigningInv, System!NonceCommitted
<1>2. ASSUME System!SigningInv, UNCHANGED System!vars PROVE System!SigningInv'
    BY <1>2, KeySteps
<1>3. ASSUME System!SigningInv, System!Next PROVE System!SigningInv'
    BY <1>3, KeySteps, CreateSessionStep, ContributeStandardStep, FinalizeSteps, TransitionStep,
       ShareStep, CommitStep DEF System!Next
<1> QED
    BY <1>1, <1>2, <1>3

\* The properties of signing.
LEMMA SystemSafe == System!SigningInv => System!NonceOneChallenge /\ System!FrostAddsUp
<1> USE DEF sessions, nonces, made, signatures, keys, signingKeyPair
<1> SUFFICES ASSUME System!SigningInv PROVE System!NonceOneChallenge /\ System!FrostAddsUp
    OBVIOUS
<1>1. System!SigningTypeOK /\ System!NonceCommitted
    BY DEF System!SigningInv
<1>2. System!NonceOneChallenge
    <2> SUFFICES ASSUME NEW a \in made, NEW b \in made, a.nonce = b.nonce, a.pair.key = b.pair.key
                 PROVE  a.challenge = b.challenge
        BY DEF System!NonceOneChallenge
    <2>1. /\ a.challenge.commitments = b.challenge.commitments
          /\ a.challenge.key = b.challenge.key
        BY <1>1 DEF System!NonceCommitted
    <2>2. a \in System!Response /\ b \in System!Response
        BY <1>1 DEF System!SigningTypeOK
    <2> QED
        BY <2>1, <2>2 DEF System!Response
<1>3. ASSUME NEW sig \in signatures,
             DOMAIN sig.shares = DOMAIN sig.committed,
             \A p \in DOMAIN sig.shares : sig.shares[p].pair.key = sig.challenge.key,
             \A p, q \in DOMAIN sig.shares : sig.shares[p].pair = sig.shares[q].pair
      PROVE  System!Whole(sig)
    <2>1. /\ sig \in System!Signature
          /\ System!AllFit(sig.shares, sig.committed)
          /\ sig.challenge.commitments = sig.committed
        BY <1>1 DEF System!SigningInv, System!SigningTypeOK
    <2>2. sig.challenge = [commitments |-> sig.committed, key |-> sig.challenge.key]
        BY <2>1 DEF System!Signature
    <2> QED
        BY <1>3, <2>1, <2>2 DEF System!Whole, System!AllFit, System!Fits
<1> QED
    BY <1>2, <1>3 DEF System!FrostAddsUp

-----------------------------------------------------------------------------
(* AuthenticatedShares: the field.                                         *)

\* Every nonempty set of natural numbers has a least one.
LEMMA LeastNumber ==
    ASSUME NEW S, S \subseteq Nat, S # {}
    PROVE  \E x \in S : \A y \in S : x <= y
<1> DEFINE R == {ss \in Nat \X Nat : ss[1] < ss[2]}
<1>1. IsWellFoundedOn(R, Nat)
    BY NatLessThanWellFounded, Zenon DEF OpToRel
<1>2. \A x, y \in Nat : x < y => <<x, y>> \in R
    OBVIOUS
<1> HIDE DEF R
<1>3. PICK x \in S : \A y \in S : ~ (<<y, x>> \in R)
    BY <1>1, WFMin, Zenon
<1>4. \A y \in S : ~ (y < x)
    BY <1>2, <1>3, Zenon
<1>5. \A y \in S : x <= y
    BY <1>4
<1> QED
    BY <1>5

\* Division with remainder.
LEMMA Division ==
    ASSUME NEW a \in Int, NEW m \in Nat \ {0}
    PROVE  \E q \in Int : a = m * q + (a % m) /\ a % m \in 0 .. m - 1
<1>1. a = m * (a \div m) + (a % m)
    OBVIOUS
<1>2. a \div m \in Int /\ a % m \in 0 .. m - 1
    OBVIOUS
<1> QED
    BY <1>1, <1>2, Zenon

\* What a number is modulo the prime, and that it is the only one.
LEMMA ModIs ==
    ASSUME NEW a \in Int
    PROVE  /\ Authenticated!Mod(a) \in Authenticated!Field
           /\ \E q \in Int : a = Modulus * q + Authenticated!Mod(a)
           /\ \A q \in Int, r \in Authenticated!Field :
                 a = Modulus * q + r => Authenticated!Mod(a) = r
<1>1. Modulus \in Nat \ {0}
    BY ModulusAssumption
<1>2. \E q \in Int : a = Modulus * q + (a % Modulus) /\ a % Modulus \in 0 .. Modulus - 1
    BY <1>1, Division
<1>3. ASSUME NEW q \in Int, NEW r \in 0 .. Modulus - 1, a = Modulus * q + r PROVE a % Modulus = r
    BY <1>1, <1>3
<1> QED
    BY <1>2, <1>3, Zenon DEF Authenticated!Mod, Authenticated!Field

\* Members of the field are numbers, and what they are modulo the prime.
LEMMA ModField ==
    ASSUME NEW a \in Authenticated!Field
    PROVE  a \in Int /\ a >= 0 /\ a < Modulus /\ Authenticated!Mod(a) = a
<1>1. a \in Int /\ a = Modulus * 0 + a /\ a >= 0 /\ a < Modulus
    BY ModulusAssumption DEF Authenticated!Field
<1> QED
    BY <1>1, ModIs

\* Numbers are equal modulo the prime when they differ by a multiple of it.
LEMMA ModSame ==
    ASSUME NEW a \in Int, NEW b \in Int
    PROVE  Authenticated!Mod(a) = Authenticated!Mod(b) <=> \E k \in Int : a = b + Modulus * k
<1>0. Modulus \in Int
    BY ModulusAssumption
<1>1. PICK p \in Int : a = Modulus * p + Authenticated!Mod(a)
    BY ModIs
<1>2. PICK q \in Int : b = Modulus * q + Authenticated!Mod(b)
    BY ModIs
<1>3. Authenticated!Mod(a) \in Int /\ Authenticated!Mod(b) \in Int
    BY ModIs, ModField
<1>4. ASSUME Authenticated!Mod(a) = Authenticated!Mod(b) PROVE \E k \in Int : a = b + Modulus * k
    <2>1. a = b + Modulus * (p - q) /\ p - q \in Int
        BY <1>0, <1>1, <1>2, <1>3, <1>4
    <2> QED
        BY <2>1
<1>5. ASSUME NEW k \in Int, a = b + Modulus * k PROVE Authenticated!Mod(a) = Authenticated!Mod(b)
    <2>1. a = Modulus * (q + k) + Authenticated!Mod(b) /\ q + k \in Int
        BY <1>0, <1>2, <1>3, <1>5
    <2> QED
        BY <2>1, ModIs
<1> QED
    BY <1>4, <1>5

\* Arithmetic by name, for the provers to match.
Plus(a, b) == a + b
Minus(a, b) == a - b
Times(a, b) == a * b

\* Sums, differences and products of numbers that are equal modulo the prime are.
LEMMA ModPlus ==
    ASSUME NEW a \in Int, NEW b \in Int, NEW c \in Int, NEW d \in Int,
           Authenticated!Mod(a) = Authenticated!Mod(c), Authenticated!Mod(b) = Authenticated!Mod(d)
    PROVE  Authenticated!Mod(Plus(a, b)) = Authenticated!Mod(Plus(c, d))
<1>1. PICK k \in Int : a = c + Modulus * k
    BY ModSame
<1>2. PICK l \in Int : b = d + Modulus * l
    BY ModSame
<1>3. Plus(a, b) = Plus(c, d) + Modulus * (k + l) /\ k + l \in Int
    BY <1>1, <1>2, ModulusAssumption DEF Plus
<1>4. Plus(a, b) \in Int /\ Plus(c, d) \in Int
    BY DEF Plus
<1> QED
    BY <1>3, <1>4, ModSame

LEMMA ModMinus ==
    ASSUME NEW a \in Int, NEW b \in Int, NEW c \in Int, NEW d \in Int,
           Authenticated!Mod(a) = Authenticated!Mod(c), Authenticated!Mod(b) = Authenticated!Mod(d)
    PROVE  Authenticated!Mod(Minus(a, b)) = Authenticated!Mod(Minus(c, d))
<1>1. PICK k \in Int : a = c + Modulus * k
    BY ModSame
<1>2. PICK l \in Int : b = d + Modulus * l
    BY ModSame
<1>3. Minus(a, b) = Minus(c, d) + Modulus * (k - l) /\ k - l \in Int
    BY <1>1, <1>2, ModulusAssumption DEF Minus
<1>4. Minus(a, b) \in Int /\ Minus(c, d) \in Int
    BY DEF Minus
<1> QED
    BY <1>3, <1>4, ModSame

LEMMA ModTimes ==
    ASSUME NEW a \in Int, NEW b \in Int, NEW c \in Int, NEW d \in Int,
           Authenticated!Mod(a) = Authenticated!Mod(c), Authenticated!Mod(b) = Authenticated!Mod(d)
    PROVE  Authenticated!Mod(Times(a, b)) = Authenticated!Mod(Times(c, d))
<1>1. PICK k \in Int : a = c + Modulus * k
    BY ModSame
<1>2. PICK l \in Int : b = d + Modulus * l
    BY ModSame
<1> DEFINE m == c * l + k * d + Modulus * k * l
<1>3. Times(a, b) = Times(c, d) + Modulus * m /\ m \in Int
    BY <1>1, <1>2, ModulusAssumption DEF Times
<1>4. Times(a, b) \in Int /\ Times(c, d) \in Int
    BY DEF Times
<1> HIDE DEF m
<1> QED
    BY <1>3, <1>4, ModSame

\* They are numbers.
LEMMA Arithmetical ==
    ASSUME NEW a \in Int, NEW b \in Int
    PROVE  Plus(a, b) \in Int /\ Minus(a, b) \in Int /\ Times(a, b) \in Int
BY DEF Plus, Minus, Times

\* The field has no divisors of zero: the least one would divide the prime.
LEMMA NoZeroDivisors ==
    ASSUME NEW a \in Authenticated!Field, NEW b \in Int, a # 0, Authenticated!Mod(a * b) = 0
    PROVE  Authenticated!Mod(b) = 0
<1> DEFINE Zeros == {m \in Nat : m # 0 /\ m < Modulus /\ Authenticated!Mod(m * b) = 0}
<1>0. Modulus \in Nat /\ Modulus > 1 /\ Authenticated!Mod(0) = 0
    <2>1. 0 \in Authenticated!Field
        BY ModulusAssumption DEF Authenticated!Field
    <2> QED
        BY <2>1, ModField, ModulusAssumption
<1>1. a \in Zeros
    BY ModField
<1>2. PICK m \in Zeros : \A n \in Zeros : m <= n
    <2>1. Zeros \subseteq Nat
        OBVIOUS
    <2> HIDE DEF Zeros
    <2> QED
        BY <1>1, <2>1, LeastNumber
<1>3. m \in Nat /\ m # 0 /\ m < Modulus /\ Authenticated!Mod(m * b) = 0
    OBVIOUS
<1>4. CASE m = 1
    BY <1>3, <1>4
<1>5. CASE m # 1
    <2>1. m \in 2 .. Modulus - 1
        BY <1>0, <1>3, <1>5
    <2>2. PICK q \in Int : Modulus = m * q + (Modulus % m) /\ Modulus % m \in 0 .. m - 1
        <3>1. Modulus \in Int /\ m \in Nat \ {0}
            BY <1>0, <1>3
        <3> QED
            BY <3>1, Division, Zenon
    <2> DEFINE r == Modulus % m
    <2>3. r # 0
        BY <2>1, ModulusAssumption
    <2>4. r \in 0 .. m - 1 /\ Modulus = m * q + r
        BY <2>2
    <2> HIDE DEF r
    <2>5. PICK k \in Int : m * b = 0 + Modulus * k
        BY <1>0, <1>3, ModSame
    <2>6. r * b = 0 + Modulus * (b - q * k)
        <3>1. r * b = Modulus * b - q * (m * b)
            BY <1>0, <1>3, <2>4
        <3>2. q * (m * b) = Modulus * (q * k)
            BY <1>0, <2>5
        <3> QED
            BY <1>0, <3>1, <3>2
    <2>7. Authenticated!Mod(r * b) = 0
        <3>1. b - q * k \in Int /\ r * b \in Int
            BY <2>4
        <3> QED
            BY <1>0, <2>6, <3>1, ModSame
    <2>8. r \in Zeros
        <3>1. r \in Nat /\ r # 0 /\ r < Modulus
            BY <1>0, <1>3, <2>3, <2>4
        <3> QED
            BY <2>7, <3>1
    <2> HIDE DEF Zeros
    <2>9. m <= r
        BY <1>2, <2>8
    <2> QED
        BY <1>3, <2>4, <2>9
<1> QED
    BY <1>4, <1>5

-----------------------------------------------------------------------------
(* AuthenticatedShares: what shares add up to.                             *)

\* u[n] is what the first n add up to.
Adding(f, u) ==
    /\ u \in [0 .. MPCParties -> Int] /\ u[0] = 0
    /\ \A n \in 1 .. MPCParties : u[n] = u[n - 1] + f[n]

\* There is such a function.
LEMMA AddingExists ==
    ASSUME NEW f \in [Authenticated!Party -> Int]
    PROVE  \E u : Adding(f, u)
<1> DEFINE UpTo(m, u) == /\ u \in [0 .. m -> Int] /\ u[0] = 0
                         /\ \A n \in 1 .. m : u[n] = u[n - 1] + f[n]
           Without == {m \in Nat : m <= MPCParties /\ ~ \E u : UpTo(m, u)}
<1>0. MPCParties \in Nat /\ Authenticated!Party = 1 .. MPCParties
    BY SharesAssumption DEF Authenticated!Party
<1>1. SUFFICES ASSUME Without # {} PROVE FALSE
    <2>1. \E u : UpTo(MPCParties, u)
        <3>1. MPCParties \notin Without
            <4> HIDE DEF Without
            <4> QED
                BY <1>1
        <3> HIDE DEF UpTo
        <3> QED
            BY <1>0, <3>1
    <2> QED
        BY <2>1 DEF Adding
<1>2. PICK m \in Without : \A k \in Without : m <= k
    <2>1. Without \subseteq Nat
        OBVIOUS
    <2> HIDE DEF Without
    <2> QED
        BY <1>1, <2>1, LeastNumber
<1>3. m \in Nat /\ m <= MPCParties /\ ~ \E u : UpTo(m, u)
    OBVIOUS
<1>4. CASE m = 0
    <2>1. UpTo(0, [n \in 0 .. 0 |-> 0])
        OBVIOUS
    <2> QED
        BY <1>3, <1>4, <2>1
<1>5. CASE m # 0
    <2>1. m - 1 \in Nat /\ m - 1 <= MPCParties /\ ~ m <= m - 1
        BY <1>0, <1>3, <1>5
    <2>2. m - 1 \notin Without
        <3> HIDE DEF Without
        <3> QED
            BY <1>2, <2>1
    <2>3. PICK u : UpTo(m - 1, u)
        BY <2>1, <2>2
    <2> DEFINE v == [n \in 0 .. m |-> IF n = m THEN u[m - 1] + f[m] ELSE u[n]]
    <2>4. f[m] \in Int /\ u[m - 1] \in Int /\ \A n \in 0 .. m - 1 : u[n] \in Int
        BY <1>0, <1>3, <1>5, <2>1, <2>3
    <2>5. v \in [0 .. m -> Int] /\ v[0] = 0
        BY <1>3, <1>5, <2>3, <2>4
    <2>6. ASSUME NEW n \in 1 .. m PROVE v[n] = v[n - 1] + f[n]
        <3>1. n - 1 \in 0 .. m /\ n - 1 # m /\ n \in 0 .. m
            BY <1>3
        <3>2. CASE n = m
            BY <3>1, <3>2
        <3>3. CASE n # m
            <4>1. n \in 1 .. m - 1
                BY <1>3, <3>3
            <4> QED
                BY <2>3, <3>1, <3>3, <4>1
        <3> QED
            BY <3>2, <3>3
    <2>7. UpTo(m, v)
        BY <2>5, <2>6
    <2> QED
        BY <1>3, <2>7
<1> QED
    BY <1>4, <1>5

\* reconstruct() computes it.
LEMMA TotalAdds ==
    ASSUME NEW f \in [Authenticated!Party -> Int]
    PROVE  /\ \E u : Adding(f, u) /\ Authenticated!Total(f) = u[MPCParties]
           /\ Authenticated!Total(f) \in Int
<1> DEFINE Body(g) == [n \in 0 .. MPCParties |-> IF n = 0 THEN 0 ELSE g[n - 1] + f[n]]
           G == CHOOSE g : g = Body(g)
<1>0. MPCParties \in Nat /\ Authenticated!Party = 1 .. MPCParties
    BY SharesAssumption DEF Authenticated!Party
<1>1. PICK u : Adding(f, u)
    BY AddingExists
<1>2. u = Body(u)
    <2>1. ASSUME NEW n \in 0 .. MPCParties PROVE u[n] = IF n = 0 THEN 0 ELSE u[n - 1] + f[n]
        <3>1. n = 0 \/ n \in 1 .. MPCParties
            BY <1>0
        <3> QED
            BY <1>1, <3>1 DEF Adding
    <2>2. u \in [0 .. MPCParties -> Int]
        BY <1>1 DEF Adding
    <2> QED
        BY <2>1, <2>2
<1>3. G = Body(G)
    BY <1>2
<1>4. Authenticated!Total(f) = G[MPCParties]
    BY DEF Authenticated!Total
<1>5. ASSUME NEW h, h = Body(h) PROVE Adding(f, h)
    <2> DEFINE Wrong == {n \in 0 .. MPCParties : h[n] \notin Int}
    <2>1. h[0] = 0 /\ \A n \in 1 .. MPCParties : h[n] = h[n - 1] + f[n]
        BY <1>0, <1>5
    <2>2. Wrong = {}
        <3> SUFFICES ASSUME Wrong # {} PROVE FALSE
            OBVIOUS
        <3>1. PICK n \in Wrong : \A k \in Wrong : n <= k
            <4>1. Wrong \subseteq Nat
                BY <1>0
            <4> HIDE DEF Wrong
            <4> QED
                BY <4>1, LeastNumber
        <3>2. n \in 1 .. MPCParties /\ h[n] \notin Int
            BY <1>0, <2>1
        <3>3. h[n - 1] \notin Int
            BY <1>0, <2>1, <3>2
        <3>4. n - 1 \in Wrong /\ ~ n <= n - 1
            BY <1>0, <3>2, <3>3
        <3> HIDE DEF Wrong
        <3> QED
            BY <3>1, <3>4
    <2>3. h \in [0 .. MPCParties -> Int]
        BY <1>5, <2>2
    <2> QED
        BY <2>1, <2>3 DEF Adding
<1> HIDE DEF G
<1>6. Adding(f, G)
    BY <1>3, <1>5
<1>7. G[MPCParties] \in Int
    BY <1>0, <1>6 DEF Adding
<1> QED
    BY <1>4, <1>6, <1>7

\* What follows the same course modulo the prime comes out the same.
LEMMA TotalFollows ==
    ASSUME NEW f \in [Authenticated!Party -> Int], NEW v \in [0 .. MPCParties -> Int],
           v[0] = 0,
           \A n \in 1 .. MPCParties : Authenticated!Mod(v[n]) = Authenticated!Mod(v[n - 1] + f[n])
    PROVE  Authenticated!Mod(Authenticated!Total(f)) = Authenticated!Mod(v[MPCParties])
<1>0. MPCParties \in Nat /\ Authenticated!Party = 1 .. MPCParties
    BY SharesAssumption DEF Authenticated!Party
<1>1. PICK u : Adding(f, u) /\ Authenticated!Total(f) = u[MPCParties]
    BY TotalAdds
<1> DEFINE Wrong == {n \in 0 .. MPCParties : Authenticated!Mod(u[n]) # Authenticated!Mod(v[n])}
<1>2. Wrong = {}
    <2> SUFFICES ASSUME Wrong # {} PROVE FALSE
        OBVIOUS
    <2>1. PICK n \in Wrong : \A k \in Wrong : n <= k
        <3>1. Wrong \subseteq Nat
            BY <1>0
        <3> HIDE DEF Wrong
        <3> QED
            BY <3>1, LeastNumber
    <2>2. n \in 1 .. MPCParties /\ Authenticated!Mod(u[n]) # Authenticated!Mod(v[n])
        BY <1>0, <1>1 DEF Adding
    <2>3. /\ n - 1 \in 0 .. MPCParties /\ ~ n <= n - 1
          /\ n \in 0 .. MPCParties
        BY <1>0, <2>2
    <2>4. Authenticated!Mod(u[n - 1]) = Authenticated!Mod(v[n - 1])
        <3>1. n - 1 \notin Wrong
            <4> HIDE DEF Wrong
            <4> QED
                BY <2>1, <2>3
        <3> QED
            BY <2>3, <3>1
    <2>5. u[n - 1] \in Int /\ v[n - 1] \in Int /\ f[n] \in Int
        BY <1>0, <1>1, <2>2, <2>3 DEF Adding
    <2>6. Authenticated!Mod(Plus(u[n - 1], f[n])) = Authenticated!Mod(Plus(v[n - 1], f[n]))
        BY <2>4, <2>5, ModPlus
    <2>7. u[n] = u[n - 1] + f[n]
        BY <1>1, <2>2 DEF Adding
    <2> QED
        BY <2>2, <2>6, <2>7 DEF Plus
<1>3. MPCParties \in 0 .. MPCParties
    BY <1>0
<1> QED
    BY <1>1, <1>2, <1>3

\* Shares that are those of a sum, a difference or a multiple are shares of it.
LEMMA TotalLinear ==
    ASSUME NEW f \in [Authenticated!Party -> Int], NEW g \in [Authenticated!Party -> Int],
           NEW h \in [Authenticated!Party -> Int], NEW c \in Int,
           \A p \in Authenticated!Party :
              Authenticated!Mod(f[p]) = Authenticated!Mod(g[p] + c * h[p])
    PROVE  Authenticated!Mod(Authenticated!Total(f))
             = Authenticated!Mod(Authenticated!Total(g) + c * Authenticated!Total(h))
<1>0. MPCParties \in Nat /\ Authenticated!Party = 1 .. MPCParties
    BY SharesAssumption DEF Authenticated!Party
<1>1. PICK u : Adding(g, u) /\ Authenticated!Total(g) = u[MPCParties]
    BY TotalAdds
<1>2. PICK w : Adding(h, w) /\ Authenticated!Total(h) = w[MPCParties]
    BY TotalAdds
<1> DEFINE v == [n \in 0 .. MPCParties |-> u[n] + c * w[n]]
<1>3. \A n \in 0 .. MPCParties : u[n] \in Int /\ w[n] \in Int
    BY <1>1, <1>2 DEF Adding
<1>4. v \in [0 .. MPCParties -> Int]
    BY <1>3
<1>5. v[0] = 0
    <2>1. u[0] = 0 /\ w[0] = 0 /\ 0 \in 0 .. MPCParties
        BY <1>0, <1>1, <1>2 DEF Adding
    <2> QED
        BY <2>1
<1>6. ASSUME NEW n \in 1 .. MPCParties
      PROVE  Authenticated!Mod(v[n]) = Authenticated!Mod(v[n - 1] + f[n])
    <2>1. n - 1 \in 0 .. MPCParties /\ n \in 0 .. MPCParties
        BY <1>0
    <2>2. u[n] = u[n - 1] + g[n] /\ w[n] = w[n - 1] + h[n]
        BY <1>1, <1>2 DEF Adding
    <2>3. u[n - 1] \in Int /\ w[n - 1] \in Int /\ f[n] \in Int /\ g[n] \in Int /\ h[n] \in Int
        BY <1>0, <1>3, <2>1
    <2>4. v[n] = v[n - 1] + (g[n] + c * h[n]) /\ v[n - 1] \in Int /\ g[n] + c * h[n] \in Int
        BY <2>1, <2>2, <2>3
    <2>5. Authenticated!Mod(f[n]) = Authenticated!Mod(g[n] + c * h[n])
        BY <1>0
    <2> HIDE DEF v
    <2> DEFINE step == g[n] + c * h[n]
               before == v[n - 1]
    <2>6. step \in Int /\ before \in Int /\ f[n] \in Int /\ Authenticated!Mod(f[n]) = Authenticated!Mod(step)
        BY <2>3, <2>4, <2>5
    <2> HIDE DEF step, before
    <2>7. Authenticated!Mod(Plus(before, f[n])) = Authenticated!Mod(Plus(before, step))
        BY <2>6, ModPlus
    <2> QED
        BY <2>4, <2>7 DEF step, before, Plus
<1>7. v[MPCParties] = Authenticated!Total(g) + c * Authenticated!Total(h)
    BY <1>0, <1>1, <1>2
<1> HIDE DEF v
<1>8. Authenticated!Mod(Authenticated!Total(f)) = Authenticated!Mod(v[MPCParties])
    BY <1>4, <1>5, <1>6, TotalFollows
<1> QED
    BY <1>7, <1>8

\* What is added to the first share is added to the total.
LEMMA TotalOfFirst ==
    ASSUME NEW f \in [Authenticated!Party -> Int], NEW g \in [Authenticated!Party -> Int],
           NEW c \in Int, Authenticated!Mod(f[1]) = Authenticated!Mod(g[1] + c),
           \A p \in Authenticated!Party : p # 1 => f[p] = g[p]
    PROVE  Authenticated!Mod(Authenticated!Total(f)) = Authenticated!Mod(Authenticated!Total(g) + c)
<1>0. MPCParties \in Nat /\ MPCParties # 0 /\ Authenticated!Party = 1 .. MPCParties
    BY SharesAssumption DEF Authenticated!Party
<1>1. PICK u : Adding(g, u) /\ Authenticated!Total(g) = u[MPCParties]
    BY TotalAdds
<1> DEFINE v == [n \in 0 .. MPCParties |-> IF n = 0 THEN 0 ELSE u[n] + c]
<1>3. \A n \in 0 .. MPCParties : u[n] \in Int
    BY <1>1 DEF Adding
<1>4. v \in [0 .. MPCParties -> Int] /\ v[0] = 0
    BY <1>0, <1>3
<1>6. ASSUME NEW n \in 1 .. MPCParties
      PROVE  Authenticated!Mod(v[n]) = Authenticated!Mod(v[n - 1] + f[n])
    <2>1. n - 1 \in 0 .. MPCParties /\ n \in 0 .. MPCParties /\ n \in Int /\ n # 0
        BY <1>0
    <2>2. u[n] = u[n - 1] + g[n] /\ u[0] = 0
        BY <1>1 DEF Adding
    <2>3. u[n - 1] \in Int /\ f[n] \in Int /\ g[n] \in Int
        BY <1>0, <1>3, <2>1
    <2>4. v[n] = u[n - 1] + g[n] + c
        BY <2>1, <2>2
    <2>5. CASE n = 1
        <3>1. v[n] = g[1] + c /\ v[n - 1] = 0
            BY <1>4, <2>2, <2>3, <2>4, <2>5
        <3>2. v[n - 1] + f[n] = f[1]
            BY <2>3, <2>5, <3>1
        <3> HIDE DEF v
        <3> QED
            BY <3>1, <3>2
    <2>6. CASE n # 1
        <3>1. v[n - 1] = u[n - 1] + c /\ f[n] = g[n]
            BY <1>0, <2>1, <2>6
        <3> HIDE DEF v
        <3> QED
            BY <2>3, <2>4, <3>1
    <2> QED
        BY <2>5, <2>6
<1>7. v[MPCParties] = Authenticated!Total(g) + c
    BY <1>0, <1>1
<1> HIDE DEF v
<1>8. Authenticated!Mod(Authenticated!Total(f)) = Authenticated!Mod(v[MPCParties])
    BY <1>4, <1>6, TotalFollows
<1> QED
    BY <1>7, <1>8

\* AdditiveSecretSharing.share() shares what it was given.
LEMMA AdditiveShared ==
    ASSUME NEW x \in Int, NEW r \in Authenticated!Field
    PROVE  /\ Authenticated!AdditiveShare(x, r) \in [Authenticated!Party -> Authenticated!Field]
           /\ Authenticated!Mod(Authenticated!Total(Authenticated!AdditiveShare(x, r)))
                = Authenticated!Mod(x)
<1> DEFINE f == Authenticated!AdditiveShare(x, r)
           last == x - (MPCParties - 1) * r
           v == [n \in 0 .. MPCParties |-> IF n < MPCParties THEN n * r ELSE x]
<1>0. /\ MPCParties \in Nat /\ MPCParties # 0 /\ Authenticated!Party = 1 .. MPCParties
      /\ r \in Int
    BY SharesAssumption, ModField DEF Authenticated!Party
<1>1. last \in Int
    BY <1>0
<1>2. Authenticated!Mod(last) \in Authenticated!Field
    BY <1>1, ModIs
<1>3. f = [p \in 1 .. MPCParties |-> IF p < MPCParties THEN r ELSE Authenticated!Mod(last)]
    BY <1>0 DEF Authenticated!AdditiveShare
<1> HIDE DEF last
<1>4. f \in [Authenticated!Party -> Authenticated!Field]
    BY <1>0, <1>2, <1>3
<1>5. f \in [Authenticated!Party -> Int]
    <2>1. \A a \in Authenticated!Field : a \in Int
        BY ModField
    <2> HIDE DEF f
    <2> QED
        BY <1>4, <2>1
<1> HIDE DEF f
<1>6. v \in [0 .. MPCParties -> Int] /\ v[0] = 0
    <2>1. ASSUME NEW n \in 0 .. MPCParties PROVE (IF n < MPCParties THEN n * r ELSE x) \in Int
        BY <1>0
    <2>2. 0 \in 0 .. MPCParties /\ 0 < MPCParties /\ 0 * r = 0
        BY <1>0
    <2> QED
        BY <2>1, <2>2
<1>7. ASSUME NEW n \in 1 .. MPCParties
      PROVE  Authenticated!Mod(v[n]) = Authenticated!Mod(v[n - 1] + f[n])
    <2>1. n - 1 \in 0 .. MPCParties /\ n - 1 < MPCParties /\ n \in 0 .. MPCParties /\ n \in Int
        BY <1>0
    <2>2. v[n - 1] = (n - 1) * r
        BY <2>1
    <2>3. CASE n < MPCParties
        <3>1. v[n] = n * r /\ f[n] = r
            BY <1>3, <2>1, <2>3
        <3> HIDE DEF v
        <3>2. v[n] = v[n - 1] + f[n]
            BY <1>0, <2>1, <2>2, <3>1
        <3> QED
            BY <3>2
    <2>4. CASE n = MPCParties
        <3>1. v[n] = x /\ f[n] = Authenticated!Mod(last)
            BY <1>0, <1>3, <2>1, <2>4
        <3> HIDE DEF v
        <3>2. x = (n - 1) * r + last /\ (n - 1) * r \in Int
            BY <1>0, <2>1, <2>4 DEF last
        <3>3. Authenticated!Mod(last) \in Int /\ Authenticated!Mod(Authenticated!Mod(last)) = Authenticated!Mod(last)
            BY <1>2, ModField
        <3> DEFINE before == (n - 1) * r
        <3>4. before \in Int
            BY <3>2
        <3> HIDE DEF before
        <3>5. Authenticated!Mod(Plus(before, Authenticated!Mod(last))) = Authenticated!Mod(Plus(before, last))
            BY <1>1, <3>3, <3>4, ModPlus
        <3> QED
            BY <2>2, <3>1, <3>2, <3>5 DEF before, Plus
    <2>5. n < MPCParties \/ n = MPCParties
        BY <1>0, <2>1
    <2> QED
        BY <2>3, <2>4, <2>5
<1>8. v[MPCParties] = x
    BY <1>0
<1> HIDE DEF v
<1>9. Authenticated!Mod(Authenticated!Total(f)) = Authenticated!Mod(v[MPCParties])
    BY <1>5, <1>6, <1>7, TotalFollows
<1> QED
    BY <1>4, <1>8, <1>9 DEF f

-----------------------------------------------------------------------------
(* AuthenticatedShares: shared values and their codes.                     *)

macKey == slot1
wires == slot2
plain == slot3
unnoticed == slot4
output == slot5

\* Shares and codes add up to numbers.
LEMMA SharedTyped ==
    ASSUME NEW x \in Authenticated!Shared
    PROVE  /\ x.value \in [Authenticated!Party -> Int] /\ x.mac \in [Authenticated!Party -> Int]
           /\ x.value \in [Authenticated!Party -> Authenticated!Field]
           /\ x.mac \in [Authenticated!Party -> Authenticated!Field]
           /\ Authenticated!Total(x.value) \in Int /\ Authenticated!Total(x.mac) \in Int
<1>1. /\ x.value \in [Authenticated!Party -> Authenticated!Field]
      /\ x.mac \in [Authenticated!Party -> Authenticated!Field]
    BY DEF Authenticated!Shared
<1>2. \A a \in Authenticated!Field : a \in Int
    BY ModField
<1>3. x.value \in [Authenticated!Party -> Int] /\ x.mac \in [Authenticated!Party -> Int]
    BY <1>1, <1>2
<1> QED
    BY <1>1, <1>3, TotalAdds

\* A difference is zero modulo the prime when the numbers are equal.
LEMMA ModZero ==
    ASSUME NEW a \in Int, NEW b \in Int
    PROVE  Authenticated!Mod(a - b) = 0 <=> Authenticated!Mod(a) = Authenticated!Mod(b)
<1>1. Authenticated!Mod(0) = 0
    BY ModField, ModulusAssumption DEF Authenticated!Field
<1>2. a - b \in Int /\ Modulus \in Int
    BY ModulusAssumption
<1>3. Authenticated!Mod(a - b) = Authenticated!Mod(0) <=> \E k \in Int : a - b = 0 + Modulus * k
    BY <1>2, ModSame
<1>4. Authenticated!Mod(a) = Authenticated!Mod(b) <=> \E k \in Int : a = b + Modulus * k
    BY ModSame
<1>5. \A k \in Int : a - b = 0 + Modulus * k <=> a = b + Modulus * k
    BY <1>2
<1> QED
    BY <1>1, <1>3, <1>4, <1>5

\* The codes of a + c * b are the sum of those of a and c times those of b.
LEMMA CodesAdd ==
    ASSUME NEW k \in Int, NEW a \in Int, NEW b \in Int, NEW c \in Int, NEW am \in Int, NEW bm \in Int,
           NEW t \in Int, NEW tm \in Int,
           Authenticated!Mod(am) = Authenticated!Mod(Times(k, a)),
           Authenticated!Mod(bm) = Authenticated!Mod(Times(k, b)),
           Authenticated!Mod(t) = Authenticated!Mod(Plus(a, Times(c, b))),
           Authenticated!Mod(tm) = Authenticated!Mod(Plus(am, Times(c, bm)))
    PROVE  Authenticated!Mod(tm) = Authenticated!Mod(Times(k, t))
<1>1. /\ Times(k, a) \in Int /\ Times(k, b) \in Int /\ Times(c, Times(k, b)) \in Int
      /\ Times(c, b) \in Int /\ Plus(a, Times(c, b)) \in Int /\ Times(c, bm) \in Int
    BY Arithmetical
<1>2. Plus(Times(k, a), Times(c, Times(k, b))) = Times(k, Plus(a, Times(c, b)))
    BY DEF Plus, Times
<1>3. Authenticated!Mod(Times(c, bm)) = Authenticated!Mod(Times(c, Times(k, b)))
    BY <1>1, ModTimes
<1>4. Authenticated!Mod(Times(k, t)) = Authenticated!Mod(Times(k, Plus(a, Times(c, b))))
    BY <1>1, ModTimes
<1>5. Authenticated!Mod(Plus(am, Times(c, bm)))
        = Authenticated!Mod(Plus(Times(k, a), Times(c, Times(k, b))))
    BY <1>1, <1>3, ModPlus
<1> QED
    BY <1>2, <1>4, <1>5

\* The codes are those of what the shares add up to.
Coded(x) ==
    /\ x \in Authenticated!Shared
    /\ Authenticated!Mod(Authenticated!Total(x.mac))
         = Authenticated!Mod(Times(macKey, Authenticated!Total(x.value)))

\* What is computed of two shared values share by share.
LEMMA Combined ==
    ASSUME macKey \in Authenticated!Field, NEW x, NEW y, NEW z \in Authenticated!Shared, NEW c \in Int,
           Coded(x), Coded(y),
           \A p \in Authenticated!Party :
              /\ Authenticated!Mod(z.value[p]) = Authenticated!Mod(x.value[p] + c * y.value[p])
              /\ Authenticated!Mod(z.mac[p]) = Authenticated!Mod(x.mac[p] + c * y.mac[p])
    PROVE  /\ Coded(z)
           /\ Authenticated!Mod(Authenticated!Total(z.value))
                = Authenticated!Mod(Plus(Authenticated!Total(x.value), Times(c, Authenticated!Total(y.value))))
<1>1. x \in Authenticated!Shared /\ y \in Authenticated!Shared /\ macKey \in Int
    BY ModField DEF Coded
<1>2. /\ x.value \in [Authenticated!Party -> Int] /\ x.mac \in [Authenticated!Party -> Int]
      /\ y.value \in [Authenticated!Party -> Int] /\ y.mac \in [Authenticated!Party -> Int]
      /\ z.value \in [Authenticated!Party -> Int] /\ z.mac \in [Authenticated!Party -> Int]
    BY <1>1, SharedTyped
<1>3. /\ Authenticated!Total(x.value) \in Int /\ Authenticated!Total(x.mac) \in Int
      /\ Authenticated!Total(y.value) \in Int /\ Authenticated!Total(y.mac) \in Int
      /\ Authenticated!Total(z.value) \in Int /\ Authenticated!Total(z.mac) \in Int
    BY <1>1, SharedTyped
<1>4. Authenticated!Mod(Authenticated!Total(z.value))
        = Authenticated!Mod(Plus(Authenticated!Total(x.value), Times(c, Authenticated!Total(y.value))))
    BY <1>2, TotalLinear DEF Plus, Times
<1>5. Authenticated!Mod(Authenticated!Total(z.mac))
        = Authenticated!Mod(Plus(Authenticated!Total(x.mac), Times(c, Authenticated!Total(y.mac))))
    BY <1>2, TotalLinear DEF Plus, Times
<1>6. Authenticated!Mod(Authenticated!Total(z.mac))
        = Authenticated!Mod(Times(macKey, Authenticated!Total(z.value)))
    <2>1. /\ Authenticated!Mod(Authenticated!Total(x.mac))
               = Authenticated!Mod(Times(macKey, Authenticated!Total(x.value)))
          /\ Authenticated!Mod(Authenticated!Total(y.mac))
               = Authenticated!Mod(Times(macKey, Authenticated!Total(y.value)))
        BY DEF Coded
    <2> QED
        BY <1>1, <1>3, <1>4, <1>5, <2>1, CodesAdd
<1> QED
    BY <1>4, <1>6 DEF Coded

\* Sums, differences and multiples of shared values are shared values (SPDZProtocol.add(),
\* secureCompare(), mulConstant()).
LEMMA CombinedShared ==
    ASSUME macKey \in Authenticated!Field, NEW x, NEW y, NEW c \in Int, Coded(x), Coded(y)
    PROVE  /\ Coded(Authenticated!Add(x, y))
           /\ Authenticated!Mod(Authenticated!Total(Authenticated!Add(x, y).value))
                = Authenticated!Mod(Plus(Authenticated!Total(x.value), Authenticated!Total(y.value)))
           /\ Coded(Authenticated!Subtract(x, y))
           /\ Authenticated!Mod(Authenticated!Total(Authenticated!Subtract(x, y).value))
                = Authenticated!Mod(Minus(Authenticated!Total(x.value), Authenticated!Total(y.value)))
           /\ Coded(Authenticated!MulConstant(x, c))
           /\ Authenticated!Mod(Authenticated!Total(Authenticated!MulConstant(x, c).value))
                = Authenticated!Mod(Times(Authenticated!Total(x.value), c))
<1>1. x \in Authenticated!Shared /\ y \in Authenticated!Shared
    BY DEF Coded
<1>2. \A p \in Authenticated!Party :
        x.value[p] \in Int /\ x.mac[p] \in Int /\ y.value[p] \in Int /\ y.mac[p] \in Int
    BY <1>1, SharedTyped
<1>3. Authenticated!Total(x.value) \in Int /\ Authenticated!Total(y.value) \in Int
    BY <1>1, SharedTyped
<1>4. \A a \in Int : /\ Authenticated!Mod(a) \in Authenticated!Field
                     /\ Authenticated!Mod(Authenticated!Mod(a)) = Authenticated!Mod(a)
    BY ModIs, ModField
<1>5. /\ Coded(Authenticated!Add(x, y))
      /\ Authenticated!Mod(Authenticated!Total(Authenticated!Add(x, y).value))
           = Authenticated!Mod(Plus(Authenticated!Total(x.value), Authenticated!Total(y.value)))
    <2> DEFINE z == Authenticated!Add(x, y)
    <2>1. z \in Authenticated!Shared
        BY <1>2, <1>4 DEF Authenticated!Add, Authenticated!Shared
    <2>2. \A p \in Authenticated!Party :
             /\ Authenticated!Mod(z.value[p]) = Authenticated!Mod(x.value[p] + 1 * y.value[p])
             /\ Authenticated!Mod(z.mac[p]) = Authenticated!Mod(x.mac[p] + 1 * y.mac[p])
        BY <1>2, <1>4 DEF Authenticated!Add
    <2>3. Plus(Authenticated!Total(x.value), Times(1, Authenticated!Total(y.value)))
            = Plus(Authenticated!Total(x.value), Authenticated!Total(y.value))
        BY <1>3 DEF Plus, Times
    <2> HIDE DEF z
    <2> QED
        BY <2>1, <2>2, <2>3, Combined DEF z
<1>6. /\ Coded(Authenticated!Subtract(x, y))
      /\ Authenticated!Mod(Authenticated!Total(Authenticated!Subtract(x, y).value))
           = Authenticated!Mod(Minus(Authenticated!Total(x.value), Authenticated!Total(y.value)))
    <2> DEFINE z == Authenticated!Subtract(x, y)
    <2>1. z \in Authenticated!Shared
        BY <1>2, <1>4 DEF Authenticated!Subtract, Authenticated!Shared
    <2>2. \A p \in Authenticated!Party :
             /\ Authenticated!Mod(z.value[p]) = Authenticated!Mod(x.value[p] + (0 - 1) * y.value[p])
             /\ Authenticated!Mod(z.mac[p]) = Authenticated!Mod(x.mac[p] + (0 - 1) * y.mac[p])
        <3>1. \A a, b \in Int : a + (0 - 1) * b = a - b
            OBVIOUS
        <3> QED
            BY <1>2, <1>4, <3>1 DEF Authenticated!Subtract
    <2>3. Plus(Authenticated!Total(x.value), Times(0 - 1, Authenticated!Total(y.value)))
            = Minus(Authenticated!Total(x.value), Authenticated!Total(y.value))
        BY <1>3 DEF Plus, Minus, Times
    <2> HIDE DEF z
    <2>4. 0 - 1 \in Int
        OBVIOUS
    <2> QED
        BY <2>1, <2>2, <2>3, <2>4, Combined DEF z
<1>7. /\ Coded(Authenticated!MulConstant(x, c))
      /\ Authenticated!Mod(Authenticated!Total(Authenticated!MulConstant(x, c).value))
           = Authenticated!Mod(Times(Authenticated!Total(x.value), c))
    <2> DEFINE z == Authenticated!MulConstant(x, c)
               less == c - 1
    <2>0. \A a \in Int : a + less * a = a * c
        OBVIOUS
    <2>5. less \in Int
        OBVIOUS
    <2> HIDE DEF less
    <2>1. z \in Authenticated!Shared
        BY <1>2, <1>4 DEF Authenticated!MulConstant, Authenticated!Shared
    <2>2. \A p \in Authenticated!Party :
             /\ Authenticated!Mod(z.value[p]) = Authenticated!Mod(x.value[p] + less * x.value[p])
             /\ Authenticated!Mod(z.mac[p]) = Authenticated!Mod(x.mac[p] + less * x.mac[p])
        <3> SUFFICES ASSUME NEW p \in Authenticated!Party
                     PROVE  /\ Authenticated!Mod(z.value[p]) = Authenticated!Mod(x.value[p] + less * x.value[p])
                            /\ Authenticated!Mod(z.mac[p]) = Authenticated!Mod(x.mac[p] + less * x.mac[p])
            OBVIOUS
        <3>1. /\ z.value[p] = Authenticated!Mod(x.value[p] * c) /\ x.value[p] * c \in Int
              /\ z.mac[p] = Authenticated!Mod(x.mac[p] * c) /\ x.mac[p] * c \in Int
            BY <1>2 DEF Authenticated!MulConstant
        <3>2. /\ x.value[p] + less * x.value[p] = x.value[p] * c
              /\ x.mac[p] + less * x.mac[p] = x.mac[p] * c
            BY <1>2, <2>0, Zenon
        <3> QED
            BY <1>4, <3>1, <3>2, Zenon
    <2>3. Plus(Authenticated!Total(x.value), Times(less, Authenticated!Total(x.value)))
            = Times(Authenticated!Total(x.value), c)
        BY <1>3, <2>0, Zenon DEF Plus, Times
    <2> HIDE DEF z
    <2>4. /\ Coded(z)
          /\ Authenticated!Mod(Authenticated!Total(z.value))
               = Authenticated!Mod(Plus(Authenticated!Total(x.value), Times(less, Authenticated!Total(x.value))))
        BY <2>1, <2>2, <2>5, Combined
    <2> QED
        BY <2>3, <2>4 DEF z
<1> QED
    BY <1>5, <1>6, <1>7

\* The parties share the key.
LEMMA KeyShared ==
    ASSUME macKey \in Authenticated!Field
    PROVE  /\ Authenticated!MacKeyShare \in [Authenticated!Party -> Int]
           /\ Authenticated!Total(Authenticated!MacKeyShare) \in Int
           /\ Authenticated!Mod(Authenticated!Total(Authenticated!MacKeyShare)) = Authenticated!Mod(macKey)
<1>1. macKey \in Int /\ 1 \in Authenticated!Field
    BY ModField, ModulusAssumption DEF Authenticated!Field
<1>2. /\ Authenticated!MacKeyShare \in [Authenticated!Party -> Authenticated!Field]
      /\ Authenticated!Mod(Authenticated!Total(Authenticated!MacKeyShare)) = Authenticated!Mod(macKey)
    BY <1>1, AdditiveShared DEF Authenticated!MacKeyShare, macKey
<1>3. \A a \in Authenticated!Field : a \in Int
    BY ModField
<1>4. Authenticated!MacKeyShare \in [Authenticated!Party -> Int]
    BY <1>2, <1>3
<1> QED
    BY <1>2, <1>4, TotalAdds

\* addConstant() adds to the value what the codes say.
LEMMA ShiftedShared ==
    ASSUME macKey \in Authenticated!Field, NEW x, NEW c \in Int, Coded(x)
    PROVE  /\ Coded(Authenticated!AddConstant(x, c))
           /\ Authenticated!Mod(Authenticated!Total(Authenticated!AddConstant(x, c).value))
                = Authenticated!Mod(Plus(Authenticated!Total(x.value), c))
<1> DEFINE z == Authenticated!AddConstant(x, c)
           key == Authenticated!MacKeyShare
<1>1. /\ x \in Authenticated!Shared /\ macKey \in Int
      /\ 1 \in Authenticated!Party
    BY ModField, SharesAssumption DEF Coded, Authenticated!Party
<1>2. /\ x.value \in [Authenticated!Party -> Authenticated!Field]
      /\ x.value \in [Authenticated!Party -> Int] /\ x.mac \in [Authenticated!Party -> Int]
      /\ Authenticated!Total(x.value) \in Int /\ Authenticated!Total(x.mac) \in Int
    BY <1>1, SharedTyped
<1>3. key \in [Authenticated!Party -> Int] /\ Authenticated!Total(key) \in Int
      /\ Authenticated!Mod(Authenticated!Total(key)) = Authenticated!Mod(macKey)
    BY KeyShared
<1> HIDE DEF key
<1>4. \A a \in Int : /\ Authenticated!Mod(a) \in Authenticated!Field
                     /\ Authenticated!Mod(Authenticated!Mod(a)) = Authenticated!Mod(a)
    BY ModIs, ModField
<1>5. /\ z.value = [x.value EXCEPT ![1] = Authenticated!Mod(x.value[1] + c)]
      /\ z.mac = [p \in Authenticated!Party |-> Authenticated!Mod(x.mac[p] + key[p] * c)]
    BY DEF Authenticated!AddConstant, key
<1>6. z \in Authenticated!Shared
    <2>1. x.value[1] + c \in Int /\ \A p \in Authenticated!Party : x.mac[p] + key[p] * c \in Int
        BY <1>1, <1>2, <1>3
    <2>2. z = [value |-> z.value, mac |-> z.mac]
        BY DEF Authenticated!AddConstant
    <2> HIDE DEF z
    <2>3. /\ z.value \in [Authenticated!Party -> Authenticated!Field]
          /\ z.mac \in [Authenticated!Party -> Authenticated!Field]
        BY <1>1, <1>2, <1>4, <1>5, <2>1
    <2> QED
        BY <2>2, <2>3 DEF Authenticated!Shared
<1> HIDE DEF z
<1>7. /\ z.value \in [Authenticated!Party -> Int] /\ z.mac \in [Authenticated!Party -> Int]
      /\ Authenticated!Total(z.value) \in Int /\ Authenticated!Total(z.mac) \in Int
    BY <1>6, SharedTyped
<1>8. Authenticated!Mod(Authenticated!Total(z.value)) = Authenticated!Mod(Plus(Authenticated!Total(x.value), c))
    <2>1. Authenticated!Mod(z.value[1]) = Authenticated!Mod(x.value[1] + c)
        <3>1. x.value[1] + c \in Int /\ z.value[1] = Authenticated!Mod(x.value[1] + c)
            BY <1>1, <1>2, <1>5
        <3> QED
            BY <1>4, <3>1
    <2>2. \A p \in Authenticated!Party : p # 1 => z.value[p] = x.value[p]
        BY <1>2, <1>5
    <2> QED
        BY <1>2, <1>7, <2>1, <2>2, TotalOfFirst DEF Plus
<1>9. Authenticated!Mod(Authenticated!Total(z.mac))
        = Authenticated!Mod(Plus(Authenticated!Total(x.mac), Times(c, Authenticated!Total(key))))
    <2>1. ASSUME NEW p \in Authenticated!Party
          PROVE  Authenticated!Mod(z.mac[p]) = Authenticated!Mod(x.mac[p] + c * key[p])
        <3>1. x.mac[p] + key[p] * c \in Int /\ x.mac[p] + key[p] * c = x.mac[p] + c * key[p]
            BY <1>2, <1>3
        <3> QED
            BY <1>4, <1>5, <3>1
    <2> QED
        BY <1>2, <1>3, <1>7, <2>1, TotalLinear DEF Plus, Times
<1>10. Authenticated!Mod(Authenticated!Total(z.mac))
         = Authenticated!Mod(Times(macKey, Authenticated!Total(z.value)))
    <2>1. Times(macKey, 1) = macKey /\ Times(c, 1) = c
        BY <1>1 DEF Times
    <2>2. Authenticated!Mod(Authenticated!Total(x.mac))
            = Authenticated!Mod(Times(macKey, Authenticated!Total(x.value)))
        BY DEF Coded
    <2>3. /\ Authenticated!Mod(Authenticated!Total(key)) = Authenticated!Mod(Times(macKey, 1))
          /\ Authenticated!Mod(Authenticated!Total(z.value))
               = Authenticated!Mod(Plus(Authenticated!Total(x.value), Times(c, 1)))
        BY <1>3, <1>8, <2>1
    <2> QED
        BY <1>1, <1>2, <1>3, <1>7, <1>9, <2>2, <2>3, CodesAdd
<1> QED
    BY <1>6, <1>8, <1>10 DEF Coded, z

\* authenticatedShare() shares a value with its codes.
LEMMA FreshShared ==
    ASSUME macKey \in Authenticated!Field, NEW x \in Int, NEW r \in Chance, NEW s \in Chance
    PROVE  /\ Coded(Authenticated!AuthenticatedShare(x, r, s))
           /\ Authenticated!Mod(Authenticated!Total(Authenticated!AuthenticatedShare(x, r, s).value))
                = Authenticated!Mod(x)
<1> DEFINE z == Authenticated!AuthenticatedShare(x, r, s)
           code == Authenticated!Mod(Times(macKey, x))
<1>1. r \in Authenticated!Field /\ s \in Authenticated!Field /\ macKey \in Int /\ Times(macKey, x) \in Int
    <2>1. macKey \in Int
        BY ModField
    <2> QED
        BY <2>1, SharesAssumption DEF Authenticated!Field, Times
<1>2. code \in Authenticated!Field /\ code \in Int /\ Authenticated!Mod(code) = Authenticated!Mod(Times(macKey, x))
    BY <1>1, ModIs, ModField
<1>3. /\ z.value = Authenticated!AdditiveShare(x, r) /\ z.mac = Authenticated!AdditiveShare(code, s)
      /\ z = [value |-> z.value, mac |-> z.mac]
    BY DEF Authenticated!AuthenticatedShare, Times, macKey
<1> HIDE DEF z, code
<1>4. /\ z.value \in [Authenticated!Party -> Authenticated!Field]
      /\ Authenticated!Mod(Authenticated!Total(z.value)) = Authenticated!Mod(x)
      /\ z.mac \in [Authenticated!Party -> Authenticated!Field]
      /\ Authenticated!Mod(Authenticated!Total(z.mac)) = Authenticated!Mod(code)
    BY <1>1, <1>2, <1>3, AdditiveShared
<1>5. z \in Authenticated!Shared
    BY <1>3, <1>4 DEF Authenticated!Shared
<1>6. Authenticated!Mod(Times(macKey, Authenticated!Total(z.value))) = Authenticated!Mod(Times(macKey, x))
    BY <1>1, <1>4, <1>5, SharedTyped, ModTimes
<1> QED
    BY <1>2, <1>4, <1>5, <1>6 DEF Coded, z

\* verifyMAC() accepts the codes of what was opened, and no others.
LEMMA VerifiedCodes ==
    ASSUME macKey \in Authenticated!Field, NEW mac \in [Authenticated!Party -> Int], NEW opened \in Int
    PROVE  Authenticated!VerifyMAC(mac, opened)
             <=> Authenticated!Mod(Authenticated!Total(mac)) = Authenticated!Mod(Times(macKey, opened))
<1> DEFINE key == Authenticated!MacKeyShare
           f == [p \in Authenticated!Party |-> mac[p] - key[p] * opened]
<1>1. key \in [Authenticated!Party -> Int] /\ Authenticated!Total(key) \in Int
      /\ Authenticated!Mod(Authenticated!Total(key)) = Authenticated!Mod(macKey)
    BY KeyShared
<1>2. Authenticated!VerifyMAC(mac, opened) <=> Authenticated!Mod(Authenticated!Total(f)) = 0
    BY DEF Authenticated!VerifyMAC, Authenticated!Sum
<1> HIDE DEF key
<1>3. f \in [Authenticated!Party -> Int] /\ Authenticated!Total(mac) \in Int /\ macKey \in Int
    BY <1>1, TotalAdds, ModField
<1>4. \A p \in Authenticated!Party : f[p] = mac[p] + (0 - opened) * key[p]
    BY <1>1
<1> HIDE DEF f
<1> DEFINE K == Authenticated!Total(key)
           M == Authenticated!Total(mac)
           minus == 0 - opened
<1>5. Authenticated!Mod(Authenticated!Total(f)) = Authenticated!Mod(Plus(M, Times(minus, K)))
    <2>1. minus \in Int /\ \A p \in Authenticated!Party : f[p] = mac[p] + minus * key[p]
        BY <1>4
    <2> HIDE DEF minus
    <2> QED
        BY <1>1, <1>3, <2>1, TotalLinear DEF Plus, Times
<1>6. M \in Int /\ K \in Int /\ minus \in Int /\ macKey \in Int /\ Authenticated!Mod(K) = Authenticated!Mod(macKey)
    BY <1>1, <1>3
<1>7. Authenticated!Mod(Plus(M, Times(minus, K))) = Authenticated!Mod(Plus(M, Times(minus, macKey)))
    <2> HIDE DEF M, K, minus
    <2>1. Authenticated!Mod(Times(minus, K)) = Authenticated!Mod(Times(minus, macKey))
        BY <1>6, ModTimes
    <2>2. Times(minus, K) \in Int /\ Times(minus, macKey) \in Int
        BY <1>6, Arithmetical
    <2> QED
        BY <1>6, <2>1, <2>2, ModPlus
<1>8. Plus(M, Times(minus, macKey)) = M - Times(macKey, opened) /\ Times(macKey, opened) \in Int
    <2> HIDE DEF M
    <2> QED
        BY <1>6 DEF Plus, Times
<1>9. Authenticated!Mod(M - Times(macKey, opened)) = 0
        <=> Authenticated!Mod(M) = Authenticated!Mod(Times(macKey, opened))
    <2> HIDE DEF M
    <2> QED
        BY <1>6, <1>8, ModZero
<1> QED
    BY <1>2, <1>5, <1>7, <1>8, <1>9

-----------------------------------------------------------------------------
(* AuthenticatedShares: its steps.                                         *)

\* What the invariant says of a shared value.
LEMMA WireCoded ==
    ASSUME Authenticated!AuthenticationInv, NEW i \in DOMAIN wires
    PROVE  /\ Coded(wires[i]) /\ macKey \in Int /\ Authenticated!Total(wires[i].value) \in Int
           /\ i \in DOMAIN plain /\ plain[i] \in Int /\ Authenticated!Mod(plain[i]) = plain[i]
           /\ (~unnoticed /\ macKey # 0) =>
                 Authenticated!Mod(Authenticated!Total(wires[i].value)) = Authenticated!Mod(plain[i])
<1> USE DEF wires, plain, macKey, unnoticed
<1>1. wires[i] \in Authenticated!Shared /\ i \in DOMAIN plain /\ plain[i] \in Authenticated!Field
    BY DEF Authenticated!AuthenticationInv
<1>2. plain[i] \in Int /\ Authenticated!Mod(plain[i]) = plain[i] /\ macKey \in Int
    BY <1>1, ModField DEF Authenticated!AuthenticationInv
<1>3. Authenticated!Total(wires[i].value) \in Int
    BY <1>1, SharedTyped
<1>4. Authenticated!Mod(Authenticated!Total(wires[i].mac))
        = Authenticated!Mod(Times(macKey, Authenticated!Total(wires[i].value)))
    BY DEF Authenticated!AuthenticationInv, Authenticated!Sum, Times
<1>5. (~unnoticed /\ macKey # 0) => Authenticated!Mod(Authenticated!Total(wires[i].value)) = plain[i]
    BY DEF Authenticated!AuthenticationInv, Authenticated!Sum
<1> QED
    BY <1>1, <1>2, <1>3, <1>4, <1>5 DEF Coded

\* A new shared value that is what it should be, or comes with a lie.
LEMMA NewWireStep ==
    ASSUME Authenticated!AuthenticationInv, NEW x, Coded(x), NEW v \in Int, Authenticated!NewWire(x, v),
           unnoticed' \in BOOLEAN, unnoticed => unnoticed',
           (~unnoticed' /\ macKey # 0) =>
              Authenticated!Mod(Authenticated!Total(x.value)) = Authenticated!Mod(v)
    PROVE  Authenticated!AuthenticationInv'
<1> USE DEF wires, plain, macKey, unnoticed, output
<1> DEFINE p == Authenticated!Mod(v)
<1>1. /\ wires' = Append(wires, x) /\ plain' = Append(plain, p)
      /\ macKey' = macKey /\ output' = output
    BY DEF Authenticated!NewWire
<1>2. /\ wires \in Seq(Authenticated!Shared) /\ plain \in Seq(Authenticated!Field)
      /\ x \in Authenticated!Shared /\ p \in Authenticated!Field
      /\ DOMAIN plain = DOMAIN wires
    BY ModIs DEF Authenticated!AuthenticationInv, Coded
<1>3. Len(plain) = Len(wires)
    BY <1>2
<1> DEFINE n == Len(wires) + 1
<1>4. /\ wires' \in Seq(Authenticated!Shared) /\ DOMAIN wires' = 1 .. n /\ wires'[n] = x
      /\ \A i \in DOMAIN wires : wires'[i] = wires[i]
      /\ \A i \in DOMAIN wires' : i = n \/ i \in DOMAIN wires
    BY <1>1, <1>2, Appended
<1>5. /\ plain' \in Seq(Authenticated!Field) /\ DOMAIN plain' = 1 .. n /\ plain'[n] = p
      /\ \A i \in DOMAIN plain : plain'[i] = plain[i]
    <2> HIDE DEF p
    <2> QED
        BY <1>1, <1>2, <1>3, Appended
<1>6. Authenticated!Sum(x.mac) = Authenticated!Mod(macKey * Authenticated!Total(x.value))
    BY DEF Coded, Authenticated!Sum, Times
<1>7. (~unnoticed' /\ macKey # 0) => Authenticated!Sum(x.value) = p
    BY DEF Authenticated!Sum
<1> HIDE DEF n, p
<1>8. ASSUME NEW i \in DOMAIN wires'
      PROVE  /\ Authenticated!Sum(wires'[i].mac) = Authenticated!Mod(macKey * Authenticated!Total(wires'[i].value))
             /\ (~unnoticed' /\ macKey # 0) => Authenticated!Sum(wires'[i].value) = plain'[i]
    <2>1. CASE i = n
        BY <1>4, <1>5, <1>6, <1>7, <2>1
    <2>2. CASE i \in DOMAIN wires
        BY <1>2, <1>4, <1>5, <2>2 DEF Authenticated!AuthenticationInv
    <2> QED
        BY <1>4, <2>1, <2>2
<1>9. Authenticated!CheckedOutputsRight'
    BY <1>1 DEF Authenticated!AuthenticationInv, Authenticated!CheckedOutputsRight, Authenticated!NoOutput
<1>10. macKey' \in Authenticated!Field
    BY <1>1 DEF Authenticated!AuthenticationInv
<1> QED
    BY <1>1, <1>4, <1>5, <1>8, <1>9, <1>10 DEF Authenticated!AuthenticationInv

\* inputShare() corrects the shared random number to the value.
LEMMA InputShareStep ==
    ASSUME Authenticated!AuthenticationInv, NEW value \in SharedValue, NEW random \in Chance,
           NEW r \in Chance, NEW s \in Chance, Authenticated!InputShare(value, random, r, s)
    PROVE  Authenticated!AuthenticationInv'
<1> DEFINE fresh == Authenticated!AuthenticatedShare(random, r, s)
           total == Authenticated!Total(fresh.value)
           far == Authenticated!Mod(value - Authenticated!Sum(fresh.value))
           x == Authenticated!AddConstant(fresh, far)
<1>1. macKey \in Authenticated!Field /\ random \in Int /\ value \in Int
    BY SharesAssumption DEF Authenticated!AuthenticationInv, macKey
<1>2. Coded(fresh) /\ total \in Int
    BY <1>1, FreshShared, SharedTyped DEF Coded
<1> HIDE DEF fresh
<1>3. /\ Authenticated!Mod(total) \in Int
      /\ Authenticated!Mod(Authenticated!Mod(total)) = Authenticated!Mod(total)
    BY <1>2, ModIs, ModField
<1>4. far = Authenticated!Mod(Minus(value, Authenticated!Mod(total)))
    BY DEF Authenticated!Sum, Minus
<1> HIDE DEF far
<1>5. Minus(value, Authenticated!Mod(total)) \in Int /\ Minus(value, total) \in Int
    BY <1>1, <1>2, <1>3, Arithmetical
<1>6. /\ far \in Int
      /\ Authenticated!Mod(far) = Authenticated!Mod(Minus(value, Authenticated!Mod(total)))
    BY <1>4, <1>5, ModIs, ModField
<1>7. Authenticated!Mod(Minus(value, Authenticated!Mod(total))) = Authenticated!Mod(Minus(value, total))
    BY <1>1, <1>2, <1>3, ModMinus
<1>8. /\ Coded(x)
      /\ Authenticated!Mod(Authenticated!Total(x.value)) = Authenticated!Mod(Plus(total, far))
    BY <1>1, <1>2, <1>6, ShiftedShared
<1> HIDE DEF x, total
<1>9. Authenticated!Mod(Plus(total, far)) = Authenticated!Mod(Plus(total, Minus(value, total)))
    BY <1>2, <1>5, <1>6, <1>7, ModPlus
<1>10. Plus(total, Minus(value, total)) = value
    BY <1>1, <1>2 DEF Plus, Minus
<1>11. Authenticated!NewWire(x, value) /\ unnoticed' = unnoticed
    BY DEF Authenticated!InputShare, fresh, far, x, unnoticed
<1>12. unnoticed \in BOOLEAN
    BY DEF Authenticated!AuthenticationInv, unnoticed
<1> QED
    BY <1>1, <1>8, <1>9, <1>10, <1>11, <1>12, NewWireStep

\* add() and secureCompare() of what is right are right.
LEMMA SumSteps ==
    ASSUME Authenticated!AuthenticationInv, NEW i \in DOMAIN wires, NEW j \in DOMAIN wires,
           Authenticated!AddWires(i, j) \/ Authenticated!CompareWires(i, j)
    PROVE  Authenticated!AuthenticationInv'
<1> DEFINE x == wires[i]
           y == wires[j]
           a == plain[i]
           b == plain[j]
           tx == Authenticated!Total(x.value)
           ty == Authenticated!Total(y.value)
<1>1. macKey \in Authenticated!Field /\ unnoticed \in BOOLEAN /\ 0 \in Int
    BY DEF Authenticated!AuthenticationInv, macKey, unnoticed
<1>2. /\ Coded(x) /\ Coded(y) /\ tx \in Int /\ ty \in Int /\ a \in Int /\ b \in Int
      /\ (~unnoticed /\ macKey # 0) =>
            /\ Authenticated!Mod(tx) = Authenticated!Mod(a)
            /\ Authenticated!Mod(ty) = Authenticated!Mod(b)
    BY WireCoded
<1>3. /\ Authenticated!AddWires(i, j) => Authenticated!NewWire(Authenticated!Add(x, y), Plus(a, b))
      /\ Authenticated!CompareWires(i, j) => Authenticated!NewWire(Authenticated!Subtract(x, y), Minus(a, b))
      /\ unnoticed' = unnoticed
    BY DEF Authenticated!AddWires, Authenticated!CompareWires, Plus, Minus, wires, plain, unnoticed
<1> HIDE DEF x, y, a, b
<1>4. Plus(a, b) \in Int /\ Minus(a, b) \in Int
    BY <1>2, Arithmetical
<1>5. /\ Coded(Authenticated!Add(x, y)) /\ Coded(Authenticated!Subtract(x, y))
      /\ Authenticated!Mod(Authenticated!Total(Authenticated!Add(x, y).value)) = Authenticated!Mod(Plus(tx, ty))
      /\ Authenticated!Mod(Authenticated!Total(Authenticated!Subtract(x, y).value))
           = Authenticated!Mod(Minus(tx, ty))
    BY <1>1, <1>2, CombinedShared
<1> HIDE DEF tx, ty
<1>6. (~unnoticed /\ macKey # 0) =>
        /\ Authenticated!Mod(Plus(tx, ty)) = Authenticated!Mod(Plus(a, b))
        /\ Authenticated!Mod(Minus(tx, ty)) = Authenticated!Mod(Minus(a, b))
    BY <1>2, ModPlus, ModMinus
<1>7. CASE Authenticated!AddWires(i, j)
    BY <1>1, <1>3, <1>4, <1>5, <1>6, <1>7, NewWireStep
<1>8. CASE Authenticated!CompareWires(i, j)
    BY <1>1, <1>3, <1>4, <1>5, <1>6, <1>8, NewWireStep
<1> QED
    BY <1>7, <1>8

\* So are mulConstant() and addConstant().
LEMMA ConstantSteps ==
    ASSUME Authenticated!AuthenticationInv, NEW i \in DOMAIN wires, NEW c \in SharedValue,
           Authenticated!ScaleWire(i, c) \/ Authenticated!ShiftWire(i, c)
    PROVE  Authenticated!AuthenticationInv'
<1> DEFINE x == wires[i]
           a == plain[i]
           tx == Authenticated!Total(x.value)
<1>1. macKey \in Authenticated!Field /\ c \in Int /\ unnoticed \in BOOLEAN
    BY SharesAssumption DEF Authenticated!AuthenticationInv, macKey, unnoticed
<1>2. /\ Coded(x) /\ tx \in Int /\ a \in Int
      /\ (~unnoticed /\ macKey # 0) => Authenticated!Mod(tx) = Authenticated!Mod(a)
    BY WireCoded
<1>3. /\ Authenticated!ScaleWire(i, c) => Authenticated!NewWire(Authenticated!MulConstant(x, c), Times(a, c))
      /\ Authenticated!ShiftWire(i, c) => Authenticated!NewWire(Authenticated!AddConstant(x, c), Plus(a, c))
      /\ unnoticed' = unnoticed
    BY DEF Authenticated!ScaleWire, Authenticated!ShiftWire, Plus, Times, wires, plain, unnoticed
<1> HIDE DEF x, a
<1>4. Times(a, c) \in Int /\ Plus(a, c) \in Int
    BY <1>1, <1>2, Arithmetical
<1>5. /\ Coded(Authenticated!MulConstant(x, c)) /\ Coded(Authenticated!AddConstant(x, c))
      /\ Authenticated!Mod(Authenticated!Total(Authenticated!MulConstant(x, c).value))
           = Authenticated!Mod(Times(tx, c))
      /\ Authenticated!Mod(Authenticated!Total(Authenticated!AddConstant(x, c).value))
           = Authenticated!Mod(Plus(tx, c))
    BY <1>1, <1>2, CombinedShared, ShiftedShared
<1> HIDE DEF tx
<1>6. (~unnoticed /\ macKey # 0) =>
        /\ Authenticated!Mod(Times(tx, c)) = Authenticated!Mod(Times(a, c))
        /\ Authenticated!Mod(Plus(tx, c)) = Authenticated!Mod(Plus(a, c))
    BY <1>1, <1>2, ModPlus, ModTimes
<1>7. CASE Authenticated!ScaleWire(i, c)
    BY <1>1, <1>3, <1>4, <1>5, <1>6, <1>7, NewWireStep
<1>8. CASE Authenticated!ShiftWire(i, c)
    BY <1>1, <1>3, <1>4, <1>5, <1>6, <1>8, NewWireStep
<1> QED
    BY <1>7, <1>8

\* A number times a key that is not zero says what the number is.
LEMMA KeyCancels ==
    ASSUME NEW k \in Authenticated!Field, k # 0, NEW u \in Int, NEW v \in Int,
           Authenticated!Mod(Times(k, u)) = Authenticated!Mod(Times(k, v))
    PROVE  Authenticated!Mod(u) = Authenticated!Mod(v)
<1>1. k \in Int
    BY ModField
<1>2. Times(k, u) \in Int /\ Times(k, v) \in Int
    BY <1>1, Arithmetical
<1>3. Authenticated!Mod(Times(k, u) - Times(k, v)) = 0
    BY <1>2, ModZero
<1> DEFINE w == u - v
<1>4. w \in Int /\ Times(k, u) - Times(k, v) = k * w
    BY <1>1 DEF Times
<1>5. Authenticated!Mod(w) = 0
    <2> HIDE DEF w
    <2> QED
        BY <1>3, <1>4, NoZeroDivisors
<1> QED
    BY <1>5, ModZero

\* What was added on both sides.
LEMMA TermCancels ==
    ASSUME NEW u \in Int, NEW v \in Int, NEW w \in Int,
           Authenticated!Mod(Plus(u, v)) = Authenticated!Mod(Plus(u, w))
    PROVE  Authenticated!Mod(v) = Authenticated!Mod(w)
<1>1. Plus(u, v) \in Int /\ Plus(u, w) \in Int
    BY Arithmetical
<1>2. Authenticated!Mod(Minus(Plus(u, v), u)) = Authenticated!Mod(Minus(Plus(u, w), u))
    BY <1>1, ModMinus
<1>3. Minus(Plus(u, v), u) = v /\ Minus(Plus(u, w), u) = w
    BY DEF Plus, Minus
<1> QED
    BY <1>2, <1>3

\* Beaver's identity: c + d * b + e * a + d * e, of a triple and two differences.
LEMMA BeaverProduct ==
    ASSUME NEW A \in Int, NEW B \in Int, NEW C \in Int, NEW d \in Int, NEW e \in Int,
           NEW x \in Int, NEW y \in Int,
           Authenticated!Mod(C) = Authenticated!Mod(Times(A, B)),
           Authenticated!Mod(d) = Authenticated!Mod(Minus(x, A)),
           Authenticated!Mod(e) = Authenticated!Mod(Minus(y, B))
    PROVE  Authenticated!Mod(Plus(Plus(Plus(C, Times(B, d)), Times(A, e)), Times(d, e)))
             = Authenticated!Mod(Times(x, y))
<1> DEFINE u == Minus(x, A)
           w == Minus(y, B)
<1>1. /\ u \in Int /\ w \in Int /\ Authenticated!Mod(d) = Authenticated!Mod(u)
      /\ Authenticated!Mod(e) = Authenticated!Mod(w)
    BY Arithmetical
<1>2. Plus(Plus(Plus(Times(A, B), Times(B, u)), Times(A, w)), Times(u, w)) = Times(x, y)
    BY DEF Plus, Minus, Times
<1> HIDE DEF u, w
<1>3. /\ Times(A, B) \in Int /\ Times(B, d) \in Int /\ Times(A, e) \in Int /\ Times(d, e) \in Int
      /\ Times(B, u) \in Int /\ Times(A, w) \in Int /\ Times(u, w) \in Int
    BY <1>1, Arithmetical
<1>4. /\ Authenticated!Mod(Times(B, d)) = Authenticated!Mod(Times(B, u))
      /\ Authenticated!Mod(Times(A, e)) = Authenticated!Mod(Times(A, w))
      /\ Authenticated!Mod(Times(d, e)) = Authenticated!Mod(Times(u, w))
    BY <1>1, ModTimes
<1>5. /\ Plus(C, Times(B, d)) \in Int /\ Plus(Times(A, B), Times(B, u)) \in Int
      /\ Authenticated!Mod(Plus(C, Times(B, d))) = Authenticated!Mod(Plus(Times(A, B), Times(B, u)))
    <2>1. Plus(C, Times(B, d)) \in Int /\ Plus(Times(A, B), Times(B, u)) \in Int
        BY <1>3, Arithmetical
    <2>2. Authenticated!Mod(Plus(C, Times(B, d))) = Authenticated!Mod(Plus(Times(A, B), Times(B, u)))
        BY <1>3, <1>4, ModPlus
    <2> QED
        BY <2>1, <2>2
<1>6. /\ Plus(Plus(C, Times(B, d)), Times(A, e)) \in Int
      /\ Plus(Plus(Times(A, B), Times(B, u)), Times(A, w)) \in Int
      /\ Authenticated!Mod(Plus(Plus(C, Times(B, d)), Times(A, e)))
           = Authenticated!Mod(Plus(Plus(Times(A, B), Times(B, u)), Times(A, w)))
    <2> DEFINE p == Plus(C, Times(B, d))
               q == Plus(Times(A, B), Times(B, u))
    <2>0. p \in Int /\ q \in Int /\ Authenticated!Mod(p) = Authenticated!Mod(q)
        BY <1>5
    <2> HIDE DEF p, q
    <2>1. Plus(p, Times(A, e)) \in Int /\ Plus(q, Times(A, w)) \in Int
        BY <1>3, <2>0, Arithmetical
    <2>2. Authenticated!Mod(Plus(p, Times(A, e))) = Authenticated!Mod(Plus(q, Times(A, w)))
        BY <1>3, <1>4, <2>0, ModPlus
    <2> QED
        BY <2>1, <2>2 DEF p, q
<1>7. Authenticated!Mod(Plus(Plus(Plus(C, Times(B, d)), Times(A, e)), Times(d, e)))
        = Authenticated!Mod(Plus(Plus(Plus(Times(A, B), Times(B, u)), Times(A, w)), Times(u, w)))
    BY <1>3, <1>4, <1>6, ModPlus
<1> QED
    BY <1>2, <1>7

\* An opening gives what is shared, and the lie with it.
LEMMA Opened ==
    ASSUME NEW x, Coded(x), NEW lie \in Int
    PROVE  /\ Authenticated!Mod(Authenticated!Sum(x.value) + lie) \in Int
           /\ Authenticated!Mod(Authenticated!Mod(Authenticated!Sum(x.value) + lie))
                = Authenticated!Mod(Plus(Authenticated!Total(x.value), lie))
           /\ Authenticated!Mod(Authenticated!Sum(x.value) + lie)
                = Authenticated!Mod(Plus(Authenticated!Total(x.value), lie))
           /\ Authenticated!Sum(x.value) \in Int
           /\ Authenticated!Mod(Authenticated!Sum(x.value)) = Authenticated!Mod(Authenticated!Total(x.value))
<1> DEFINE total == Authenticated!Total(x.value)
           sum == Authenticated!Sum(x.value)
<1>1. total \in Int
    BY SharedTyped DEF Coded
<1>2. sum = Authenticated!Mod(total)
    BY DEF Authenticated!Sum
<1> HIDE DEF total, sum
<1>3. sum \in Int /\ Authenticated!Mod(sum) = Authenticated!Mod(total)
    BY <1>1, <1>2, ModIs, ModField
<1>4. Authenticated!Mod(Plus(sum, lie)) = Authenticated!Mod(Plus(total, lie))
    BY <1>1, <1>3, ModPlus
<1>5. Plus(sum, lie) \in Int /\ Plus(sum, lie) = sum + lie
    BY <1>3 DEF Plus
<1>6. /\ Authenticated!Mod(Plus(sum, lie)) \in Int
      /\ Authenticated!Mod(Authenticated!Mod(Plus(sum, lie))) = Authenticated!Mod(Plus(sum, lie))
    BY <1>5, ModIs, ModField
<1> QED
    BY <1>3, <1>4, <1>5, <1>6 DEF total, sum

\* multiply() is right when nobody lied, and also when the lie would have been found.
LEMMA MultiplyStep ==
    ASSUME Authenticated!AuthenticationInv, NEW i \in DOMAIN wires, NEW j \in DOMAIN wires,
           NEW a \in Chance, NEW b \in Chance, NEW r \in Chance, NEW s \in Chance, NEW lie \in Lie,
           NEW checked \in BOOLEAN, Authenticated!MultiplyWires(i, j, a, b, r, s, lie, checked)
    PROVE  Authenticated!AuthenticationInv'
<1> DEFINE triple == Authenticated!Triple(a, b, r, s)
           xi == wires[i]
           xj == wires[j]
           vi == plain[i]
           vj == plain[j]
           ab == Authenticated!Mod(a * b)
           ta == Authenticated!AuthenticatedShare(a, r, s)
           tb == Authenticated!AuthenticatedShare(b, s, r)
           tc == Authenticated!AuthenticatedShare(ab, r, s)
           x == Authenticated!Subtract(xi, ta)
           y == Authenticated!Subtract(xj, tb)
           d == Authenticated!Mod(Authenticated!Sum(x.value) + lie)
           e == Authenticated!Sum(y.value)
           de == Authenticated!Mod(d * e)
           bd == Authenticated!MulConstant(tb, d)
           ea == Authenticated!MulConstant(ta, e)
           cbd == Authenticated!Add(tc, bd)
           all == Authenticated!Add(cbd, ea)
           z == Authenticated!AddConstant(all, de)
<1>1. /\ checked => Authenticated!VerifyMAC(x.mac, d)
      /\ Authenticated!NewWire(z, vi * vj)
      /\ unnoticed' = (unnoticed \/ (lie # 0 /\ ~checked))
    BY DEF Authenticated!MultiplyWires, Authenticated!Triple, Authenticated!Product, wires, plain, unnoticed
<1>2. /\ macKey \in Authenticated!Field /\ unnoticed \in BOOLEAN
      /\ a \in Int /\ b \in Int /\ lie \in Int
    BY SharesAssumption DEF Authenticated!AuthenticationInv, macKey, unnoticed
<1>3. /\ Coded(xi) /\ Coded(xj) /\ macKey \in Int
      /\ Authenticated!Total(xi.value) \in Int /\ Authenticated!Total(xj.value) \in Int
      /\ vi \in Int /\ vj \in Int
      /\ (~unnoticed /\ macKey # 0) =>
            /\ Authenticated!Mod(Authenticated!Total(xi.value)) = Authenticated!Mod(vi)
            /\ Authenticated!Mod(Authenticated!Total(xj.value)) = Authenticated!Mod(vj)
    BY WireCoded
<1>4. Times(a, b) \in Int /\ a * b = Times(a, b)
    BY <1>2 DEF Times
<1>5. ab \in Int /\ Authenticated!Mod(ab) = Authenticated!Mod(Times(a, b))
    BY <1>4, ModIs, ModField
<1> HIDE DEF xi, xj, vi, vj, ab
<1>6. /\ Coded(ta) /\ Authenticated!Mod(Authenticated!Total(ta.value)) = Authenticated!Mod(a)
      /\ Coded(tb) /\ Authenticated!Mod(Authenticated!Total(tb.value)) = Authenticated!Mod(b)
      /\ Coded(tc) /\ Authenticated!Mod(Authenticated!Total(tc.value)) = Authenticated!Mod(Times(a, b))
    BY <1>2, <1>5, FreshShared
<1> HIDE DEF ta, tb, tc
<1>7. /\ Coded(x)
      /\ Authenticated!Mod(Authenticated!Total(x.value))
           = Authenticated!Mod(Minus(Authenticated!Total(xi.value), Authenticated!Total(ta.value)))
      /\ Coded(y)
      /\ Authenticated!Mod(Authenticated!Total(y.value))
           = Authenticated!Mod(Minus(Authenticated!Total(xj.value), Authenticated!Total(tb.value)))
    BY <1>2, <1>3, <1>6, CombinedShared
<1> HIDE DEF x, y
<1>8. /\ d \in Int /\ Authenticated!Mod(d) = Authenticated!Mod(Plus(Authenticated!Total(x.value), lie))
      /\ e \in Int /\ Authenticated!Mod(e) = Authenticated!Mod(Authenticated!Total(y.value))
    BY <1>2, <1>7, Opened
<1> HIDE DEF d, e
<1>9. /\ Times(d, e) \in Int /\ d * e = Times(d, e)
    BY <1>8 DEF Times
<1>10. de \in Int /\ Authenticated!Mod(de) = Authenticated!Mod(Times(d, e))
    BY <1>9, ModIs, ModField
<1> HIDE DEF de
<1>11. /\ Coded(bd)
       /\ Authenticated!Mod(Authenticated!Total(bd.value))
            = Authenticated!Mod(Times(Authenticated!Total(tb.value), d))
       /\ Coded(ea)
       /\ Authenticated!Mod(Authenticated!Total(ea.value))
            = Authenticated!Mod(Times(Authenticated!Total(ta.value), e))
    BY <1>2, <1>6, <1>8, CombinedShared
<1> HIDE DEF bd, ea
<1>12. /\ Coded(cbd)
       /\ Authenticated!Mod(Authenticated!Total(cbd.value))
            = Authenticated!Mod(Plus(Authenticated!Total(tc.value), Authenticated!Total(bd.value)))
    BY <1>2, <1>6, <1>8, <1>11, CombinedShared
<1> HIDE DEF cbd
<1>13. /\ Coded(all)
       /\ Authenticated!Mod(Authenticated!Total(all.value))
            = Authenticated!Mod(Plus(Authenticated!Total(cbd.value), Authenticated!Total(ea.value)))
    BY <1>2, <1>8, <1>11, <1>12, CombinedShared
<1> HIDE DEF all
<1>14. /\ Coded(z)
       /\ Authenticated!Mod(Authenticated!Total(z.value))
            = Authenticated!Mod(Plus(Authenticated!Total(all.value), de))
    BY <1>2, <1>10, <1>13, ShiftedShared
<1> HIDE DEF z
<1> DEFINE A == Authenticated!Total(ta.value)
           B == Authenticated!Total(tb.value)
           C == Authenticated!Total(tc.value)
           xt == Authenticated!Total(xi.value)
           yt == Authenticated!Total(xj.value)
           M1 == Authenticated!Total(bd.value)
           M2 == Authenticated!Total(ea.value)
           S1 == Authenticated!Total(cbd.value)
           S2 == Authenticated!Total(all.value)
<1>15. /\ A \in Int /\ B \in Int /\ C \in Int /\ xt \in Int /\ yt \in Int
       /\ M1 \in Int /\ M2 \in Int /\ S1 \in Int /\ S2 \in Int
    BY <1>3, <1>6, <1>11, <1>12, <1>13, SharedTyped DEF Coded
<1>16. /\ Authenticated!Mod(A) = Authenticated!Mod(a) /\ Authenticated!Mod(B) = Authenticated!Mod(b)
       /\ Authenticated!Mod(C) = Authenticated!Mod(Times(a, b))
       /\ Authenticated!Mod(e) = Authenticated!Mod(Minus(yt, B))
       /\ Authenticated!Mod(M1) = Authenticated!Mod(Times(B, d))
       /\ Authenticated!Mod(M2) = Authenticated!Mod(Times(A, e))
       /\ Authenticated!Mod(S1) = Authenticated!Mod(Plus(C, M1))
       /\ Authenticated!Mod(S2) = Authenticated!Mod(Plus(S1, M2))
    BY <1>6, <1>7, <1>8, <1>11, <1>12, <1>13
<1>17. Authenticated!Mod(Authenticated!Total(z.value)) = Authenticated!Mod(Plus(S2, de))
    BY <1>14
<1>18. ASSUME ~unnoticed', macKey # 0
       PROVE  Authenticated!Mod(d) = Authenticated!Mod(Minus(xt, A))
    <2>1. Authenticated!Total(x.value) \in Int /\ x.mac \in [Authenticated!Party -> Int]
        BY <1>7, SharedTyped DEF Coded
    <2>2. CASE lie = 0
        <3>1. Plus(Authenticated!Total(x.value), lie) = Authenticated!Total(x.value)
            BY <2>1, <2>2 DEF Plus
        <3> QED
            BY <1>7, <1>8, <3>1
    <2>3. CASE checked
        <3>1. Authenticated!Mod(Authenticated!Total(x.mac)) = Authenticated!Mod(Times(macKey, d))
            BY <1>1, <1>2, <1>8, <2>1, <2>3, VerifiedCodes
        <3>2. Authenticated!Mod(Authenticated!Total(x.mac))
                = Authenticated!Mod(Times(macKey, Authenticated!Total(x.value)))
            BY <1>7 DEF Coded
        <3>3. Authenticated!Mod(d) = Authenticated!Mod(Authenticated!Total(x.value))
            BY <1>2, <1>8, <1>18, <2>1, <3>1, <3>2, KeyCancels
        <3> QED
            BY <1>7, <3>3
    <2> QED
        BY <1>1, <1>18, <2>2, <2>3
<1> HIDE DEF A, B, C, xt, yt, M1, M2, S1, S2
<1>19. Authenticated!Mod(C) = Authenticated!Mod(Times(A, B))
    BY <1>2, <1>15, <1>16, ModTimes
<1>20. /\ Times(B, d) \in Int /\ Times(A, e) \in Int
       /\ Authenticated!Mod(Plus(C, M1)) = Authenticated!Mod(Plus(C, Times(B, d)))
       /\ Plus(C, Times(B, d)) \in Int
    <2>1. Times(B, d) \in Int /\ Times(A, e) \in Int
        BY <1>8, <1>15, Arithmetical
    <2>2. Plus(C, Times(B, d)) \in Int
        BY <1>15, <2>1, Arithmetical
    <2>3. Authenticated!Mod(Plus(C, M1)) = Authenticated!Mod(Plus(C, Times(B, d)))
        BY <1>15, <1>16, <2>1, ModPlus
    <2> QED
        BY <2>1, <2>2, <2>3
<1>21. /\ Authenticated!Mod(Plus(S1, M2)) = Authenticated!Mod(Plus(Plus(C, Times(B, d)), Times(A, e)))
       /\ Plus(Plus(C, Times(B, d)), Times(A, e)) \in Int
    <2>1. Plus(Plus(C, Times(B, d)), Times(A, e)) \in Int
        BY <1>20, Arithmetical
    <2>2. Authenticated!Mod(S1) = Authenticated!Mod(Plus(C, Times(B, d)))
        BY <1>16, <1>20
    <2>3. Authenticated!Mod(M2) = Authenticated!Mod(Times(A, e))
        BY <1>16
    <2>4. Authenticated!Mod(Plus(S1, M2)) = Authenticated!Mod(Plus(Plus(C, Times(B, d)), Times(A, e)))
        BY <1>15, <1>20, <2>2, <2>3, ModPlus
    <2> QED
        BY <2>1, <2>4
<1>22. Authenticated!Mod(Plus(S2, de))
         = Authenticated!Mod(Plus(Plus(Plus(C, Times(B, d)), Times(A, e)), Times(d, e)))
    BY <1>9, <1>10, <1>15, <1>16, <1>21, ModPlus
<1>23. ASSUME ~unnoticed', macKey # 0
       PROVE  Authenticated!Mod(Authenticated!Total(z.value)) = Authenticated!Mod(Times(vi, vj))
    <2>1. Authenticated!Mod(Plus(Plus(Plus(C, Times(B, d)), Times(A, e)), Times(d, e)))
            = Authenticated!Mod(Times(xt, yt))
        BY <1>8, <1>15, <1>16, <1>18, <1>19, <1>23, BeaverProduct
    <2>2. Authenticated!Mod(xt) = Authenticated!Mod(vi) /\ Authenticated!Mod(yt) = Authenticated!Mod(vj)
        BY <1>1, <1>3, <1>23 DEF xt, yt
    <2>3. Authenticated!Mod(Times(xt, yt)) = Authenticated!Mod(Times(vi, vj))
        BY <1>3, <1>15, <2>2, ModTimes
    <2> QED
        BY <1>17, <1>22, <2>1, <2>3
<1>24. Times(vi, vj) \in Int /\ vi * vj = Times(vi, vj)
    BY <1>3 DEF Times
<1>25. unnoticed' \in BOOLEAN /\ (unnoticed => unnoticed') /\ Authenticated!NewWire(z, Times(vi, vj))
    BY <1>1, <1>2, <1>24
<1> QED
    BY <1>14, <1>23, <1>24, <1>25, NewWireStep

\* What is reconstructed passes its check when nobody lied, and when it passes it is right
\* or the liar guessed the key.
LEMMA OutputStep ==
    ASSUME Authenticated!AuthenticationInv, NEW i \in DOMAIN wires, NEW lie \in Lie, NEW macLie \in Lie,
           Authenticated!OutputReconstruct(i, lie, macLie)
    PROVE  Authenticated!AuthenticationInv'
<1> DEFINE x == wires[i]
           value == Authenticated!Mod(Authenticated!Sum(x.value) + lie)
           mac == [x.mac EXCEPT ![1] = Authenticated!Mod(@ + macLie)]
           V == Authenticated!Total(x.value)
           W == Authenticated!Total(x.mac)
           valid == Authenticated!VerifyMAC(mac, value)
           guessed == lie # 0 /\ macLie = Authenticated!Mod(macKey * lie)
           honest == lie = 0 /\ macLie = 0
           right == plain[i]
<1>1. /\ output' = [value |-> value, valid |-> valid, right |-> right, guessed |-> guessed, honest |-> honest]
      /\ UNCHANGED <<macKey, wires, plain, unnoticed>>
    BY DEF Authenticated!OutputReconstruct, macKey, wires, plain, unnoticed, output
<1>2. /\ macKey \in Authenticated!Field /\ macKey \in Int /\ lie \in Int /\ macLie \in Int
      /\ Authenticated!Mod(macLie) = macLie /\ 1 \in Authenticated!Party
    <2>1. macLie \in Authenticated!Field /\ lie \in Authenticated!Field
        BY SharesAssumption DEF Authenticated!Field
    <2>2. macKey \in Authenticated!Field
        BY DEF Authenticated!AuthenticationInv, macKey
    <2> QED
        BY <2>1, <2>2, ModField, SharesAssumption DEF Authenticated!Party
<1>3. /\ Coded(x) /\ V \in Int /\ right \in Int /\ Authenticated!Mod(right) = right
      /\ (~unnoticed /\ macKey # 0) => Authenticated!Mod(V) = Authenticated!Mod(right)
    BY WireCoded
<1> HIDE DEF x, right
<1>4. /\ value \in Int /\ Authenticated!Mod(value) = Authenticated!Mod(Plus(V, lie))
      /\ value = Authenticated!Mod(Plus(V, lie))
    BY <1>2, <1>3, Opened
<1> HIDE DEF value
<1>5. /\ x.mac \in [Authenticated!Party -> Int] /\ W \in Int
      /\ Authenticated!Mod(W) = Authenticated!Mod(Times(macKey, V))
    BY <1>3, SharedTyped DEF Coded
<1>6. /\ mac \in [Authenticated!Party -> Int] /\ Authenticated!Total(mac) \in Int
      /\ Authenticated!Mod(Authenticated!Total(mac)) = Authenticated!Mod(Plus(W, macLie))
    <2>1. x.mac[1] + macLie \in Int
        BY <1>2, <1>5
    <2>2. /\ Authenticated!Mod(x.mac[1] + macLie) \in Int
          /\ Authenticated!Mod(Authenticated!Mod(x.mac[1] + macLie)) = Authenticated!Mod(x.mac[1] + macLie)
        BY <2>1, ModIs, ModField
    <2>3. /\ mac \in [Authenticated!Party -> Int]
          /\ mac[1] = Authenticated!Mod(x.mac[1] + macLie)
          /\ \A p \in Authenticated!Party : p # 1 => mac[p] = x.mac[p]
        BY <1>2, <1>5, <2>2
    <2> HIDE DEF mac
    <2>4. Authenticated!Total(mac) \in Int
        BY <2>3, TotalAdds
    <2>5. Authenticated!Mod(mac[1]) = Authenticated!Mod(x.mac[1] + macLie)
        BY <2>2, <2>3
    <2>6. Authenticated!Mod(Authenticated!Total(mac)) = Authenticated!Mod(Authenticated!Total(x.mac) + macLie)
        BY <1>2, <1>5, <2>3, <2>5, TotalOfFirst
    <2> QED
        BY <2>3, <2>4, <2>6 DEF Plus
<1> HIDE DEF mac
<1>7. valid <=> Authenticated!Mod(Authenticated!Total(mac)) = Authenticated!Mod(Times(macKey, value))
    BY <1>2, <1>4, <1>6, VerifiedCodes
<1> HIDE DEF valid, V, W
<1>8. /\ Times(macKey, V) \in Int /\ Times(macKey, lie) \in Int /\ Plus(V, lie) \in Int
      /\ Plus(Times(macKey, V), Times(macKey, lie)) = Times(macKey, Plus(V, lie))
    BY <1>2, <1>3 DEF Plus, Times
<1>9. Authenticated!Mod(Times(macKey, value)) = Authenticated!Mod(Times(macKey, Plus(V, lie)))
    BY <1>2, <1>4, <1>8, ModTimes
<1>10. Authenticated!Mod(Plus(W, macLie)) = Authenticated!Mod(Plus(Times(macKey, V), macLie))
    BY <1>2, <1>5, <1>8, ModPlus
<1>11. valid <=> Authenticated!Mod(Plus(Times(macKey, V), macLie))
                   = Authenticated!Mod(Plus(Times(macKey, V), Times(macKey, lie)))
    BY <1>6, <1>7, <1>8, <1>9, <1>10
<1>12. ASSUME honest PROVE valid
    <2>1. Times(macKey, lie) = macLie
        BY <1>2, <1>12 DEF Times
    <2> QED
        BY <1>11, <2>1
<1>13. ASSUME valid, ~unnoticed, macKey # 0 PROVE value = right \/ guessed
    <2>1. Authenticated!Mod(macLie) = Authenticated!Mod(Times(macKey, lie))
        BY <1>2, <1>8, <1>11, <1>13, TermCancels
    <2>2. CASE lie = 0
        <3>1. Plus(V, lie) = V
            BY <1>3, <2>2 DEF Plus, V
        <3> QED
            BY <1>3, <1>4, <1>13, <3>1 DEF V
    <2>3. CASE lie # 0
        <3>1. macLie = Authenticated!Mod(macKey * lie)
            BY <1>2, <2>1 DEF Times
        <3> QED
            BY <2>3, <3>1
    <2> QED
        BY <2>2, <2>3
<1> HIDE DEF guessed, honest
<1>14. Authenticated!CheckedOutputsRight'
    BY <1>1, <1>12, <1>13 DEF Authenticated!CheckedOutputsRight, Authenticated!NoOutput, output, macKey, unnoticed
<1> QED
    BY <1>1, <1>14 DEF Authenticated!AuthenticationInv, macKey, wires, plain, unnoticed

\* The invariant of shared values.
LEMMA AuthenticationInductive ==
    /\ Authenticated!Init => Authenticated!AuthenticationInv
    /\ Authenticated!AuthenticationInv /\ [Authenticated!Next]_(Authenticated!vars)
         => Authenticated!AuthenticationInv'
<1>1. ASSUME Authenticated!Init PROVE Authenticated!AuthenticationInv
    <2>1. /\ slot1 \in Authenticated!Field /\ slot4 = FALSE
          /\ slot2 = << >> /\ slot3 = << >> /\ slot5 = Authenticated!NoOutput
        BY <1>1 DEF Authenticated!Init
    <2>2. slot2 \in Seq(Authenticated!Shared) /\ slot3 \in Seq(Authenticated!Field)
        BY <2>1
    <2>3. DOMAIN slot2 = {} /\ DOMAIN slot3 = {}
        BY <2>1
    <2>4. Authenticated!CheckedOutputsRight
        BY <2>1 DEF Authenticated!CheckedOutputsRight
    <2> QED
        BY <2>1, <2>2, <2>3, <2>4 DEF Authenticated!AuthenticationInv
<1>2. ASSUME Authenticated!AuthenticationInv, UNCHANGED Authenticated!vars
      PROVE  Authenticated!AuthenticationInv'
    <2>1. UNCHANGED <<slot1, slot2, slot3, slot4, slot5>>
        BY <1>2 DEF Authenticated!vars
    <2>2. Authenticated!CheckedOutputsRight'
        BY <1>2, <2>1
        DEF Authenticated!AuthenticationInv, Authenticated!CheckedOutputsRight, Authenticated!NoOutput
    <2> QED
        BY <1>2, <2>1, <2>2 DEF Authenticated!AuthenticationInv
<1>3. ASSUME Authenticated!AuthenticationInv, Authenticated!Next PROVE Authenticated!AuthenticationInv'
    <2>1. ASSUME NEW value \in SharedValue, NEW random \in Chance, NEW r \in Chance, NEW s \in Chance,
                 Authenticated!InputShare(value, random, r, s)
          PROVE  Authenticated!AuthenticationInv'
        BY <1>3, <2>1, InputShareStep
    <2>2. ASSUME NEW i \in DOMAIN wires, NEW j \in DOMAIN wires,
                 Authenticated!AddWires(i, j) \/ Authenticated!CompareWires(i, j)
          PROVE  Authenticated!AuthenticationInv'
        BY <1>3, <2>2, SumSteps
    <2>3. ASSUME NEW i \in DOMAIN wires, NEW c \in SharedValue,
                 Authenticated!ScaleWire(i, c) \/ Authenticated!ShiftWire(i, c)
          PROVE  Authenticated!AuthenticationInv'
        BY <1>3, <2>3, ConstantSteps
    <2>4. ASSUME NEW i \in DOMAIN wires, NEW j \in DOMAIN wires,
                 NEW a \in Chance, NEW b \in Chance, NEW r \in Chance, NEW s \in Chance, NEW lie \in Lie,
                 NEW checked \in BOOLEAN, Authenticated!MultiplyWires(i, j, a, b, r, s, lie, checked)
          PROVE  Authenticated!AuthenticationInv'
        BY <1>3, <2>4, MultiplyStep
    <2>5. ASSUME NEW i \in DOMAIN wires, NEW lie \in Lie, NEW macLie \in Lie,
                 Authenticated!OutputReconstruct(i, lie, macLie)
          PROVE  Authenticated!AuthenticationInv'
        BY <1>3, <2>5, OutputStep
    <2> QED
        BY <1>3, <2>1, <2>2, <2>3, <2>4, <2>5 DEF Authenticated!Next, wires
<1> QED
    BY <1>1, <1>2, <1>3

-----------------------------------------------------------------------------
(* GarbledCircuit.                                                         *)

\* What Append() does to a sequence, element by element.
LEMMA Extended ==
    ASSUME NEW S, NEW U, NEW s \in Seq(S), NEW x, S \subseteq U, x \in U
    PROVE  /\ Append(s, x) \in Seq(U)
           /\ Len(Append(s, x)) = Len(s) + 1
           /\ \A n \in 1 .. Len(s) + 1 : Append(s, x)[n] = IF n = Len(s) + 1 THEN x ELSE s[n]
           /\ DOMAIN Append(s, x) = 1 .. Len(s) + 1
<1>1. s \in Seq(U)
    OBVIOUS
<1> QED
    BY <1>1

\* A sequence is the function of its places.
LEMMA SequenceIs ==
    ASSUME NEW U, NEW t \in Seq(U)
    PROVE  t = [n \in 1 .. Len(t) |-> t[n]]
OBVIOUS

\* What a gate computes of bits is a bit.
LEMMA OpOfBits ==
    \A a, b \in {0, 1} : \A type \in {"AND", "OR", "XOR", "NOT"} : Garbled!Op(type, a, b) \in {0, 1}
BY DEF Garbled!Op

\* The last bit of a label, and that it tells the two labels of a wire apart.
LEMMA PermuteBits ==
    ASSUME NEW w, slot1[w] \in {0, 1}
    PROVE  /\ \A a \in {0, 1} : Garbled!PermuteBit(Garbled!Label(w, a)) \in {0, 1}
           /\ \A a, b \in {0, 1} :
                Garbled!PermuteBit(Garbled!Label(w, a)) = Garbled!PermuteBit(Garbled!Label(w, b))
                    => a = b
BY DEF Garbled!PermuteBit, Garbled!Label

\* The table of a gate has the right label where two labels look.
LEMMA TableRight ==
    ASSUME NEW type \in {"AND", "OR", "XOR", "NOT"}, NEW w0, NEW w1, NEW out,
           slot1[w0] \in {0, 1}, slot1[w1] \in {0, 1}, type = "NOT" => w0 = w1,
           NEW a \in {0, 1}, NEW b \in {0, 1}, type = "NOT" => a = b
    PROVE  Garbled!Table(type, w0, w1, out)[Garbled!Row(type, Garbled!Label(w0, a), Garbled!Label(w1, b))]
               = Garbled!EncryptLabel(Garbled!Label(w0, a), Garbled!Label(w1, b),
                                      Garbled!Label(out, Garbled!Op(type, a, b)))
<1> DEFINE entries == {<<Garbled!Label(w0, x), Garbled!Label(w1, y)>> :
                          x \in Garbled!Bit, y \in Garbled!Bit}
           used == IF type = "NOT" THEN {e \in entries : e[1] = e[2]} ELSE entries
           row(e) == Garbled!Row(type, e[1], e[2])
           here == <<Garbled!Label(w0, a), Garbled!Label(w1, b)>>
           sealed(e) == Garbled!EncryptLabel(e[1], e[2],
                          Garbled!Label(out, Garbled!Op(type, e[1].value, e[2].value)))
           found == CHOOSE e \in used : row(e) = row(here)
<1>1. here \in used
    <2>1. here \in entries
        BY DEF Garbled!Bit
    <2>2. type = "NOT" => here[1] = here[2]
        OBVIOUS
    <2> QED
        BY <2>1, <2>2
<1>2. Garbled!Table(type, w0, w1, out)
          = [r \in {row(e) : e \in used} |->
                LET e == CHOOSE e \in used : row(e) = r IN sealed(e)]
    BY DEF Garbled!Table
<1>3. Garbled!Table(type, w0, w1, out)[row(here)] = sealed(found)
    <2> HIDE DEF used, row, sealed, here
    <2> QED
        BY <1>1, <1>2
<1>4. found \in used /\ row(found) = row(here)
    <2> HIDE DEF used, row, here
    <2> QED
        BY <1>1
<1>5. \A e \in used : \E x, y \in {0, 1} :
          e = <<Garbled!Label(w0, x), Garbled!Label(w1, y)>> /\ (type = "NOT" => e[1] = e[2])
    BY DEF Garbled!Bit
<1> HIDE DEF found, used
<1>6. PICK x \in {0, 1}, y \in {0, 1} :
          /\ found = <<Garbled!Label(w0, x), Garbled!Label(w1, y)>>
          /\ type = "NOT" => found[1] = found[2]
    BY <1>4, <1>5
<1>7. type = "NOT" => x = y
    BY <1>6 DEF Garbled!Label
<1>8. Garbled!Row(type, Garbled!Label(w0, x), Garbled!Label(w1, y))
          = Garbled!Row(type, Garbled!Label(w0, a), Garbled!Label(w1, b))
    BY <1>4, <1>6
<1>9. x = a /\ y = b
    <2>1. CASE type = "NOT"
        <3>1. Garbled!PermuteBit(Garbled!Label(w0, x)) = Garbled!PermuteBit(Garbled!Label(w0, a))
            BY <1>8, <2>1 DEF Garbled!Row
        <3> QED
            BY <1>7, <2>1, <3>1, PermuteBits
    <2>2. CASE type # "NOT"
        <3> DEFINE p(w, v) == Garbled!PermuteBit(Garbled!Label(w, v))
        <3>1. 2 * p(w0, x) + p(w1, y) = 2 * p(w0, a) + p(w1, b)
            BY <1>8, <2>2 DEF Garbled!Row
        <3>2. /\ p(w0, x) \in {0, 1} /\ p(w1, y) \in {0, 1}
              /\ p(w0, a) \in {0, 1} /\ p(w1, b) \in {0, 1}
            BY PermuteBits
        <3> HIDE DEF p
        <3>3. p(w0, x) = p(w0, a) /\ p(w1, y) = p(w1, b)
            BY <3>1, <3>2
        <3> QED
            BY <3>3, PermuteBits DEF p
    <2> QED
        BY <2>1, <2>2
<1>10. found = here
    BY <1>6, <1>9
<1>11. sealed(here) = Garbled!EncryptLabel(Garbled!Label(w0, a), Garbled!Label(w1, b),
                                         Garbled!Label(out, Garbled!Op(type, a, b)))
    BY DEF Garbled!Label
<1> QED
    BY <1>3, <1>10, <1>11

\* A gate stays right when wires are added.
LEMMA GateStaysRight ==
    ASSUME NEW n, Garbled!GateRight(n), slot3'[n] = slot3[n], slot2' = slot2,
           \A w \in 1 .. slot3[n].out - 1 : slot1'[w] = slot1[w]
    PROVE  Garbled!GateRight(n)'
<1> DEFINE g == slot3[n]
<1>1. /\ g.type \in {"AND", "OR", "XOR", "NOT"} /\ g.out = slot2 + n
      /\ g.in0 \in 1 .. g.out - 1 /\ g.in1 \in 1 .. g.out - 1
      /\ g.type = "NOT" => g.in0 = g.in1
    BY DEF Garbled!GateRight
<1>2. \A a, b : Garbled!Row(g.type, Garbled!Label(g.in0, a), Garbled!Label(g.in1, b))'
                    = Garbled!Row(g.type, Garbled!Label(g.in0, a), Garbled!Label(g.in1, b))
    BY <1>1 DEF Garbled!Row, Garbled!PermuteBit, Garbled!Label
<1>3. \A a, b \in Garbled!Bit :
          (g.type = "NOT" => a = b) =>
              g.table[Garbled!Row(g.type, Garbled!Label(g.in0, a), Garbled!Label(g.in1, b))]
                  = Garbled!EncryptLabel(Garbled!Label(g.in0, a), Garbled!Label(g.in1, b),
                                         Garbled!Label(g.out, Garbled!Op(g.type, a, b)))
    BY DEF Garbled!GateRight
<1> QED
    BY <1>1, <1>2, <1>3 DEF Garbled!GateRight

\* Wires and gates are sealed one after another.
LEMMA GarblingInductive ==
    /\ Garbled!Init => Garbled!GarblingInv
    /\ Garbled!GarblingInv /\ [Garbled!Next]_(Garbled!vars) => Garbled!GarblingInv'
<1>1. ASSUME Garbled!Init PROVE Garbled!GarblingInv
    <2>1. slot1 = << >> /\ slot2 = 0 /\ slot3 = << >>
        BY <1>1 DEF Garbled!Init
    <2>2. slot1 \in Seq(Garbled!Bit) /\ Len(slot1) = 0 /\ Len(slot3) = 0 /\ DOMAIN slot3 = {}
        BY <2>1
    <2>3. slot3 \in Seq({slot3[n] : n \in DOMAIN slot3})
        BY <2>1
    <2> QED
        BY <2>1, <2>2, <2>3 DEF Garbled!GarblingInv
<1>2. ASSUME Garbled!GarblingInv, UNCHANGED Garbled!vars PROVE Garbled!GarblingInv'
    <2>1. slot1' = slot1 /\ slot2' = slot2 /\ slot3' = slot3
        BY <1>2 DEF Garbled!vars
    <2>2. \A n \in DOMAIN slot3 : Garbled!GateRight(n)'
        BY <1>2, <2>1, GateStaysRight DEF Garbled!GarblingInv
    <2> QED
        BY <1>2, <2>1, <2>2 DEF Garbled!GarblingInv
<1>3. ASSUME Garbled!GarblingInv, Garbled!NewInput PROVE Garbled!GarblingInv'
    <2>1. PICK p \in Garbled!Bit : slot1' = Append(slot1, p)
        BY <1>3 DEF Garbled!NewInput
    <2>2. slot2' = slot2 + 1 /\ slot3' = << >> /\ slot3 = << >>
        BY <1>3 DEF Garbled!NewInput
    <2>3. slot1' \in Seq(Garbled!Bit) /\ Len(slot1') = Len(slot1) + 1
        <3>1. slot1 \in Seq(Garbled!Bit)
            BY <1>3 DEF Garbled!GarblingInv
        <3> QED
            BY <2>1, <3>1
    <2>4. Len(slot3) = 0 /\ Len(slot3') = 0 /\ DOMAIN slot3' = {}
        BY <2>2
    <2>5. slot3' \in Seq({slot3'[n] : n \in DOMAIN slot3'})
        BY <2>2
    <2>6. Len(slot1') = slot2' + Len(slot3') /\ slot2' \in Nat
        BY <1>3, <2>2, <2>3, <2>4 DEF Garbled!GarblingInv
    <2> QED
        BY <2>3, <2>4, <2>5, <2>6 DEF Garbled!GarblingInv
<1>4. ASSUME NEW type \in {"AND", "OR", "XOR", "NOT"}, NEW w0 \in Garbled!Wire, NEW w1 \in Garbled!Wire,
             Garbled!GarblingInv, Garbled!AddGate(type, w0, w1)
      PROVE  Garbled!GarblingInv'
    <2> DEFINE out == Len(slot1) + 1
               gate == [type |-> type, in0 |-> w0, in1 |-> w1, out |-> out,
                        table |-> Garbled!Table(type, w0, w1, out)]
               old == {slot3[n] : n \in DOMAIN slot3}
    <2>1. PICK p \in Garbled!Bit : slot1' = Append(slot1, p)
        BY <1>4 DEF Garbled!AddGate
    <2>2. slot2' = slot2 /\ slot3' = Append(slot3, gate) /\ (type = "NOT" => w0 = w1)
        BY <1>4 DEF Garbled!AddGate
    <2>3. /\ slot1 \in Seq(Garbled!Bit) /\ slot2 \in Nat /\ slot3 \in Seq(old)
          /\ Len(slot1) = slot2 + Len(slot3) /\ Len(slot1) \in Nat /\ Len(slot3) \in Nat
          /\ DOMAIN slot3 = 1 .. Len(slot3) /\ Garbled!Wire = 1 .. Len(slot1)
        BY <1>4 DEF Garbled!GarblingInv, Garbled!Wire
    <2>4. /\ slot1' \in Seq(Garbled!Bit) /\ Len(slot1') = Len(slot1) + 1
          /\ \A w \in 1 .. Len(slot1) : slot1'[w] = slot1[w]
        <3>1. \A w \in 1 .. Len(slot1) : w \in 1 .. Len(slot1) + 1 /\ w # Len(slot1) + 1
            BY <2>3
        <3>2. slot1 \in Seq(Garbled!Bit)
            BY <2>3
        <3>3. /\ Append(slot1, p) \in Seq(Garbled!Bit) /\ Len(Append(slot1, p)) = Len(slot1) + 1
              /\ \A i \in 1 .. Len(slot1) + 1 :
                   Append(slot1, p)[i] = IF i = Len(slot1) + 1 THEN p ELSE slot1[i]
            BY <3>2, Extended
        <3> QED
            BY <2>1, <3>1, <3>3
    <2> HIDE DEF gate, old
    <2>5. /\ slot3' \in Seq(old \cup {gate}) /\ Len(slot3') = Len(slot3) + 1
          /\ \A n \in 1 .. Len(slot3) + 1 :
               slot3'[n] = IF n = Len(slot3) + 1 THEN gate ELSE slot3[n]
          /\ DOMAIN slot3' = 1 .. Len(slot3) + 1
        BY <2>2, <2>3, Extended
    <2>6. slot3' \in Seq({slot3'[n] : n \in DOMAIN slot3'})
        BY <2>5
    <2>7. ASSUME NEW n \in 1 .. Len(slot3) PROVE Garbled!GateRight(n)'
        <3>1. Garbled!GateRight(n)
            BY <1>4, <2>3 DEF Garbled!GarblingInv
        <3>2. n \in 1 .. Len(slot3) + 1 /\ n # Len(slot3) + 1
            BY <2>3
        <3>3. slot3'[n] = slot3[n]
            BY <2>5, <3>2
        <3>4. slot3[n].out - 1 \in Nat /\ slot3[n].out - 1 <= Len(slot1)
            BY <2>3, <3>1 DEF Garbled!GateRight
        <3>5. \A w \in 1 .. slot3[n].out - 1 : slot1'[w] = slot1[w]
            BY <2>3, <2>4, <3>4
        <3> QED
            BY <2>2, <3>1, <3>3, <3>5, GateStaysRight
    <2>8. ASSUME NEW n, n = Len(slot3) + 1 PROVE Garbled!GateRight(n)'
        <3>1. n \in 1 .. Len(slot3) + 1
            BY <2>3, <2>8
        <3>2. slot3'[n] = gate
            BY <2>5, <2>8, <3>1
        <3>3. /\ gate.type = type /\ gate.in0 = w0 /\ gate.in1 = w1 /\ gate.out = out
              /\ gate.table = Garbled!Table(type, w0, w1, out)
            BY DEF gate
        <3>4. out = slot2' + n /\ w0 \in 1 .. out - 1 /\ w1 \in 1 .. out - 1
            BY <2>2, <2>3, <2>8
        <3>5. slot1'[w0] = slot1[w0] /\ slot1'[w1] = slot1[w1] /\ slot1[w0] \in {0, 1} /\ slot1[w1] \in {0, 1}
            BY <2>3, <2>4 DEF Garbled!Bit
        <3>6. \A a, b : Garbled!Row(type, Garbled!Label(w0, a), Garbled!Label(w1, b))'
                            = Garbled!Row(type, Garbled!Label(w0, a), Garbled!Label(w1, b))
            BY <3>5 DEF Garbled!Row, Garbled!PermuteBit, Garbled!Label
        <3>7. \A a, b \in Garbled!Bit :
                  (type = "NOT" => a = b) =>
                      Garbled!Table(type, w0, w1, out)
                          [Garbled!Row(type, Garbled!Label(w0, a), Garbled!Label(w1, b))']
                          = Garbled!EncryptLabel(Garbled!Label(w0, a), Garbled!Label(w1, b),
                                                 Garbled!Label(out, Garbled!Op(type, a, b)))
            BY <2>2, <3>5, <3>6, TableRight DEF Garbled!Bit
        <3> QED
            BY <2>2, <3>2, <3>3, <3>4, <3>7 DEF Garbled!GateRight
    <2>9. \A n \in DOMAIN slot3' : Garbled!GateRight(n)'
        <3>1. \A n \in DOMAIN slot3' : n \in 1 .. Len(slot3) \/ n = Len(slot3) + 1
            BY <2>3, <2>5
        <3> QED
            BY <2>7, <2>8, <3>1
    <2>10. Len(slot1') = slot2' + Len(slot3') /\ slot2' \in Nat
        BY <2>2, <2>3, <2>4, <2>5
    <2> QED
        BY <2>4, <2>6, <2>9, <2>10 DEF Garbled!GarblingInv
<1> QED
    BY <1>1, <1>2, <1>3, <1>4 DEF Garbled!Next

\* From labels that stand for bits a gate gets the label that stands for its result.
LEMMA GateEvaluates ==
    ASSUME Garbled!GarblingInv, NEW n \in 1 .. Len(slot3), NEW v \in Seq({0, 1}), Len(v) = slot2 + n - 1
    PROVE  LET g == slot3[n]
               l0 == Garbled!Label(g.in0, v[g.in0])
               l1 == Garbled!Label(g.in1, v[g.in1])
           IN  /\ g.in0 \in 1 .. Len(v) /\ g.in1 \in 1 .. Len(v)
               /\ Garbled!Op(g.type, v[g.in0], v[g.in1]) \in {0, 1}
               /\ Garbled!DecryptLabel(l0, l1, g.table[Garbled!RowSeen(g.type, l0, l1)])
                      = Garbled!Label(slot2 + n, Garbled!Op(g.type, v[g.in0], v[g.in1]))
<1> DEFINE g == slot3[n]
           a == v[g.in0]
           b == v[g.in1]
           l0 == Garbled!Label(g.in0, a)
           l1 == Garbled!Label(g.in1, b)
           result == Garbled!Label(slot2 + n, Garbled!Op(g.type, a, b))
<1>1. Garbled!GateRight(n) /\ slot2 \in Nat /\ Len(slot3) \in Nat
    BY DEF Garbled!GarblingInv
<1>2. /\ g.type \in {"AND", "OR", "XOR", "NOT"} /\ g.out = slot2 + n
      /\ g.in0 \in 1 .. g.out - 1 /\ g.in1 \in 1 .. g.out - 1
      /\ g.type = "NOT" => g.in0 = g.in1
    BY <1>1 DEF Garbled!GateRight
<1>3. g.in0 \in 1 .. Len(v) /\ g.in1 \in 1 .. Len(v)
    BY <1>1, <1>2
<1>4. a \in {0, 1} /\ b \in {0, 1} /\ (g.type = "NOT" => a = b)
    BY <1>2, <1>3
<1>5. g.table[Garbled!Row(g.type, l0, l1)] = Garbled!EncryptLabel(l0, l1, result)
    BY <1>1, <1>2, <1>4 DEF Garbled!GateRight, Garbled!Bit
<1>6. Garbled!RowSeen(g.type, l0, l1) = Garbled!Row(g.type, l0, l1)
    BY DEF Garbled!RowSeen, Garbled!Row
<1>7. Garbled!DecryptLabel(l0, l1, Garbled!EncryptLabel(l0, l1, result)) = result
    BY DEF Garbled!DecryptLabel, Garbled!EncryptLabel
<1>8. Garbled!Op(g.type, a, b) \in {0, 1}
    BY <1>2, <1>4, OpOfBits
<1> QED
    BY <1>3, <1>5, <1>6, <1>7, <1>8

\* The evaluation in the clear, wire by wire.
LEMMA PlainBits ==
    ASSUME Garbled!GarblingInv, NEW bits \in [1 .. slot2 -> Garbled!Bit]
    PROVE  \E u : /\ u[0] = bits
                  /\ \A n \in 1 .. Len(slot3) :
                       u[n] = Append(u[n - 1], Garbled!Op(slot3[n].type, u[n - 1][slot3[n].in0],
                                                          u[n - 1][slot3[n].in1]))
                  /\ \A n \in 0 .. Len(slot3) : u[n] \in Seq({0, 1}) /\ Len(u[n]) = slot2 + n
                  /\ Garbled!Plain(bits) = u[Len(slot3)]
<1> DEFINE M == Len(slot3)
           after(n, known) == Append(known, Garbled!Op(slot3[n].type, known[slot3[n].in0],
                                                       known[slot3[n].in1]))
           Body(m, u) == [n \in 0 .. m |-> IF n = 0 THEN bits ELSE after(n, u[n - 1])]
           Without == {m \in Nat : ~ \E u : u = Body(m, u)}
           u == CHOOSE u : u = Body(M, u)
<1>1. M \in Nat /\ slot2 \in Nat
    BY DEF Garbled!GarblingInv
<1>2. Garbled!Plain(bits) = u[M]
    BY DEF Garbled!Plain
<1> HIDE DEF after, M
<1>3. Without = {}
    <2> SUFFICES ASSUME Without # {} PROVE FALSE
        OBVIOUS
    <2>1. PICK m \in Without : \A k \in Without : m <= k
        <3>1. Without \subseteq Nat
            OBVIOUS
        <3> HIDE DEF Without
        <3> QED
            BY <3>1, LeastNumber
    <2>2. m \in Nat /\ ~ \E w : w = Body(m, w)
        OBVIOUS
    <2>3. m # 0
        <3>1. [n \in 0 .. 0 |-> bits] = Body(0, [n \in 0 .. 0 |-> bits])
            OBVIOUS
        <3> QED
            BY <2>2, <3>1
    <2>4. m - 1 \in Nat /\ m - 1 \notin Without
        <3> HIDE DEF Without
        <3> QED
            BY <2>1, <2>2, <2>3
    <2>5. PICK w : w = Body(m - 1, w)
        BY <2>4
    <2> DEFINE v == [n \in 0 .. m |-> IF n = m THEN after(m, w[m - 1]) ELSE w[n]]
    <2>6. ASSUME NEW n \in 0 .. m PROVE v[n] = IF n = 0 THEN bits ELSE after(n, v[n - 1])
        <3>1. CASE n = 0
            <4>1. 0 \in 0 .. m - 1 /\ 0 # m
                BY <2>3, <2>4
            <4>2. w[0] = bits
                BY <2>5, <4>1
            <4> QED
                BY <3>1, <4>1, <4>2
        <3>2. CASE n = m
            <4>1. m - 1 \in 0 .. m /\ m - 1 # m
                BY <2>4
            <4>2. v[m - 1] = w[m - 1]
                BY <4>1
            <4> QED
                BY <2>3, <3>2, <4>2
        <3>3. CASE n # 0 /\ n # m
            <4>1. n \in 0 .. m - 1 /\ n - 1 \in 0 .. m /\ n - 1 # m
                BY <2>4, <3>3
            <4>2. w[n] = after(n, w[n - 1])
                BY <2>5, <3>3, <4>1
            <4> QED
                BY <3>3, <4>1, <4>2
        <3> QED
            BY <3>1, <3>2, <3>3
    <2>7. v = Body(m, v)
        <3> HIDE DEF after
        <3> QED
            BY <2>6
    <2> QED
        BY <2>2, <2>7
<1>4. u = Body(M, u)
    <2>1. \E w : w = Body(M, w)
        <3>1. M \notin Without
            BY <1>3
        <3> HIDE DEF Body
        <3> QED
            BY <1>1, <3>1
    <2> HIDE DEF Body
    <2> QED
        BY <2>1
<1> HIDE DEF u
<1>5. u[0] = bits /\ \A n \in 1 .. M : u[n] = after(n, u[n - 1])
    <2>1. 0 \in 0 .. M /\ \A n \in 1 .. M : n \in 0 .. M /\ n # 0
        BY <1>1
    <2> QED
        BY <1>4, <2>1
<1> DEFINE Odd == {n \in 0 .. M : ~(u[n] \in Seq({0, 1}) /\ Len(u[n]) = slot2 + n)}
<1>6. Odd = {}
    <2> SUFFICES ASSUME Odd # {} PROVE FALSE
        OBVIOUS
    <2>1. PICK m \in Odd : \A k \in Odd : m <= k
        <3>1. Odd \subseteq Nat
            BY <1>1
        <3> HIDE DEF Odd
        <3> QED
            BY <3>1, LeastNumber
    <2>2. m \in 0 .. M /\ ~(u[m] \in Seq({0, 1}) /\ Len(u[m]) = slot2 + m)
        OBVIOUS
    <2>3. m # 0
        <3>1. bits \in Seq({0, 1}) /\ Len(bits) = slot2
            BY <1>1 DEF Garbled!Bit
        <3> QED
            BY <1>1, <1>5, <2>2, <3>1
    <2>4. m - 1 \in 0 .. M /\ m \in 1 .. M /\ ~ m <= m - 1
        BY <1>1, <2>2, <2>3
    <2>5. m - 1 \notin Odd
        <3> HIDE DEF Odd
        <3> QED
            BY <2>1, <2>4
    <2>6. u[m - 1] \in Seq({0, 1}) /\ Len(u[m - 1]) = slot2 + m - 1
        BY <1>1, <2>4, <2>5
    <2>7. Garbled!Op(slot3[m].type, u[m - 1][slot3[m].in0], u[m - 1][slot3[m].in1]) \in {0, 1}
        BY <2>4, <2>6, GateEvaluates DEF M
    <2>8. u[m] \in Seq({0, 1}) /\ Len(u[m]) = Len(u[m - 1]) + 1
        <3> DEFINE x == Garbled!Op(slot3[m].type, u[m - 1][slot3[m].in0], u[m - 1][slot3[m].in1])
        <3>1. u[m] = Append(u[m - 1], x)
            BY <1>5, <2>4 DEF after
        <3>2. x \in {0, 1}
            BY <2>7
        <3> HIDE DEF x
        <3> QED
            BY <2>6, <3>1, <3>2, Extended
    <2> QED
        BY <1>1, <2>2, <2>6, <2>8
<1>7. \A n \in 0 .. M : u[n] \in Seq({0, 1}) /\ Len(u[n]) = slot2 + n
    BY <1>6
<1> QED
    BY <1>2, <1>5, <1>7 DEF after, M

\* What is decoded is what the circuit computes in the clear.
LEMMA GarblingSafe == Garbled!GarblingInv => Garbled!GarblingComputesCircuit
<1> SUFFICES ASSUME Garbled!GarblingInv, NEW bits \in [1 .. slot2 -> Garbled!Bit]
             PROVE  LET labels == Garbled!Evaluate([w \in 1 .. slot2 |-> Garbled!Label(w, bits[w])])
                    IN  \A w \in Garbled!Wire :
                          /\ labels[w].wire = w
                          /\ Garbled!Decode(w, labels[w]) = Garbled!Plain(bits)[w]
    BY DEF Garbled!GarblingComputesCircuit
<1> DEFINE M == Len(slot3)
           first == [w \in 1 .. slot2 |-> Garbled!Label(w, bits[w])]
           after(n, known) ==
               LET l0 == known[slot3[n].in0]
                   l1 == known[slot3[n].in1]
               IN  Append(known, Garbled!DecryptLabel(l0, l1,
                              slot3[n].table[Garbled!RowSeen(slot3[n].type, l0, l1)]))
           Body(e) == [n \in 0 .. M |-> IF n = 0 THEN first ELSE after(n, e[n - 1])]
           E == CHOOSE e : e = Body(e)
<1>1. M \in Nat /\ slot2 \in Nat /\ Garbled!Wire = 1 .. slot2 + M
    BY DEF Garbled!GarblingInv, Garbled!Wire
<1>2. Garbled!Evaluate(first) = E[M]
    BY DEF Garbled!Evaluate
<1>3. PICK u : /\ u[0] = bits
               /\ \A n \in 1 .. M :
                    u[n] = Append(u[n - 1], Garbled!Op(slot3[n].type, u[n - 1][slot3[n].in0],
                                                       u[n - 1][slot3[n].in1]))
               /\ \A n \in 0 .. M : u[n] \in Seq({0, 1}) /\ Len(u[n]) = slot2 + n
               /\ Garbled!Plain(bits) = u[M]
    BY PlainBits
<1> DEFINE labelled(n) == [w \in 1 .. slot2 + n |-> Garbled!Label(w, u[n][w])]
<1>4. labelled(0) = first
    BY <1>1, <1>3
<1>5. ASSUME NEW n \in 1 .. M PROVE after(n, labelled(n - 1)) = labelled(n)
    <2> DEFINE v == u[n - 1]
               x == Garbled!Op(slot3[n].type, v[slot3[n].in0], v[slot3[n].in1])
               l0 == Garbled!Label(slot3[n].in0, v[slot3[n].in0])
               l1 == Garbled!Label(slot3[n].in1, v[slot3[n].in1])
               known == labelled(n - 1)
    <2>1. n \in Nat /\ n - 1 \in 0 .. M /\ slot2 + n - 1 \in Nat /\ slot2 + (n - 1) = slot2 + n - 1
        BY <1>1
    <2>2. v \in Seq({0, 1}) /\ Len(v) = slot2 + n - 1
        BY <1>3, <2>1
    <2>3. /\ slot3[n].in0 \in 1 .. Len(v) /\ slot3[n].in1 \in 1 .. Len(v) /\ x \in {0, 1}
          /\ Garbled!DecryptLabel(l0, l1, slot3[n].table[Garbled!RowSeen(slot3[n].type, l0, l1)])
                 = Garbled!Label(slot2 + n, x)
        BY <2>2, GateEvaluates
    <2>4. known[slot3[n].in0] = l0 /\ known[slot3[n].in1] = l1
        BY <2>1, <2>2, <2>3
    <2>5. after(n, known) = Append(known, Garbled!Label(slot2 + n, x))
        BY <2>3, <2>4
    <2>6. u[n] = Append(v, x)
        BY <1>3
    <2> HIDE DEF after, x, l0, l1, v
    <2>7. \A w \in 1 .. slot2 + n : u[n][w] = IF w = slot2 + n THEN x ELSE v[w]
        <3>1. Len(v) + 1 = slot2 + n
            BY <1>1, <2>1, <2>2
        <3>2. \A w \in 1 .. Len(v) + 1 : Append(v, x)[w] = IF w = Len(v) + 1 THEN x ELSE v[w]
            BY <2>2, <2>3, Extended
        <3> QED
            BY <2>6, <3>1, <3>2
    <2>8. known = [w \in 1 .. slot2 + n - 1 |-> Garbled!Label(w, v[w])]
        BY <2>1 DEF v
    <2> HIDE DEF known, labelled
    <2> DEFINE S == {Garbled!Label(w, v[w]) : w \in 1 .. slot2 + n - 1}
               l == Garbled!Label(slot2 + n, x)
    <2>9. known \in Seq(S) /\ Len(known) = slot2 + n - 1
        BY <2>1, <2>8
    <2> HIDE DEF S, l
    <2>10. /\ DOMAIN Append(known, l) = 1 .. slot2 + n
           /\ \A w \in 1 .. slot2 + n : Append(known, l)[w] = IF w = slot2 + n THEN l ELSE known[w]
           /\ Append(known, l) \in Seq(S \cup {l}) /\ Len(Append(known, l)) = slot2 + n
        <3>1. Len(known) + 1 = slot2 + n
            BY <1>1, <2>1, <2>9
        <3> QED
            BY <2>9, <3>1, Extended
    <2>11. ASSUME NEW w \in 1 .. slot2 + n PROVE Append(known, l)[w] = Garbled!Label(w, u[n][w])
        <3>1. w = slot2 + n \/ w \in 1 .. slot2 + n - 1
            BY <1>1, <2>1
        <3>2. CASE w = slot2 + n
            BY <2>7, <2>10, <3>2 DEF l
        <3>3. CASE w \in 1 .. slot2 + n - 1
            <4>1. w # slot2 + n
                BY <1>1, <2>1, <3>3
            <4> QED
                BY <2>7, <2>8, <2>10, <3>3, <4>1
        <3> QED
            BY <3>1, <3>2, <3>3
    <2>12. Append(known, l) = [w \in 1 .. slot2 + n |-> Garbled!Label(w, u[n][w])]
        <3>1. Append(known, l) = [w \in 1 .. slot2 + n |-> Append(known, l)[w]]
            BY <2>10, SequenceIs, Zenon
        <3> QED
            BY <2>11, <3>1
    <2> QED
        BY <2>5, <2>12 DEF labelled, l, known
<1> HIDE DEF after, labelled, first, M
<1>6. [n \in 0 .. M |-> labelled(n)] = Body([n \in 0 .. M |-> labelled(n)])
    <2> DEFINE e == [n \in 0 .. M |-> labelled(n)]
    <2>1. ASSUME NEW n \in 0 .. M PROVE labelled(n) = IF n = 0 THEN first ELSE after(n, e[n - 1])
        <3>1. n = 0 \/ (n \in 1 .. M /\ n - 1 \in 0 .. M)
            BY <1>1
        <3> QED
            BY <1>4, <1>5, <3>1
    <2> QED
        BY <2>1
<1>7. E = Body(E)
    <2>1. \E e : e = Body(e)
        BY <1>6
    <2> HIDE DEF Body
    <2> QED
        BY <2>1
<1> HIDE DEF E
<1>8. E[0] = first /\ \A n \in 1 .. M : E[n] = after(n, E[n - 1])
    <2>1. 0 \in 0 .. M /\ \A n \in 1 .. M : n \in 0 .. M /\ n # 0
        BY <1>1
    <2> QED
        BY <1>7, <2>1
<1> DEFINE Odd == {n \in 0 .. M : E[n] # labelled(n)}
<1>9. Odd = {}
    <2> SUFFICES ASSUME Odd # {} PROVE FALSE
        OBVIOUS
    <2>1. PICK m \in Odd : \A k \in Odd : m <= k
        <3>1. Odd \subseteq Nat
            BY <1>1
        <3> HIDE DEF Odd
        <3> QED
            BY <3>1, LeastNumber
    <2>2. m \in 0 .. M /\ E[m] # labelled(m)
        OBVIOUS
    <2>3. m \in 1 .. M /\ m - 1 \in 0 .. M /\ ~ m <= m - 1
        BY <1>1, <1>4, <1>8, <2>2
    <2>4. m - 1 \notin Odd
        <3> HIDE DEF Odd
        <3> QED
            BY <2>1, <2>3
    <2>5. E[m - 1] = labelled(m - 1)
        BY <2>3, <2>4
    <2> QED
        BY <1>5, <1>8, <2>2, <2>3, <2>5
<1>10. E[M] = labelled(M)
    BY <1>1, <1>9
<1>11. ASSUME NEW w \in Garbled!Wire
       PROVE  labelled(M)[w].wire = w /\ Garbled!Decode(w, labelled(M)[w]) = u[M][w]
    <2>1. u[M][w] \in {0, 1}
        <3>1. u[M] \in Seq({0, 1}) /\ Len(u[M]) = slot2 + M
            BY <1>1, <1>3
        <3> QED
            BY <1>1, <3>1
    <2>2. labelled(M)[w] = Garbled!Label(w, u[M][w])
        BY <1>1 DEF labelled
    <2> QED
        BY <2>1, <2>2 DEF Garbled!Label, Garbled!Decode
<1> QED
    BY <1>2, <1>3, <1>10, <1>11 DEF first

-----------------------------------------------------------------------------
(* The behaviours of MCSharing: a part, and the invariant of that part.    *)

SharingInv ==
    /\ part = "system" => System!SigningInv
    /\ part = "wallet" => Wallet!WalletInv
    /\ part = "beacon" => Beacon!ChainInv
    /\ part = "authenticated" => Authenticated!AuthenticationInv
    /\ part = "echoes" => Echoes!EchoInv
    /\ part = "session" => Session!SessionInv
    /\ part = "garbled" => Garbled!GarblingInv
    /\ part = "voting" => Voting!ElectionInv

\* Every part begins as its module says.
LEMMA SharingInitial == MCInit => SharingInv
<1> SUFFICES ASSUME MCInit PROVE SharingInv
    OBVIOUS
<1>1. part = "system" => System!SigningInv
    BY SystemInductive DEF MCInit
<1>2. part = "wallet" => Wallet!WalletInv
    BY WalletInductive DEF MCInit
<1>3. part = "beacon" => Beacon!ChainInv
    BY BeaconInductive DEF MCInit
<1>4. part = "echoes" => Echoes!EchoInv
    BY EchoInductive DEF MCInit
<1>5. part = "session" => Session!SessionInv
    BY SessionInductive DEF MCInit
<1>6. part = "authenticated" => Authenticated!AuthenticationInv
    BY AuthenticationInductive DEF MCInit
<1>7. part = "garbled" => Garbled!GarblingInv
    BY GarblingInductive DEF MCInit
<1>8. part = "voting" => Voting!ElectionInv
    BY VotingAssumption, Voting!ElectionInitial DEF MCInit
<1> QED
    BY <1>1, <1>2, <1>3, <1>4, <1>5, <1>6, <1>7, <1>8 DEF SharingInv

\* Every step is one of the part, and keeps its invariant.
LEMMA SharingStep == SharingInv /\ [MCNext]_<<part, vars, slots>> => SharingInv'
<1> SUFFICES ASSUME SharingInv, [MCNext]_<<part, vars, slots>> PROVE SharingInv'
    OBVIOUS
<1>1. part' = part
    BY DEF MCNext
<1>2. /\ part = "system" => [System!Next]_(System!vars)
      /\ part = "wallet" => [Wallet!Next]_(Wallet!vars)
      /\ part = "beacon" => [Beacon!Next]_(Beacon!vars)
      /\ part = "authenticated" => [Authenticated!Next]_(Authenticated!vars)
      /\ part = "echoes" => [Echoes!Next]_(Echoes!vars)
      /\ part = "session" => [Session!Next]_(Session!vars)
      /\ part = "garbled" => [Garbled!Next]_(Garbled!vars)
      /\ part = "voting" => [Voting!Next]_(Voting!vars)
    <2>1. CASE MCNext
        BY <2>1 DEF MCNext
    <2>2. CASE UNCHANGED <<part, vars, slots>>
        <3>1. /\ UNCHANGED <<slot1, slot2, slot3, slot4, slot5, slot6, slot7>>
              /\ UNCHANGED <<slot8, slot9, slot10, slot11>>
            BY <2>2 DEF slots, from3, from4, from5, from6, from7, from8, from10
        <3> QED
            BY <3>1 DEF System!vars, System!keyVars, System!ceremonyVars, System!signingVars,
                        Wallet!vars, Beacon!vars, Authenticated!vars, Echoes!vars, Session!vars,
                        Garbled!vars, Voting!vars, Voting!registry, Voting!audit
    <2> QED
        BY <2>1, <2>2
<1>3. part = "system" => System!SigningInv'
    BY <1>2, SystemInductive DEF SharingInv
<1>4. part = "wallet" => Wallet!WalletInv'
    BY <1>2, WalletInductive DEF SharingInv
<1>5. part = "beacon" => Beacon!ChainInv'
    BY <1>2, BeaconInductive DEF SharingInv
<1>6. part = "echoes" => Echoes!EchoInv'
    BY <1>2, EchoInductive DEF SharingInv
<1>7. part = "session" => Session!SessionInv'
    BY <1>2, SessionInductive DEF SharingInv
<1>8. part = "authenticated" => Authenticated!AuthenticationInv'
    BY <1>2, AuthenticationInductive DEF SharingInv
<1>9. part = "garbled" => Garbled!GarblingInv'
    BY <1>2, GarblingInductive DEF SharingInv
<1>10. part = "voting" => Voting!ElectionInv'
    BY <1>2, VotingAssumption, Voting!ElectionStep DEF SharingInv
<1> QED
    BY <1>1, <1>3, <1>4, <1>5, <1>6, <1>7, <1>8, <1>9, <1>10 DEF SharingInv

\* All of it holds at every state.
THEOREM SharingInvariant == MCSpec => []SharingInv
<1> QED
    BY SharingInitial, SharingStep, PTL DEF MCSpec

\* No nonce of FROST answers two challenges with one key, what aggregate() returned adds
\* up when nothing came between its responses, wallet, beacon and system work with the same
\* shares and no transaction takes more signatures than it needs, and the beacon's chain
\* verifies.
THEOREM SigningIsSound == MCSpec => []SigningSound
<1>1. SharingInv => SigningSound
    BY SystemSafe, WalletSafe, BeaconSafe DEF SharingInv, SigningSound
<1> QED
    BY <1>1, SharingInvariant, PTL

\* An output that passed its check is right: whatever was computed of it, with any number
\* of parties over any prime, a lie in an opening is found unless that opening was not
\* checked or the key is guessed.  Receivers whose echoes agree have one payload, and the
\* results of a session are those of everybody's inputs.
THEOREM CheatingIsFound == MCSpec => []CheatingFound
<1>1. SharingInv => CheatingFound
    BY EchoesSafe, SessionSafe DEF SharingInv, CheatingFound, Authenticated!AuthenticationInv
<1> QED
    BY <1>1, SharingInvariant, PTL

\* A garbled circuit computes what the circuit computes in the clear: for every input and
\* all permutation bits, however many gates and wires there are, every gate hands on a real
\* label of its wire, and what is decoded is the bit of that wire.
THEOREM GarblingIsRight == MCSpec => []GarblingRight
<1>1. SharingInv => GarblingRight
    BY GarblingSafe DEF SharingInv, GarblingRight
<1> QED
    BY <1>1, SharingInvariant, PTL

\* Once voting has closed, verifyMyVote() confirms every ballot and no other nullifier.
THEOREM EveryVoteVerifiable == MCSpec => []EveryBallotIncluded
<1>1. SharingInv => EveryBallotIncluded
    BY VotingAssumption, Voting!ElectionSafe DEF SharingInv, EveryBallotIncluded
<1> QED
    BY <1>1, SharingInvariant, PTL

\* No ballot is added to a question that has been tallied.
THEOREM ResultsComplete == MCSpec => []ResultsCountAllBallots
<1>1. SharingInv => ResultsCountAllBallots
    BY VotingAssumption, Voting!ElectionSafe DEF SharingInv, ResultsCountAllBallots
<1> QED
    BY <1>1, SharingInvariant, PTL

\* Universal verification accepts an election whose first question was answered by
\* single choices.
THEOREM SingleChoiceElectionsVerify == MCSpec => []SingleChoiceVerifies
<1>1. SharingInv => SingleChoiceVerifies
    BY VotingAssumption, Voting!ElectionSafe DEF SharingInv, SingleChoiceVerifies
<1> QED
    BY <1>1, SharingInvariant, PTL

=============================================================================
