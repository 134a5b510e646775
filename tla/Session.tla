------------------------------- MODULE Session -------------------------------
(***************************************************************************)
(* Establishing a session and talking over it, as in sections 3 to 6 of    *)
(* src/src/utils/pq-secure-messaging.ts: X3KEM, PQDoubleRatchet, encrypt,  *)
(* decrypt and SessionBuilder, between one initiator and one responder, by *)
(* a network that loses, repeats and reorders initial messages and sealed  *)
(* messages.  Each end keeps one active session, because the session       *)
(* identifier depends on the two identities alone.                         *)
(*                                                                         *)
(* Fresh randomness is the next natural number.  A root key is the         *)
(* sequence of shared secrets that it was derived from, and <<>> is the    *)
(* buffer of zeros that secureErase leaves; a chain key is the root key it *)
(* came with and the number of messages since.  A header or a message      *)
(* opens with the key that sealed it.  The signature over the signed       *)
(* pre-key verifies, as its caller means it to: the arguments of sign()    *)
(* and verify() are taken in the order in which this file passes them.     *)
(* ratchetStep() has no caller and is left out.                            *)
(***************************************************************************)
EXTENDS Naturals, Sequences, FiniteSets, Functions, TLAPS

CONSTANTS
    Initiator, Responder,  \* the two ends
    KeepsRootKey,  \* whether the responder's ratchet is left its root key:
                   \* FALSE for SessionBuilder, which erases the buffer that
                   \* it handed over; TRUE for initializeResponder() alone
    MaxSkip,       \* MAX_SKIP
    MaxSessions,   \* bound: the calls of initiateSession
    MaxAnswers,    \* bound: the calls of respondToSession
    MaxMessages,   \* bound: the messages an end seals
    None

VARIABLES
    fresh,         \* the next random value
    oneTimePreKey, \* the responder's unused one-time pre-keys
    sessions,      \* the initial messages that were sent
    answered,      \* the handshakes that the responder completed, in order
    ratchet,       \* each end's active ratchet
    net,           \* the sealed messages that were sent
    opened,        \* the messages that each end has decrypted, in order
    refused        \* the unopened messages of its own session that an end
                   \* refused, and how it stood at the time

vars == <<fresh, oneTimePreKey, sessions, answered, ratchet, net, opened,
          refused>>

End == {Initiator, Responder}
Other(p) == IF p = Initiator THEN Responder ELSE Initiator

Erased == << >>

\* The responder's signed pre-key is the ratchet key 0.
SignedPreKey == 0

Init ==
    /\ fresh = 1
    /\ oneTimePreKey = 1 .. MaxSessions
    /\ sessions = {}
    /\ answered = << >>
    /\ ratchet = [p \in End |-> None]
    /\ net = {}
    /\ opened = [p \in End |-> << >>]
    /\ refused = {}

-----------------------------------------------------------------------------
(* The ratchet.                                                            *)

Chain(root) == [base |-> root, n |-> 0]

NewRatchet(session, root, send, remote, pair, header) ==
    [session |-> session, root |-> root, send |-> send, recv |-> None, pair |-> pair,
     remote |-> remote, sendN |-> 0, recvN |-> 0, prev |-> 0,
     skipped |-> << >>, header |-> header]

\* s is the shared secret of the encapsulation to the signed pre-key; it names
\* the session.
InitializeInitiator(root, pair, s) ==
    NewRatchet(s, Append(root, s), Chain(Append(root, s)), SignedPreKey,
               pair, root)

InitializeResponder(root, s) ==
    NewRatchet(s, IF KeepsRootKey THEN root ELSE Erased, None, None,
               SignedPreKey, root)

\* Faulty variant: the chain is not advanced.
DeriveMessageKeysTwice(chain) == [key |-> chain, next |-> chain]
DeriveMessageKeys(chain) ==
    [key |-> chain, next |-> [chain EXCEPT !.n = @ + 1]]

TooFar(from, until) == until > from + MaxSkip

\* Faulty variant: the chain stays behind the keys taken from it.
SkipWithoutAdvancing(r, pub, from, until) ==
    IF r.recv = None \/ until <= from THEN r ELSE
    LET kept == {<<pub, i>> : i \in from .. until - 1}
        cached == [k \in kept \cup DOMAIN r.skipped |->
                     IF k \in kept THEN [r.recv EXCEPT !.n = @ + k[2] - from]
                     ELSE r.skipped[k]]
    IN  [r EXCEPT !.skipped = cached]

\* The keys of messages from to until - 1 are cached.
SkipMessageKeys(r, pub, from, until) ==
    IF r.recv = None \/ until <= from THEN r ELSE
    LET kept == {<<pub, i>> : i \in from .. until - 1}
        cached == [k \in kept \cup DOMAIN r.skipped |->
                     IF k \in kept THEN [r.recv EXCEPT !.n = @ + k[2] - from]
                     ELSE r.skipped[k]]
    IN  [r EXCEPT !.skipped = cached, !.recv.n = @ + until - from]

\* A ciphertext opens to its secret with the key pair it was made for, and to
\* a value of its own with another.
Decapsulate(ct, pair) == IF ct.to = pair THEN ct.secret ELSE <<ct.secret, pair>>

\* f is the new key pair and f + 1 the secret that is encapsulated to pub; its
\* ciphertext is not kept, so nobody else learns that secret.
ReceivingRatchetStep(r, ct, pub, f) ==
    LET root1 == Append(r.root, Decapsulate(ct, r.pair))
        root2 == Append(root1, f + 1)
    IN  [r EXCEPT !.root = root2, !.recv = Chain(root1), !.send = Chain(root2),
                  !.remote = pub, !.prev = r.sendN, !.sendN = 0, !.recvN = 0,
                  !.pair = f, !.header = root2]

\* Where getReceivingKeys() leaves the ratchet, and the key it returns; no key
\* is a call that throws.
GetReceivingKeys(r, h, ct, f) ==
    LET at == <<h.pub, h.n>>
        new == h.pub # r.remote
        caughtUp == IF r.recv = None THEN r
                    ELSE SkipMessageKeys(r, r.remote, r.recvN, h.prev)
        stepped == IF new THEN ReceivingRatchetStep(caughtUp, ct, h.pub, f) ELSE r
        ready == SkipMessageKeys(stepped, h.pub, stepped.recvN, h.n)
        derived == DeriveMessageKeys(ready.recv)
    IN  IF at \in DOMAIN r.skipped
          THEN [ratchet |-> [r EXCEPT !.skipped = Restrict(@, DOMAIN @ \ {at})],
                key |-> r.skipped[at]]
        ELSE IF new /\ (ct = None \/ (r.recv # None /\ TooFar(r.recvN, h.prev)))
          THEN [ratchet |-> r, key |-> None]
        ELSE IF TooFar(stepped.recvN, h.n) \/ ready.recv = None
          THEN [ratchet |-> stepped, key |-> None]
        ELSE [ratchet |-> [ready EXCEPT !.recv = derived.next, !.recvN = h.n + 1],
              key |-> derived.key]

-----------------------------------------------------------------------------
(* Sessions.                                                               *)

\* The three encapsulations give f .. f + 2 (no third one without a one-time
\* pre-key), the ratchet's first one f + 3, its key pair f + 4.
InitiateSession(otk) ==
    /\ Cardinality(sessions) < MaxSessions
    /\ LET root == IF otk = None THEN <<fresh, fresh + 1>>
                   ELSE <<fresh, fresh + 1, fresh + 2>>
       IN  /\ sessions' = sessions \cup
                {[secrets |-> root, oneTime |-> otk,
                  ct |-> [to |-> SignedPreKey, secret |-> fresh + 3]]}
           /\ ratchet' = [ratchet EXCEPT ![Initiator] =
                InitializeInitiator(<<root>>, fresh + 4, fresh + 3)]
    /\ fresh' = fresh + 5
    /\ UNCHANGED <<oneTimePreKey, answered, net, opened, refused>>

\* Faulty variant: the one-time pre-key stays in the store.
ConsumeOneTimePreKeyKeeps(otk) == UNCHANGED oneTimePreKey
ConsumeOneTimePreKey(otk) == oneTimePreKey' = oneTimePreKey \ {otk}

\* Faulty variant: the third ciphertext is always ignored.
CompleteHandshakeTwoSecrets(m) == <<SubSeq(m.secrets, 1, 2)>>

\* Without the secret of the one-time pre-key the third ciphertext is ignored.
CompleteHandshake(m) ==
    <<IF m.oneTime \in oneTimePreKey \cup {None} THEN m.secrets
      ELSE SubSeq(m.secrets, 1, 2)>>

\* The session replaces whichever one was active.
RespondToSession(m) ==
    LET root == CompleteHandshake(m)
    IN  /\ Len(answered) < MaxAnswers
        /\ ConsumeOneTimePreKey(m.oneTime)
        /\ answered' = Append(answered,
             [initial |-> m, root |-> root, oneTimeUsed |-> m.oneTime \in oneTimePreKey])
        /\ ratchet' = [ratchet EXCEPT
                         ![Responder] = InitializeResponder(root, m.ct.secret)]
        /\ UNCHANGED <<fresh, sessions, net, opened, refused>>

Encrypt(p) ==
    LET r == ratchet[p]
        derived == DeriveMessageKeys(r.send)
    IN  /\ r # None
        /\ r.send # None
        /\ Cardinality({m \in net : m.from = p}) < MaxMessages
        /\ net' = net \cup {[from |-> p, session |-> r.session,
                             header |-> r.header, pub |-> r.pair,
                             n |-> r.sendN, prev |-> r.prev, key |-> derived.key]}
        /\ ratchet' = [ratchet EXCEPT ![p].send = derived.next,
                                      ![p].sendN = @ + 1]
        /\ UNCHANGED <<fresh, oneTimePreKey, sessions, answered, opened, refused>>

\* Every earlier message of m's chain has been opened.
InOrder(p, m) ==
    \A i \in 0 .. m.n - 1 : \E k \in Range(opened[p]) : k.pub = m.pub /\ k.n = i

Refusal(p, m) ==
    [message |-> m, inOrder |-> InOrder(p, m),
     first |-> ratchet[p].recv = None]

\* ct is what the application passes as kemCiphertext: nothing, or what an
\* initial message brought.
Decrypt(p, m, ct) ==
    LET r == ratchet[p]
        got == GetReceivingKeys(r, m, ct, fresh)
        opens == r.header = m.header /\ got.key = m.key
        due == m.session = r.session /\ m \notin Range(opened[p])
               /\ ct # None /\ ct.secret = r.session
        after == IF r.header = m.header THEN got.ratchet ELSE r
    IN  /\ r # None
        /\ m.from # p
        /\ ratchet' = [ratchet EXCEPT ![p] = after]
        /\ opened' = IF opens THEN [opened EXCEPT ![p] = Append(@, m)] ELSE opened
        /\ refused' = IF due /\ ~opens THEN refused \cup {Refusal(p, m)} ELSE refused
        /\ fresh' = IF after.pair = r.pair THEN fresh ELSE fresh + 2
        /\ UNCHANGED <<oneTimePreKey, sessions, answered, net>>

-----------------------------------------------------------------------------

Next ==
    \/ \E otk \in (1 .. MaxSessions) \cup {None} : InitiateSession(otk)
    \/ \E m \in sessions : RespondToSession(m)
    \/ \E p \in End : Encrypt(p)
    \/ \E p \in End, m \in net, ct \in {s.ct : s \in sessions} \cup {None} :
         Decrypt(p, m, ct)

Spec == Init /\ [][Next]_vars

-----------------------------------------------------------------------------
(* Properties.                                                             *)

\* No two messages are sealed with one message key, by either end or in
\* different sessions: each key comes with a fixed IV.
MessageKeysUnique == \A m, k \in net : m.key = k.key => m = k

\* The sessions whose handshake includes a one-time pre-key.
OneTime(m) == \E s \in sessions : s.ct.secret = m.session /\ s.oneTime # None

\* In a session with a one-time pre-key no message is opened twice, although
\* the initial message may be repeated as well and sets up a ratchet anew.
OpenedOnce ==
    \A p \in End : \A i, j \in DOMAIN opened[p] :
        OneTime(opened[p][i]) /\ opened[p][i] = opened[p][j] => i = j

Derivable(r, key) ==
    /\ r # None
    /\ \/ key \in Range(r.skipped)
       \/ \E chain \in {r.send, r.recv} \ {None} :
            chain.base = key.base /\ chain.n <= key.n

\* "providing forward secrecy": in a session with a one-time pre-key the key of
\* a message that has been opened can be derived by neither end any more.
ForwardSecrecy ==
    \A p \in End : \A m \in Range(opened[p]) : OneTime(m) =>
        \A q \in End : ~Derivable(ratchet[q], m.key)

\* A responder whose handshake agreed opens whichever message of the session is
\* the first that it tries, within MAX_SKIP.
FirstArrivalOpens ==
    \A x \in refused :
        x.first /\ x.message.from = Initiator /\ x.message.n <= MaxSkip =>
        \E i \in DOMAIN answered :
            /\ answered[i].initial.ct.secret = x.message.session
            /\ answered[i].root # <<answered[i].initial.secrets>>

\* A message that arrives in order with the session's ciphertext opens.
InOrderMessagesOpen == \A x \in refused : ~x.inOrder

\* "Must produce the same root key as the initiator": whichever order initial
\* messages come in, only one whose one-time pre-key an earlier answer has used
\* is answered with another root key.
RootKeysAgree ==
    \A i \in DOMAIN answered :
        \/ answered[i].root = <<answered[i].initial.secrets>>
        \/ \E j \in 1 .. (i - 1) :
             answered[j].initial.oneTime = answered[i].initial.oneTime

-----------------------------------------------------------------------------
(* Message keys are unique however many sessions, answers and messages     *)
(* there are: a sending chain is known by the fresh secret that its root   *)
(* key was derived from last.                                              *)

\* What a root key is derived from: secrets, and the lists that the first secrets
\* and wrongly opened ciphertexts give.
Value == Nat \cup Seq(Nat)

ChainKey == [base : Seq(Value), n : Nat]

\* The secret that a root key was derived from last.
LastSecret(root) == root[Len(root)]

IsRatchet(r) ==
    /\ {"root", "send", "recv", "pair", "sendN", "recvN", "skipped"} \subseteq DOMAIN r
    /\ r.root \in Seq(Value)
    /\ r.pair \in Nat
    /\ r.send # None => r.send \in ChainKey /\ LastSecret(r.send.base) \in Nat

Sends(p) == ratchet[p] # None /\ ratchet[p].send # None

SentBy(p) == LastSecret(ratchet[p].send.base)

Secrets == {l \in Seq(Nat) : Len(l) >= 2}

Ciphertext == [to : Nat, secret : Nat]

TypeOK ==
    /\ fresh \in Nat
    /\ \A s \in sessions : s.secrets \in Secrets /\ s.ct \in Ciphertext
    /\ DOMAIN ratchet = End
    /\ \A p \in End : ratchet[p] # None => IsRatchet(ratchet[p])
    /\ \A m \in net : m.key \in ChainKey /\ LastSecret(m.key.base) \in Nat

\* No secret is drawn twice, and a key pair is replaced by a new one only.
Drawn ==
    /\ 0 < fresh
    /\ \A p \in End : ratchet[p] # None => ratchet[p].pair < fresh
    /\ \A p \in End : Sends(p) => SentBy(p) < fresh
    /\ \A m \in net : LastSecret(m.key.base) < fresh

\* The two ends send on chains of their own, each past every key it gave away.
KeyInv ==
    /\ TypeOK
    /\ Drawn
    /\ \A p, q \in End : p # q /\ Sends(p) /\ Sends(q) => SentBy(p) # SentBy(q)
    /\ \A p \in End : Sends(p) => \A m \in net :
         LastSecret(m.key.base) = SentBy(p) => m.key.n < ratchet[p].send.n
    /\ MessageKeysUnique

\* A root key is known by the secret it was derived from last.
LEMMA Derived ==
    ASSUME NEW root \in Seq(Value), NEW v \in Value
    PROVE  Append(root, v) \in Seq(Value) /\ LastSecret(Append(root, v)) = v
<1>1. Len(Append(root, v)) = Len(root) + 1 /\ Append(root, v)[Len(root) + 1] = v
    OBVIOUS
<1> QED
    BY <1>1 DEF LastSecret

\* What getReceivingKeys() does to the sending half: nothing, or a ratchet step, which
\* begins a chain with a secret of its own.
Continues(a, r) == a.send = r.send /\ a.pair = r.pair

Steps(a, f) ==
    /\ a.pair = f
    /\ a.send \in ChainKey
    /\ a.send.n = 0
    /\ LastSecret(a.send.base) = f + 1

\* skipMessageKeys() leaves the sending half alone.
LEMMA Skipping ==
    ASSUME NEW r, IsRatchet(r), NEW pub, NEW from, NEW until
    PROVE  LET a == SkipMessageKeys(r, pub, from, until)
           IN  IsRatchet(a) /\ Continues(a, r)
BY DEF IsRatchet, Continues, SkipMessageKeys

\* A ratchet step begins a sending chain with the second secret it draws.
LEMMA Stepping ==
    ASSUME NEW r, IsRatchet(r), NEW ct \in Ciphertext, NEW pub, NEW f \in Nat
    PROVE  LET a == ReceivingRatchetStep(r, ct, pub, f)
           IN  IsRatchet(a) /\ Steps(a, f)
<1> DEFINE d == Decapsulate(ct, r.pair)
           root1 == Append(r.root, d)
           root2 == Append(root1, f + 1)
           a == ReceivingRatchetStep(r, ct, pub, f)
<1>1. d \in Value
    BY DEF Decapsulate, Ciphertext, Value, IsRatchet
<1>2. root1 \in Seq(Value)
    BY <1>1, Derived DEF IsRatchet
<1>3. f + 1 \in Value /\ f + 1 \in Nat
    BY DEF Value
<1> HIDE DEF root1
<1>4. root2 \in Seq(Value) /\ LastSecret(root2) = f + 1
    BY <1>2, <1>3, Derived
<1>5. /\ DOMAIN a = DOMAIN r
      /\ a.root = root2
      /\ a.send = Chain(root2)
      /\ a.pair = f
    BY DEF ReceivingRatchetStep, IsRatchet, root1
<1>6. Chain(root2) \in ChainKey /\ Chain(root2).base = root2 /\ Chain(root2).n = 0
    BY <1>4 DEF Chain, ChainKey
<1> HIDE DEF a, root2
<1>7. IsRatchet(a) /\ Steps(a, f)
    BY <1>3, <1>4, <1>5, <1>6 DEF IsRatchet, Steps
<1> QED
    BY <1>7 DEF a

\* getReceivingKeys() does one or the other, whether or not it returns a key.
LEMMA Receiving ==
    ASSUME NEW r, IsRatchet(r), NEW h, NEW ct, ct # None => ct \in Ciphertext,
           NEW f \in Nat
    PROVE  LET a == GetReceivingKeys(r, h, ct, f).ratchet
           IN  IsRatchet(a) /\ (Continues(a, r) \/ Steps(a, f))
<1> DEFINE at == <<h.pub, h.n>>
           new == h.pub # r.remote
           caughtUp == IF r.recv = None THEN r
                       ELSE SkipMessageKeys(r, r.remote, r.recvN, h.prev)
           stepped == IF new THEN ReceivingRatchetStep(caughtUp, ct, h.pub, f) ELSE r
           ready == SkipMessageKeys(stepped, h.pub, stepped.recvN, h.n)
           derived == DeriveMessageKeys(ready.recv)
           a == GetReceivingKeys(r, h, ct, f).ratchet
<1>1. CASE at \in DOMAIN r.skipped
    <2>1. a = [r EXCEPT !.skipped = Restrict(@, DOMAIN @ \ {at})]
        BY <1>1 DEF GetReceivingKeys
    <2> QED
        BY <2>1 DEF IsRatchet, Continues
<1>2. CASE at \notin DOMAIN r.skipped /\ new /\ (ct = None \/ (r.recv # None /\ TooFar(r.recvN, h.prev)))
    <2>1. a = r
        BY <1>2 DEF GetReceivingKeys
    <2> QED
        BY <2>1 DEF Continues
<1>3. CASE at \notin DOMAIN r.skipped /\ ~(new /\ (ct = None \/ (r.recv # None /\ TooFar(r.recvN, h.prev))))
    <2>1. IsRatchet(caughtUp) /\ Continues(caughtUp, r)
        BY Skipping DEF Continues
    <2> HIDE DEF caughtUp
    <2>2. IsRatchet(stepped) /\ (Continues(stepped, r) \/ Steps(stepped, f))
        <3>1. CASE new
            <4>1. ct \in Ciphertext
                BY <1>3, <3>1
            <4>2. stepped = ReceivingRatchetStep(caughtUp, ct, h.pub, f)
                BY <3>1
            <4> QED
                BY <2>1, <4>1, <4>2, Stepping
        <3>2. CASE ~new
            BY <3>2 DEF Continues
        <3> QED
            BY <3>1, <3>2
    <2> HIDE DEF stepped
    <2>3. IsRatchet(ready) /\ Continues(ready, stepped)
        BY <2>2, Skipping
    <2> HIDE DEF ready
    <2>4. a = stepped \/ a = [ready EXCEPT !.recv = derived.next, !.recvN = h.n + 1]
        BY <1>3 DEF GetReceivingKeys, stepped, ready, caughtUp
    <2>5. CASE a = stepped
        BY <2>2, <2>5
    <2>6. CASE a = [ready EXCEPT !.recv = derived.next, !.recvN = h.n + 1]
        <3>1. IsRatchet(a) /\ Continues(a, ready)
            BY <2>3, <2>6 DEF IsRatchet, Continues
        <3> HIDE DEF a
        <3>2. Continues(a, r) \/ Steps(a, f)
            BY <2>2, <2>3, <3>1 DEF Continues, Steps
        <3> QED
            BY <3>1, <3>2 DEF a
    <2> QED
        BY <2>4, <2>5, <2>6
<1> QED
    BY <1>1, <1>2, <1>3
\* A new ratchet with which one end replaces its own, or what a step of it leaves.
LEMMA Replaced ==
    ASSUME KeyInv, NEW p \in End, NEW a, IsRatchet(a), ratchet' = [ratchet EXCEPT ![p] = a],
           fresh' \in Nat, fresh <= fresh', a.pair < fresh',
           sessions' = sessions \/ (\A s \in sessions' : s.secrets \in Secrets /\ s.ct \in Ciphertext),
           net' = net,
           \/ a.send = None
           \/ Sends(p) /\ a.send = ratchet[p].send
           \/ fresh <= LastSecret(a.send.base) /\ LastSecret(a.send.base) < fresh'
    PROVE  KeyInv'
<1> USE DEF KeyInv, TypeOK, Drawn
<1>1. ratchet'[p] = a /\ \A q \in End \ {p} : ratchet'[q] = ratchet[q]
    OBVIOUS
<1>2. TypeOK'
    BY <1>1
<1>3. /\ Sends(p)' => a.send # None /\ SentBy(p)' = LastSecret(a.send.base)
      /\ \A q \in End \ {p} : Sends(q)' <=> Sends(q)
      /\ \A q \in End \ {p} : SentBy(q)' = SentBy(q)
    BY <1>1 DEF Sends, SentBy
<1>4. \A q \in End : Sends(q) => SentBy(q) \in Nat
    BY DEF Sends, SentBy, IsRatchet
<1>5. a.send # None => LastSecret(a.send.base) \in Nat
    BY DEF IsRatchet
<1>6. ASSUME Sends(p)'
      PROVE  \/ Sends(p) /\ a.send = ratchet[p].send /\ SentBy(p)' = SentBy(p)
             \/ fresh <= SentBy(p)' /\ SentBy(p)' < fresh' /\ SentBy(p)' \in Nat
    BY <1>3, <1>5, <1>6 DEF SentBy
<1>7. Drawn'
    <2>1. \A q \in End : ratchet'[q] # None => ratchet'[q].pair < fresh'
        <3>1. \A q \in End \ {p} : ratchet[q] # None => ratchet[q].pair \in Nat
            BY DEF IsRatchet
        <3> QED
            BY <1>1, <3>1
    <2>2. \A q \in End : Sends(q)' => SentBy(q)' < fresh'
        BY <1>3, <1>4, <1>6
    <2>3. \A m \in net' : LastSecret(m.key.base) < fresh'
        OBVIOUS
    <2> QED
        BY <2>1, <2>2, <2>3
<1>8. \A q, o \in End : q # o /\ Sends(q)' /\ Sends(o)' => SentBy(q)' # SentBy(o)'
    BY <1>3, <1>4, <1>6
<1>9. \A q \in End : Sends(q)' => \A m \in net' :
        LastSecret(m.key.base) = SentBy(q)' => m.key.n < ratchet'[q].send.n
    <2>1. ASSUME NEW m \in net, Sends(p)', LastSecret(m.key.base) = SentBy(p)'
          PROVE  m.key.n < a.send.n
        BY <1>6, <2>1
    <2> QED
        BY <1>1, <1>3, <2>1
<1>10. MessageKeysUnique'
    BY DEF MessageKeysUnique
<1> QED
    BY <1>2, <1>7, <1>8, <1>9, <1>10

\* Every step keeps the chains apart, whether or not the responder's root key is erased.
LEMMA KeysKept == Spec => []KeyInv
<1>1. Init => KeyInv
    BY DEF Init, KeyInv, TypeOK, Drawn, Sends, MessageKeysUnique
<1>2. KeyInv /\ [Next]_vars => KeyInv'
    <2> SUFFICES ASSUME KeyInv, [Next]_vars PROVE KeyInv'
        OBVIOUS
    <2>0. fresh \in Nat /\ DOMAIN ratchet = End
        BY DEF KeyInv, TypeOK
    <2>1. ASSUME NEW otk \in (1 .. MaxSessions) \cup {None}, InitiateSession(otk) PROVE KeyInv'
        <3> DEFINE root == IF otk = None THEN <<fresh, fresh + 1>> ELSE <<fresh, fresh + 1, fresh + 2>>
                   initial == [secrets |-> root, oneTime |-> otk,
                               ct |-> [to |-> SignedPreKey, secret |-> fresh + 3]]
                   a == InitializeInitiator(<<root>>, fresh + 4, fresh + 3)
        <3>1. /\ ratchet' = [ratchet EXCEPT ![Initiator] = a]
              /\ sessions' = sessions \cup {initial}
              /\ fresh' = fresh + 5 /\ net' = net
            BY <2>1 DEF InitiateSession
        <3>2. root \in Secrets /\ fresh + 3 \in Value /\ fresh + 3 \in Nat /\ fresh + 4 \in Nat
            BY <2>0 DEF Value, Secrets
        <3>3. initial.secrets \in Secrets /\ initial.ct \in Ciphertext
            BY <3>2 DEF Ciphertext, SignedPreKey
        <3> HIDE DEF root
        <3>4. <<root>> \in Seq(Value)
            BY <3>2 DEF Value, Secrets
        <3> DEFINE b == Append(<<root>>, fresh + 3)
        <3>5. b \in Seq(Value) /\ LastSecret(b) = fresh + 3
            BY <3>2, <3>4, Derived
        <3>6. /\ {"root", "send", "recv", "pair", "sendN", "recvN", "skipped"} \subseteq DOMAIN a
              /\ a.root = b /\ a.send = Chain(b) /\ a.pair = fresh + 4
            BY DEF InitializeInitiator, NewRatchet
        <3> HIDE DEF a, b, initial
        <3>7. Chain(b) \in ChainKey /\ Chain(b).base = b
            BY <3>5 DEF Chain, ChainKey
        <3>8. IsRatchet(a)
            BY <3>2, <3>5, <3>6, <3>7 DEF IsRatchet
        <3>9. \A s \in sessions' : s.secrets \in Secrets /\ s.ct \in Ciphertext
            BY <3>1, <3>3 DEF KeyInv, TypeOK
        <3>10. fresh <= LastSecret(a.send.base) /\ LastSecret(a.send.base) < fresh' /\ a.pair < fresh' /\ fresh <= fresh' /\ fresh' \in Nat
            BY <2>0, <3>1, <3>5, <3>6, <3>7
        <3> QED
            BY <3>1, <3>8, <3>9, <3>10, Replaced DEF End
    <2>2. ASSUME NEW m \in sessions, RespondToSession(m) PROVE KeyInv'
        <3> DEFINE root == CompleteHandshake(m)
                   a == InitializeResponder(root, m.ct.secret)
        <3>1. /\ ratchet' = [ratchet EXCEPT ![Responder] = a]
              /\ UNCHANGED <<fresh, sessions, net>>
            BY <2>2 DEF RespondToSession
        <3>2. m.secrets \in Seq(Nat) /\ SubSeq(m.secrets, 1, 2) \in Seq(Nat)
            BY DEF KeyInv, TypeOK, Secrets
        <3>3. root \in Seq(Value)
            BY <3>2 DEF CompleteHandshake, Value
        <3> HIDE DEF root
        <3>4. /\ {"root", "send", "recv", "pair", "sendN", "recvN", "skipped"} \subseteq DOMAIN a
              /\ a.root \in {root, Erased} /\ a.send = None /\ a.pair = 0
            BY DEF InitializeResponder, NewRatchet, SignedPreKey
        <3>5. Erased \in Seq(Value)
            BY DEF Erased
        <3> HIDE DEF a
        <3>6. IsRatchet(a)
            BY <3>3, <3>4, <3>5 DEF IsRatchet
        <3>7. fresh' = fresh /\ a.pair < fresh' /\ fresh <= fresh' /\ fresh' \in Nat
            BY <2>0, <3>1, <3>4 DEF KeyInv, Drawn
        <3> QED
            BY <3>1, <3>4, <3>6, <3>7, Replaced DEF End
    <2>3. ASSUME NEW p \in End, Encrypt(p) PROVE KeyInv'
        <3> DEFINE r == ratchet[p]
                   next == [r.send EXCEPT !.n = @ + 1]
                   half == [r EXCEPT !.send = next]
                   a == [half EXCEPT !.sendN = @ + 1]
        <3>1. PICK m : /\ net' = net \cup {m} /\ m.key = r.send
                       /\ Sends(p)
                       /\ ratchet' = [ratchet EXCEPT ![p] = a]
                       /\ UNCHANGED <<fresh, sessions>>
            <4> DEFINE m == [from |-> p, session |-> r.session, header |-> r.header, pub |-> r.pair,
                             n |-> r.sendN, prev |-> r.prev, key |-> r.send]
            <4>1. net' = net \cup {m} /\ m.key = r.send
                BY <2>3 DEF Encrypt, DeriveMessageKeys
            <4>2. Sends(p)
                BY <2>3 DEF Encrypt, Sends
            <4>3. ratchet' = [ratchet EXCEPT ![p] = a]
                <5> DEFINE begun == [ratchet EXCEPT ![p] = half]
                <5>1. ratchet' = [ratchet EXCEPT ![p].send = next, ![p].sendN = @ + 1]
                    BY <2>3 DEF Encrypt, DeriveMessageKeys
                <5> HIDE DEF next
                <5>2. ratchet' = [begun EXCEPT ![p] = [begun[p] EXCEPT !.sendN = @ + 1]]
                    BY <5>1
                <5> HIDE DEF half
                <5>3. DOMAIN begun = End /\ begun[p] = half
                    BY <2>0
                <5>4. ratchet' = [begun EXCEPT ![p] = a]
                    BY <5>2, <5>3
                <5> HIDE DEF a
                <5>5. ratchet' = [ratchet EXCEPT ![p] = a]
                    BY <2>0, <5>4
                <5> QED
                    BY <5>5
            <4>4. UNCHANGED <<fresh, sessions>>
                BY <2>3 DEF Encrypt
            <4> QED
                BY <4>1, <4>2, <4>3, <4>4
        <3>2. IsRatchet(r) /\ r.send \in ChainKey /\ LastSecret(r.send.base) \in Nat
            BY <3>1 DEF KeyInv, TypeOK, Sends, IsRatchet
        <3>3. /\ a.send.base = r.send.base /\ a.send.n = r.send.n + 1 /\ a.send \in ChainKey
              /\ a.pair = r.pair
              /\ IsRatchet(a)
            <4>1. next.base = r.send.base /\ next.n = r.send.n + 1 /\ next \in ChainKey
                BY <3>2 DEF ChainKey
            <4> HIDE DEF next
            <4>2. half.send = next /\ half.pair = r.pair /\ half.root = r.root /\ DOMAIN half = DOMAIN r
                BY <3>2 DEF IsRatchet
            <4> HIDE DEF half
            <4>3. a.send = next /\ a.pair = r.pair /\ a.root = r.root /\ DOMAIN a = DOMAIN r
                BY <3>2, <4>2 DEF IsRatchet
            <4> HIDE DEF a
            <4>4. IsRatchet(a)
                BY <3>2, <4>1, <4>3 DEF IsRatchet
            <4> QED
                BY <4>1, <4>3, <4>4
        <3> HIDE DEF a
        <3>4. ratchet'[p] = a /\ \A q \in End \ {p} : ratchet'[q] = ratchet[q]
            BY <2>0, <3>1
        <3>5. /\ \A q \in End : Sends(q)' => Sends(q)
              /\ \A q \in End : SentBy(q)' = SentBy(q)
            BY <3>1, <3>3, <3>4 DEF Sends, SentBy
        <3>6. TypeOK'
            BY <3>1, <3>2, <3>3, <3>4 DEF KeyInv, TypeOK
        <3>7. Drawn'
            <4>1. LastSecret(m.key.base) < fresh
                BY <3>1 DEF KeyInv, Drawn, SentBy
            <4>2. \A q \in End : ratchet'[q] # None => ratchet'[q].pair < fresh
                BY <3>1, <3>3, <3>4 DEF KeyInv, Drawn, Sends
            <4> QED
                BY <3>1, <3>5, <4>1, <4>2 DEF KeyInv, Drawn
        <3>8. \A q, o \in End : q # o /\ Sends(q)' /\ Sends(o)' => SentBy(q)' # SentBy(o)'
            BY <3>5 DEF KeyInv
        <3>9. \A k \in net : k.key # m.key
            <4>1. SUFFICES ASSUME NEW k \in net, k.key = r.send PROVE FALSE
                BY <3>1
            <4>2. k.key.n < r.send.n
                BY <3>1, <4>1 DEF KeyInv, SentBy
            <4> QED
                BY <3>2, <4>1, <4>2 DEF ChainKey
        <3>10. \A q \in End : Sends(q)' => \A k \in net' :
                 LastSecret(k.key.base) = SentBy(q)' => k.key.n < ratchet'[q].send.n
            <4>1. ASSUME NEW k \in net', Sends(p)', LastSecret(k.key.base) = SentBy(p)
                  PROVE  k.key.n < r.send.n + 1
                <5>1. r.send.n \in Nat
                    BY <3>2 DEF ChainKey
                <5>2. CASE k \in net
                    <6>1. k.key.n < r.send.n /\ k.key.n \in Nat
                        BY <3>1, <4>1, <5>2 DEF KeyInv, TypeOK, ChainKey
                    <6> QED
                        BY <5>1, <6>1
                <5>3. CASE k = m
                    BY <3>1, <5>1, <5>3
                <5> QED
                    BY <3>1, <5>2, <5>3
            <4>2. ASSUME NEW q \in End, q # p, Sends(q)', NEW k \in net', LastSecret(k.key.base) = SentBy(q)
                  PROVE  k.key.n < ratchet[q].send.n
                <5>1. k # m
                    BY <3>1, <3>5, <4>2 DEF KeyInv, SentBy
                <5> QED
                    BY <3>1, <3>5, <4>2, <5>1 DEF KeyInv
            <4> QED
                BY <3>3, <3>4, <3>5, <4>1, <4>2
        <3>11. MessageKeysUnique'
            BY <3>1, <3>9 DEF KeyInv, MessageKeysUnique
        <3> QED
            BY <3>6, <3>7, <3>8, <3>10, <3>11 DEF KeyInv
    <2>4. ASSUME NEW p \in End, NEW m \in net, NEW ct \in {s.ct : s \in sessions} \cup {None},
                 Decrypt(p, m, ct)
          PROVE  KeyInv'
        <3> DEFINE r == ratchet[p]
                   got == GetReceivingKeys(r, m, ct, fresh).ratchet
                   a == IF r.header = m.header THEN got ELSE r
        <3>1. /\ ratchet' = [ratchet EXCEPT ![p] = a]
              /\ fresh' = IF a.pair = r.pair THEN fresh ELSE fresh + 2
              /\ UNCHANGED <<sessions, net>>
              /\ r # None
            BY <2>4 DEF Decrypt
        <3>2. IsRatchet(r) /\ r.pair \in Nat /\ r.pair < fresh
            BY <3>1 DEF KeyInv, TypeOK, Drawn, IsRatchet
        <3>3. ct # None => ct \in Ciphertext
            BY DEF KeyInv, TypeOK
        <3>4. IsRatchet(got) /\ (Continues(got, r) \/ Steps(got, fresh))
            BY <2>0, <3>2, <3>3, Receiving
        <3> HIDE DEF got
        <3>5. IsRatchet(a) /\ (Continues(a, r) \/ Steps(a, fresh))
            BY <3>2, <3>4 DEF Continues
        <3> HIDE DEF a
        <3>6. CASE Continues(a, r)
            <4>1. fresh' = fresh /\ a.pair < fresh
                BY <3>1, <3>2, <3>6 DEF Continues
            <4>2. a.send = None \/ (Sends(p) /\ a.send = ratchet[p].send)
                BY <3>1, <3>6 DEF Continues, Sends
            <4>3. fresh <= fresh' /\ fresh' \in Nat /\ a.pair < fresh'
                BY <2>0, <4>1
            <4> QED
                BY <3>1, <3>5, <4>2, <4>3, Replaced
        <3>7. CASE Steps(a, fresh)
            <4>1. fresh' = fresh + 2 /\ a.pair = fresh /\ LastSecret(a.send.base) = fresh + 1
                BY <2>0, <3>1, <3>2, <3>7 DEF Steps
            <4>2. /\ fresh <= LastSecret(a.send.base) /\ LastSecret(a.send.base) < fresh'
                  /\ a.pair < fresh' /\ fresh <= fresh' /\ fresh' \in Nat
                BY <2>0, <4>1
            <4> QED
                BY <3>1, <3>5, <4>2, Replaced
        <3> QED
            BY <3>5, <3>6, <3>7
    <2>5. CASE UNCHANGED vars
        BY <2>5 DEF vars, KeyInv, TypeOK, Drawn, Sends, SentBy, MessageKeysUnique
    <2> QED
        BY <2>1, <2>2, <2>3, <2>4, <2>5 DEF Next
<1> QED
    BY <1>1, <1>2, PTL DEF Spec

\* Whatever the network does with initial messages and sealed ones, and whether or not
\* the responder's root key is erased, no message key seals two messages.
THEOREM KeysAreUnique == Spec => []MessageKeysUnique
<1>1. KeyInv => MessageKeysUnique
    BY DEF KeyInv
<1> QED
    BY <1>1, KeysKept, PTL

-----------------------------------------------------------------------------
(* What an answered handshake is good for, however often initial messages  *)
(* are repeated.  The ratchet step that opens the first message to arrive  *)
(* mixes a secret into the root key, and with it into the header key, that *)
(* the other end never learns: so a handshake opens one message at most,   *)
(* and the initiator's ratchet never takes a step.                         *)

\* What is assumed of the two ends, and of a responder that is left its root key.
Assumed ==
    /\ Initiator # Responder
    /\ KeepsRootKey = TRUE
    /\ None \notin Nat \cup ChainKey
    /\ MaxSkip \in Nat

InitialMessage(s) ==
    /\ s.ct.to = SignedPreKey
    /\ s.ct.secret < fresh
    /\ s.secrets[1] + 3 = s.ct.secret
    /\ s.oneTime \in (1 .. MaxSessions) \cup {None}
    /\ Len(s.secrets) = IF s.oneTime = None THEN 2 ELSE 3

SessionsOK ==
    /\ \A s \in sessions : InitialMessage(s)
    /\ \A s, t \in sessions : s.ct.secret = t.ct.secret => s = t

\* The root key that the initiator's chain begins with.
FirstRoot(s) == Append(<<s.secrets>>, s.ct.secret)

SentIn(s, m) ==
    /\ m.session = s.ct.secret
    /\ m.header = <<s.secrets>>
    /\ m.pub \in Nat
    /\ m.n \in Nat
    /\ m.key = [base |-> FirstRoot(s), n |-> m.n]

MessagesOK ==
    \A m \in net :
        /\ m.from \in End
        /\ m.from = Initiator => \E s \in sessions : SentIn(s, m)
        /\ m.from = Responder => Len(m.header) = 3

\* The initiator is still at the root key of its last session.
InitiatorOK ==
    LET r == ratchet[Initiator]
    IN  r # None =>
        /\ \E s \in sessions :
             /\ r.session = s.ct.secret
             /\ r.header = <<s.secrets>>
             /\ r.pair \in Nat
             /\ r.sendN \in Nat
             /\ r.send = [base |-> FirstRoot(s), n |-> r.sendN]
        /\ r.recv = None
        /\ r.skipped = << >>

Begun(r, x) == r = InitializeResponder(x.root, x.initial.ct.secret)

Stepped(r) ==
    /\ r.recv # None
    /\ r.send # None
    /\ Len(r.header) = 3

ResponderOK ==
    ratchet[Responder] # None =>
    \/ \E i \in DOMAIN answered : Begun(ratchet[Responder], answered[i])
    \/ Stepped(ratchet[Responder])

AnsweredOK ==
    /\ answered \in Seq([initial : sessions, root : Seq(Seq(Nat)), oneTimeUsed : BOOLEAN])
    /\ \A i \in DOMAIN answered :
         LET s == answered[i].initial
         IN  /\ answered[i].root \in {<<s.secrets>>, <<SubSeq(s.secrets, 1, 2)>>}
             /\ s.oneTime \notin oneTimePreKey
    /\ \A otk \in (1 .. MaxSessions) \ oneTimePreKey :
         \E i \in DOMAIN answered : answered[i].initial.oneTime = otk

\* r can neither open m nor anything that is sealed with m's key.
Past(r, m) ==
    r # None =>
    /\ r.header # m.header
    /\ m.key \notin Range(r.skipped)
    /\ r.recv # None => ~(r.recv.base = m.key.base /\ r.recv.n <= m.key.n)

\* The one message of a session with a one-time pre-key: the pre-key is gone, and
\* the responder is past the message.
OpenedOK ==
    /\ DOMAIN opened = End
    /\ opened[Initiator] = << >>
    /\ opened[Responder] \in Seq({m \in net : m.from = Initiator})
    /\ \A i, j \in DOMAIN opened[Responder] :
         LET m == opened[Responder][i]
             k == opened[Responder][j]
         IN  OneTime(m) /\ m.session = k.session => i = j
    /\ \A m \in Range(opened[Responder]) : OneTime(m) =>
         /\ \A s \in sessions : s.ct.secret = m.session => s.oneTime \notin oneTimePreKey
         /\ Past(ratchet[Responder], m)

HandshakeInv ==
    /\ SessionsOK
    /\ MessagesOK
    /\ InitiatorOK
    /\ ResponderOK
    /\ AnsweredOK
    /\ OpenedOK
    /\ RootKeysAgree
    /\ FirstArrivalOpens

\* A sequence over a set is one over a larger set.
LEMMA Widens ==
    ASSUME NEW S, NEW T, S \subseteq T, NEW q \in Seq(S)
    PROVE  q \in Seq(T)
OBVIOUS

\* What is appended comes last.
LEMMA Appended ==
    ASSUME NEW S, NEW q \in Seq(S), NEW x \in S
    PROVE  /\ Append(q, x) \in Seq(S)
           /\ DOMAIN Append(q, x) = 1 .. (Len(q) + 1)
           /\ DOMAIN q = 1 .. Len(q)
           /\ Len(q) \in Nat
           /\ Append(q, x)[Len(q) + 1] = x
           /\ \A i \in DOMAIN q : Append(q, x)[i] = q[i]
OBVIOUS

\* A sequence of one root key is known by it, and is no root key of two or three parts.
LEMMA Lengths ==
    ASSUME NEW x, NEW y
    PROVE  Len(<<x>>) = 1 /\ (<<x>> = <<y>> => x = y) /\ <<x>>[1] = x
OBVIOUS

\* The first message that a responder tries steps its ratchet, onto a chain that the
\* root key l and the ciphertext determine; it finds the key of message m if the
\* initiator made both.
FirstOpens(got, l, ct, m) ==
    LET a == got.ratchet
        base == Append(<<l>>, ct.secret)
    IN  /\ Len(a.header) = 3
        /\ a.recv # None
        /\ a.send # None
        /\ a.recv.base = base
        /\ \A k \in Range(a.skipped) : k.base = base /\ k.n < m.n
        /\ m.n <= MaxSkip => got.key = [base |-> base, n |-> m.n]
        /\ got.key # None => a.recv.n = m.n + 1 /\ got.key = [base |-> base, n |-> m.n]

LEMMA FirstStep ==
    ASSUME Assumed, NEW l \in Seq(Nat), NEW x \in Nat, NEW m, m.pub \in Nat, m.n \in Nat,
           NEW ct, ct.to = SignedPreKey, ct.secret \in Nat, ct # None, NEW f \in Nat
    PROVE  FirstOpens(GetReceivingKeys(InitializeResponder(<<l>>, x), m, ct, f), l, ct, m)
<1> DEFINE r == InitializeResponder(<<l>>, x)
           base == Append(<<l>>, ct.secret)
           top == Append(base, f + 1)
           step == ReceivingRatchetStep(r, ct, m.pub, f)
           ready == SkipMessageKeys(step, m.pub, 0, m.n)
           got == GetReceivingKeys(r, m, ct, f)
<1>1. r = [session |-> x, root |-> <<l>>, send |-> None, recv |-> None, pair |-> 0,
           remote |-> None, sendN |-> 0, recvN |-> 0, prev |-> 0,
           skipped |-> << >>, header |-> <<l>>]
    BY DEF InitializeResponder, NewRatchet, Assumed, SignedPreKey
<1>2. base \in Seq(Value) /\ Len(base) = 2 /\ top \in Seq(Value) /\ Len(top) = 3
    <2>1. <<l>> \in Seq(Value) /\ Len(<<l>>) = 1 /\ ct.secret \in Value /\ f + 1 \in Value
        BY DEF Value
    <2> QED
        BY <2>1
<1>3. Decapsulate(ct, r.pair) = ct.secret
    BY <1>1 DEF Decapsulate, SignedPreKey
<1>4. /\ step.recv = [base |-> base, n |-> 0] /\ step.send = [base |-> top, n |-> 0]
      /\ step.header = top /\ step.recvN = 0 /\ step.skipped = << >>
      /\ {"recv", "recvN", "skipped"} \subseteq DOMAIN step
    <2> HIDE DEF r
    <2>1. step = [r EXCEPT !.root = top, !.recv = Chain(base), !.send = Chain(top),
                           !.remote = m.pub, !.prev = r.sendN, !.sendN = 0, !.recvN = 0,
                           !.pair = f, !.header = top]
        BY <1>1, <1>3 DEF ReceivingRatchetStep
    <2> QED
        BY <1>1, <2>1, ZenonT(40) DEF Chain
<1> HIDE DEF base, top
<1>5. /\ Chain(base) # None /\ Chain(top) # None /\ m.pub # None
      /\ \A n \in Nat : [base |-> base, n |-> n] # None
    <2>1. \A n \in Nat : [base |-> base, n |-> n] \in ChainKey /\ [base |-> top, n |-> n] \in ChainKey
        BY <1>2 DEF ChainKey
    <2> QED
        BY <2>1 DEF Chain, Assumed
<1>6. /\ ready.recv = [base |-> base, n |-> m.n]
      /\ ready.send = step.send /\ ready.header = step.header
      /\ \A k \in Range(ready.skipped) : k.base = base /\ k.n < m.n
      /\ "recv" \in DOMAIN ready /\ "recvN" \in DOMAIN ready
    <2> HIDE DEF step
    <2>1. CASE m.n <= 0
        <3>1. m.n = 0 /\ ready = step
            BY <2>1 DEF SkipMessageKeys
        <3>2. Range(step.skipped) = {}
            BY <1>4 DEF Range
        <3> QED
            BY <1>4, <3>1, <3>2
    <2>2. CASE ~(m.n <= 0)
        <3> DEFINE kept == {<<m.pub, i>> : i \in 0 .. m.n - 1}
                   cached == [k \in kept \cup DOMAIN step.skipped |->
                                IF k \in kept THEN [step.recv EXCEPT !.n = @ + k[2] - 0]
                                ELSE step.skipped[k]]
        <3>1. step.recv # None
            BY <1>4, <1>5 DEF Chain
        <3>2. ready = [step EXCEPT !.skipped = cached, !.recv.n = @ + m.n - 0]
            BY <2>2, <3>1 DEF SkipMessageKeys
        <3> HIDE DEF ready
        <3>3. /\ ready.send = step.send /\ ready.header = step.header
              /\ ready.skipped = cached
              /\ ready.recv = [step.recv EXCEPT !.n = @ + m.n - 0]
              /\ "recv" \in DOMAIN ready /\ "recvN" \in DOMAIN ready
            <4> DEFINE half == [step EXCEPT !.skipped = cached]
            <4>1. ready = [half EXCEPT !.recv.n = @ + m.n - 0]
                BY <3>2
            <4> HIDE DEF cached
            <4>2. /\ DOMAIN half = DOMAIN step /\ half.recv = step.recv /\ half.send = step.send
                  /\ half.header = step.header /\ half.skipped = cached
                BY <1>4
            <4> HIDE DEF half
            <4>3. /\ DOMAIN ready = DOMAIN half /\ ready.recv = [half.recv EXCEPT !.n = @ + m.n - 0]
                  /\ ready.send = half.send /\ ready.header = half.header /\ ready.skipped = half.skipped
                BY <1>4, <4>1, <4>2
            <4> QED
                BY <1>4, <4>2, <4>3
        <3>4. ready.recv = [base |-> base, n |-> m.n]
            <4> HIDE DEF cached
            <4>1. 0 + m.n - 0 = m.n
                OBVIOUS
            <4> QED
                BY <1>4, <3>3, <4>1
        <3>5. DOMAIN cached = kept
            <4>1. DOMAIN step.skipped = {}
                BY <1>4
            <4> HIDE DEF kept
            <4> QED
                BY <4>1
        <3>6. \A k \in kept : cached[k].base = base /\ cached[k].n < m.n
            BY <1>4
        <3>7. \A k \in Range(ready.skipped) : k.base = base /\ k.n < m.n
            <4> HIDE DEF cached, kept
            <4> QED
                BY <3>3, <3>5, <3>6 DEF Range
        <3> QED
            BY <3>3, <3>4, <3>7
    <2> QED
        BY <2>1, <2>2
<1>7. got = IF TooFar(0, m.n) THEN [ratchet |-> step, key |-> None]
            ELSE [ratchet |-> [ready EXCEPT !.recv = [ready.recv EXCEPT !.n = @ + 1], !.recvN = m.n + 1],
                  key |-> ready.recv]
    <2>1. <<m.pub, m.n>> \notin DOMAIN r.skipped
        BY <1>1
    <2>2. r.recv = None /\ m.pub # r.remote
        BY <1>1, <1>5
    <2>3. ready.recv # None
        BY <1>5, <1>6
    <2>4. step.recvN = 0
        BY <1>4
    <2> HIDE DEF r
    <2> QED
        BY <2>1, <2>2, <2>3, <2>4 DEF GetReceivingKeys, DeriveMessageKeys
<1> HIDE DEF step, ready, got
<1> SUFFICES LET a == got.ratchet
             IN  /\ Len(a.header) = 3
                 /\ a.recv # None
                 /\ a.send # None
                 /\ a.recv.base = base
                 /\ \A k \in Range(a.skipped) : k.base = base /\ k.n < m.n
                 /\ m.n <= MaxSkip => got.key = [base |-> base, n |-> m.n]
                 /\ got.key # None => a.recv.n = m.n + 1 /\ got.key = [base |-> base, n |-> m.n]
    BY DEF got, base, FirstOpens
<1>8. Range(step.skipped) = {}
    BY <1>4 DEF Range
<1>9. TooFar(0, m.n) <=> ~(m.n <= MaxSkip)
    BY DEF TooFar, Assumed
<1>10. CASE TooFar(0, m.n)
    <2>1. got.ratchet = step /\ got.key = None
        BY <1>7, <1>10
    <2> QED
        BY <1>2, <1>4, <1>5, <1>8, <1>9, <1>10, <2>1 DEF Chain
<1>11. CASE ~TooFar(0, m.n)
    <2>1. got.key = ready.recv
        BY <1>7, <1>11
    <2>2. /\ got.ratchet.recv = [base |-> base, n |-> m.n + 1] /\ got.ratchet.skipped = ready.skipped
          /\ got.ratchet.send = ready.send /\ got.ratchet.header = ready.header
        <3> DEFINE next == [ready.recv EXCEPT !.n = @ + 1]
        <3>1. next = [base |-> base, n |-> m.n + 1]
            BY <1>6
        <3>2. got.ratchet = [ready EXCEPT !.recv = next, !.recvN = m.n + 1]
            BY <1>7, <1>11
        <3> HIDE DEF next
        <3> QED
            BY <1>6, <3>1, <3>2
    <2>3. [base |-> base, n |-> m.n + 1] # None
        BY <1>5
    <2> QED
        BY <1>2, <1>4, <1>5, <1>6, <2>1, <2>2, <2>3 DEF Chain
<1> QED
    BY <1>10, <1>11

\* The initial message that a message of the initiator belongs to is the only one of its
\* session, and it is at hand for whatever the responder opened.
LEMMA SessionOf ==
    ASSUME KeyInv, HandshakeInv, NEW m \in net, m.from = Initiator
    PROVE  \E s \in sessions : SentIn(s, m) /\ (OneTime(m) <=> s.oneTime # None)
<1>1. PICK s \in sessions : SentIn(s, m)
    BY DEF HandshakeInv, MessagesOK
<1>2. m.session = s.ct.secret
    BY <1>1 DEF SentIn
<1>3. \A t \in sessions : t.ct.secret = m.session => t = s
    BY <1>2 DEF HandshakeInv, SessionsOK
<1> QED
    BY <1>1, <1>2, <1>3 DEF OneTime

\* What was opened was sent by the initiator.
LEMMA OpenedMessages ==
    ASSUME OpenedOK
    PROVE  /\ \A i \in DOMAIN opened[Responder] :
                opened[Responder][i] \in net /\ opened[Responder][i].from = Initiator
           /\ \A m \in Range(opened[Responder]) : m \in net /\ m.from = Initiator
<1>1. opened[Responder] \in Seq({m \in net : m.from = Initiator})
    BY DEF OpenedOK
<1>2. \A i \in DOMAIN opened[Responder] : opened[Responder][i] \in {m \in net : m.from = Initiator}
    BY <1>1
<1> QED
    BY <1>2 DEF Range

\* A new session leaves what happened in the others as it is.
LEMMA Initiating ==
    ASSUME Assumed, KeyInv, HandshakeInv,
           NEW otk \in (1 .. MaxSessions) \cup {None}, InitiateSession(otk)
    PROVE  HandshakeInv'
<1>0. PICK root, new, a :
        /\ root = IF otk = None THEN <<fresh, fresh + 1>> ELSE <<fresh, fresh + 1, fresh + 2>>
        /\ new = [secrets |-> root, oneTime |-> otk, ct |-> [to |-> SignedPreKey, secret |-> fresh + 3]]
        /\ a = InitializeInitiator(<<root>>, fresh + 4, fresh + 3)
    OBVIOUS
<1>1. /\ sessions' = sessions \cup {new}
      /\ ratchet' = [ratchet EXCEPT ![Initiator] = a]
      /\ fresh' = fresh + 5
      /\ UNCHANGED <<oneTimePreKey, answered, net, opened, refused>>
    BY <1>0 DEF InitiateSession
<1>2. /\ fresh \in Nat /\ DOMAIN ratchet = End /\ Initiator \in End /\ Responder \in End
      /\ Initiator # Responder
    BY DEF KeyInv, TypeOK, End, Assumed
<1>3. /\ new.ct.to = SignedPreKey /\ new.ct.secret = fresh + 3 /\ new.oneTime = otk
      /\ new.secrets = root /\ root[1] = fresh
      /\ Len(root) = IF otk = None THEN 2 ELSE 3
    BY <1>0
<1>4. /\ a.session = fresh + 3 /\ a.header = <<root>> /\ a.pair = fresh + 4 /\ a.sendN = 0
      /\ a.send = [base |-> Append(<<root>>, fresh + 3), n |-> 0]
      /\ a.recv = None /\ a.skipped = << >>
    BY <1>0 DEF InitializeInitiator, NewRatchet, Chain
<1>5. ratchet'[Initiator] = a /\ ratchet'[Responder] = ratchet[Responder]
    BY <1>1, <1>2
<1>6. SessionsOK'
    <2>1. \A s \in sessions : s.ct.secret \in Nat /\ s.ct.secret < fresh
        BY DEF KeyInv, TypeOK, Ciphertext, HandshakeInv, SessionsOK, InitialMessage
    <2>2. \A s \in sessions : InitialMessage(s)'
        BY <1>1, <1>2, <2>1 DEF HandshakeInv, SessionsOK, InitialMessage
    <2>3. InitialMessage(new)'
        BY <1>1, <1>2, <1>3 DEF InitialMessage
    <2>4. \A s, t \in sessions' : s.ct.secret = t.ct.secret => s = t
        BY <1>1, <1>2, <1>3, <2>1 DEF HandshakeInv, SessionsOK
    <2> QED
        BY <1>1, <2>2, <2>3, <2>4 DEF SessionsOK
<1>7. MessagesOK'
    BY <1>1 DEF HandshakeInv, MessagesOK
<1>8. InitiatorOK'
    <2>1. new \in sessions' /\ a.send = [base |-> FirstRoot(new), n |-> a.sendN]
        BY <1>1, <1>3, <1>4 DEF FirstRoot
    <2>2. /\ a.session = new.ct.secret /\ a.header = <<new.secrets>> /\ a.pair \in Nat /\ a.sendN \in Nat
          /\ a.recv = None /\ a.skipped = << >>
        BY <1>2, <1>3, <1>4
    <2> QED
        BY <1>5, <2>1, <2>2 DEF InitiatorOK
<1>9. ResponderOK'
    BY <1>1, <1>5 DEF HandshakeInv, ResponderOK
<1>10. AnsweredOK'
    <2>1. answered' \in Seq([initial : sessions', root : Seq(Seq(Nat)), oneTimeUsed : BOOLEAN])
        <3> DEFINE S == [initial : sessions, root : Seq(Seq(Nat)), oneTimeUsed : BOOLEAN]
                   T == [initial : sessions', root : Seq(Seq(Nat)), oneTimeUsed : BOOLEAN]
        <3>1. S \subseteq T
            BY <1>1
        <3>2. answered \in Seq(S)
            BY DEF HandshakeInv, AnsweredOK
        <3> HIDE DEF S, T
        <3>3. answered \in Seq(T)
            BY <3>1, <3>2, Widens
        <3> QED
            BY <1>1, <3>3 DEF T
    <2> QED
        BY <1>1, <2>1 DEF HandshakeInv, AnsweredOK
<1>11. OpenedOK'
    <2>1. \A m \in Range(opened[Responder]) : m.session # new.ct.secret
        <3>1. SUFFICES ASSUME NEW m \in Range(opened[Responder]) PROVE m.session # new.ct.secret
            OBVIOUS
        <3>2. PICK s \in sessions : SentIn(s, m)
            BY OpenedMessages, SessionOf DEF HandshakeInv
        <3>3. s.ct.secret \in Nat /\ s.ct.secret < fresh
            BY DEF KeyInv, TypeOK, Ciphertext, HandshakeInv, SessionsOK, InitialMessage
        <3> QED
            BY <1>2, <1>3, <3>2, <3>3 DEF SentIn
    <2>2. \A m \in Range(opened[Responder]) : OneTime(m)' => OneTime(m)
        BY <1>1, <2>1 DEF OneTime
    <2>3. \A i \in DOMAIN opened[Responder] : opened[Responder][i] \in Range(opened[Responder])
        BY DEF Range
    <2>4. ASSUME NEW i \in DOMAIN opened[Responder], NEW j \in DOMAIN opened[Responder],
                 NEW m, m = opened[Responder][i], OneTime(m)', m.session = opened[Responder][j].session
          PROVE  i = j
        BY <2>2, <2>3, <2>4 DEF HandshakeInv, OpenedOK
    <2>5. \A m \in Range(opened[Responder]) : OneTime(m)' =>
            /\ \A s \in sessions' : s.ct.secret = m.session => s.oneTime \notin oneTimePreKey
            /\ Past(ratchet[Responder], m)
        BY <1>1, <2>1, <2>2 DEF HandshakeInv, OpenedOK
    <2> QED
        BY <1>1, <1>5, <2>4, <2>5 DEF HandshakeInv, OpenedOK, OneTime
<1>12. RootKeysAgree' /\ FirstArrivalOpens'
    BY <1>1 DEF HandshakeInv, RootKeysAgree, FirstArrivalOpens
<1> QED
    BY <1>6, <1>7, <1>8, <1>9, <1>10, <1>11, <1>12 DEF HandshakeInv

\* An answer replaces the responder's ratchet; with the root key of a session whose
\* message was opened only if the one-time pre-key is still there, which it is not.
LEMMA Responding ==
    ASSUME Assumed, KeyInv, HandshakeInv, NEW m \in sessions, RespondToSession(m)
    PROVE  HandshakeInv'
<1>0. PICK root, x, a :
        /\ root = CompleteHandshake(m)
        /\ x = [initial |-> m, root |-> root, oneTimeUsed |-> m.oneTime \in oneTimePreKey]
        /\ a = InitializeResponder(root, m.ct.secret)
    OBVIOUS
<1>1. /\ answered' = Append(answered, x)
      /\ oneTimePreKey' = oneTimePreKey \ {m.oneTime}
      /\ ratchet' = [ratchet EXCEPT ![Responder] = a]
      /\ UNCHANGED <<fresh, sessions, net, opened, refused>>
    BY <1>0 DEF RespondToSession, ConsumeOneTimePreKey
<1>2. DOMAIN ratchet = End /\ Initiator \in End /\ Responder \in End /\ Initiator # Responder
    BY DEF KeyInv, TypeOK, End, Assumed
<1>3. /\ m.secrets \in Seq(Nat) /\ Len(m.secrets) = IF m.oneTime = None THEN 2 ELSE 3
      /\ SubSeq(m.secrets, 1, 2) \in Seq(Nat) /\ Len(SubSeq(m.secrets, 1, 2)) = 2
      /\ m.oneTime \in (1 .. MaxSessions) \cup {None}
    <2>1. m.secrets \in Seq(Nat) /\ Len(m.secrets) >= 2
        BY DEF KeyInv, TypeOK, Secrets
    <2> QED
        BY <2>1 DEF HandshakeInv, SessionsOK, InitialMessage
<1>4. /\ root \in Seq(Seq(Nat))
      /\ \/ root = <<m.secrets>> /\ m.oneTime \in oneTimePreKey \cup {None}
         \/ root = <<SubSeq(m.secrets, 1, 2)>> /\ m.oneTime \notin oneTimePreKey \cup {None}
    BY <1>0, <1>3 DEF CompleteHandshake
<1>5. a.header = root /\ a.recv = None /\ a.skipped = << >>
    BY <1>0 DEF InitializeResponder, NewRatchet
<1>6. ratchet'[Initiator] = ratchet[Initiator] /\ ratchet'[Responder] = a
    BY <1>1, <1>2
<1>7. x.initial = m /\ x.root = root
    BY <1>0
<1> DEFINE S == [initial : sessions, root : Seq(Seq(Nat)), oneTimeUsed : BOOLEAN]
<1>8. answered \in Seq(S) /\ x \in S
    BY <1>0, <1>4 DEF HandshakeInv, AnsweredOK
<1> HIDE DEF S
<1>9. /\ answered' \in Seq(S)
      /\ DOMAIN answered = 1 .. Len(answered) /\ Len(answered) \in Nat
      /\ DOMAIN answered' = 1 .. (Len(answered) + 1)
      /\ answered'[Len(answered) + 1] = x
      /\ \A i \in DOMAIN answered : answered'[i] = answered[i]
    BY <1>1, <1>8, Appended
<1>10. SessionsOK' /\ MessagesOK' /\ InitiatorOK'
    BY <1>1, <1>6 DEF HandshakeInv, SessionsOK, InitialMessage, MessagesOK, InitiatorOK
<1>11. ResponderOK'
    <2>1. Begun(a, answered'[Len(answered) + 1])
        BY <1>0, <1>7, <1>9 DEF Begun
    <2>2. Len(answered) + 1 \in DOMAIN answered'
        BY <1>9
    <2> QED
        BY <1>6, <2>1, <2>2 DEF ResponderOK
<1>12. AnsweredOK'
    <2>1. \A i \in DOMAIN answered' :
            LET s == answered'[i].initial
            IN  /\ answered'[i].root \in {<<s.secrets>>, <<SubSeq(s.secrets, 1, 2)>>}
                /\ s.oneTime \notin oneTimePreKey'
        <3>1. SUFFICES ASSUME NEW i \in DOMAIN answered'
                       PROVE  LET s == answered'[i].initial
                              IN  /\ answered'[i].root \in {<<s.secrets>>, <<SubSeq(s.secrets, 1, 2)>>}
                                  /\ s.oneTime \notin oneTimePreKey'
            OBVIOUS
        <3>2. CASE i \in DOMAIN answered
            BY <1>1, <1>9, <3>2 DEF HandshakeInv, AnsweredOK
        <3>3. CASE i = Len(answered) + 1
            BY <1>1, <1>4, <1>7, <1>9, <3>3
        <3> QED
            BY <1>9, <3>2, <3>3
    <2>2. \A otk \in (1 .. MaxSessions) \ oneTimePreKey' :
            \E i \in DOMAIN answered' : answered'[i].initial.oneTime = otk
        <3>1. SUFFICES ASSUME NEW otk \in (1 .. MaxSessions) \ oneTimePreKey'
                       PROVE  \E i \in DOMAIN answered' : answered'[i].initial.oneTime = otk
            OBVIOUS
        <3>2. CASE otk = m.oneTime
            BY <1>7, <1>9, <3>2
        <3>3. CASE otk \notin oneTimePreKey
            <4>1. PICK i \in DOMAIN answered : answered[i].initial.oneTime = otk
                BY <3>3 DEF HandshakeInv, AnsweredOK
            <4> QED
                BY <1>9, <4>1
        <3> QED
            BY <1>1, <3>2, <3>3
    <2>3. answered' \in Seq([initial : sessions', root : Seq(Seq(Nat)), oneTimeUsed : BOOLEAN])
        BY <1>1, <1>9 DEF S
    <2> QED
        BY <2>1, <2>2, <2>3 DEF AnsweredOK
<1>13. OpenedOK'
    <2>1. \A k \in Range(opened[Responder]) : OneTime(k) => Past(a, k)
        <3>1. SUFFICES ASSUME NEW k \in Range(opened[Responder]), OneTime(k), a.header = k.header PROVE FALSE
            <4>1. Range(<< >>) = {}
                BY DEF Range
            <4> QED
                BY <1>5, <4>1 DEF Past
        <3>2. PICK s \in sessions : SentIn(s, k) /\ s.oneTime # None
            BY <3>1, OpenedMessages, SessionOf DEF HandshakeInv
        <3>3. s.oneTime \notin oneTimePreKey
            BY <3>1, <3>2 DEF HandshakeInv, OpenedOK, SentIn
        <3>4. root = <<s.secrets>>
            BY <1>5, <3>1, <3>2 DEF SentIn
        <3>5. Len(s.secrets) = 3
            BY <3>2 DEF HandshakeInv, SessionsOK, InitialMessage
        <3>6. CASE root = <<m.secrets>> /\ m.oneTime \in oneTimePreKey \cup {None}
            <4>1. m.secrets = s.secrets
                BY <3>4, <3>6, Lengths
            <4>2. m.ct.secret = s.ct.secret
                BY <4>1 DEF HandshakeInv, SessionsOK, InitialMessage
            <4>3. m = s
                BY <4>2 DEF HandshakeInv, SessionsOK
            <4> QED
                BY <3>2, <3>3, <3>6, <4>3
        <3>7. CASE root = <<SubSeq(m.secrets, 1, 2)>>
            <4>1. SubSeq(m.secrets, 1, 2) = s.secrets
                BY ONLY <3>4, <3>7, Lengths
            <4>2. Len(SubSeq(m.secrets, 1, 2)) = 3
                BY ONLY <3>5, <4>1, Zenon
            <4> QED
                BY ONLY <1>3, <4>2
        <3> QED
            BY <1>4, <3>6, <3>7
    <2>2. \A k : OneTime(k)' <=> OneTime(k)
        BY <1>1 DEF OneTime
    <2> QED
        BY <1>1, <1>6, <2>1, <2>2 DEF HandshakeInv, OpenedOK
<1>14. RootKeysAgree'
    <2>1. SUFFICES ASSUME NEW i \in DOMAIN answered', answered'[i].root # <<answered'[i].initial.secrets>>
                   PROVE  \E j \in 1 .. (i - 1) :
                            answered'[j].initial.oneTime = answered'[i].initial.oneTime
        BY DEF RootKeysAgree
    <2>2. CASE i \in DOMAIN answered
        <3>1. PICK j \in 1 .. (i - 1) : answered[j].initial.oneTime = answered[i].initial.oneTime
            BY <1>9, <2>1, <2>2 DEF HandshakeInv, RootKeysAgree
        <3> QED
            BY <1>9, <2>2, <3>1
    <2>3. CASE i = Len(answered) + 1
        <3>1. m.oneTime \in (1 .. MaxSessions) \ oneTimePreKey
            BY <1>3, <1>4, <1>7, <1>9, <2>1, <2>3
        <3>2. PICK j \in DOMAIN answered : answered[j].initial.oneTime = m.oneTime
            BY <3>1 DEF HandshakeInv, AnsweredOK
        <3> QED
            BY <1>7, <1>9, <2>3, <3>2
    <2> QED
        BY <1>9, <2>2, <2>3
<1>15. FirstArrivalOpens'
    BY <1>1, <1>9 DEF HandshakeInv, FirstArrivalOpens
<1> QED
    BY <1>10, <1>11, <1>12, <1>13, <1>14, <1>15 DEF HandshakeInv

\* Sealing a message moves the sender's chain past its key.
LEMMA Encrypting ==
    ASSUME Assumed, KeyInv, HandshakeInv, NEW p \in End, Encrypt(p)
    PROVE  HandshakeInv'
<1>0. PICK r, next, half, a, m :
        /\ r = ratchet[p]
        /\ next = [r.send EXCEPT !.n = @ + 1]
        /\ half = [r EXCEPT !.send = next]
        /\ a = [half EXCEPT !.sendN = @ + 1]
        /\ m = [from |-> p, session |-> r.session, header |-> r.header, pub |-> r.pair,
                n |-> r.sendN, prev |-> r.prev, key |-> r.send]
    OBVIOUS
<1>1. /\ r # None /\ r.send # None
      /\ net' = net \cup {m}
      /\ UNCHANGED <<fresh, oneTimePreKey, sessions, answered, opened, refused>>
    BY <1>0 DEF Encrypt, DeriveMessageKeys
<1>2. DOMAIN ratchet = End /\ Initiator \in End /\ Responder \in End /\ Initiator # Responder
    BY DEF KeyInv, TypeOK, End, Assumed
<1>3. ratchet' = [ratchet EXCEPT ![p] = a]
    <2>1. ratchet' = [ratchet EXCEPT ![p].send = next, ![p].sendN = @ + 1]
        BY <1>0 DEF Encrypt, DeriveMessageKeys
    <2>2. PICK begun : begun = [ratchet EXCEPT ![p] = half]
        OBVIOUS
    <2>3. ratchet' = [begun EXCEPT ![p] = [begun[p] EXCEPT !.sendN = @ + 1]]
        BY <1>0, <2>1, <2>2
    <2>4. DOMAIN begun = End /\ begun[p] = half
        BY <1>2, <2>2
    <2>5. ratchet' = [begun EXCEPT ![p] = a]
        BY <1>0, <2>3, <2>4
    <2> QED
        BY <1>2, <2>2, <2>5
<1>4. /\ m.from = p /\ m.session = r.session /\ m.header = r.header /\ m.pub = r.pair
      /\ m.n = r.sendN /\ m.key = r.send
    BY <1>0
<1>5. IsRatchet(r) /\ r.send \in ChainKey
    BY <1>0, <1>1 DEF KeyInv, TypeOK, IsRatchet
<1>6. /\ a.session = r.session /\ a.header = r.header /\ a.pair = r.pair
      /\ a.recv = r.recv /\ a.skipped = r.skipped
      /\ a.send = next /\ a.sendN = r.sendN + 1
      /\ next = [base |-> r.send.base, n |-> r.send.n + 1] /\ next \in ChainKey
    <2>1. "send" \in DOMAIN r /\ "sendN" \in DOMAIN r
        BY <1>5 DEF IsRatchet
    <2>2. /\ half.session = r.session /\ half.header = r.header /\ half.pair = r.pair
          /\ half.recv = r.recv /\ half.skipped = r.skipped
          /\ half.send = next /\ half.sendN = r.sendN /\ "sendN" \in DOMAIN half
        BY ONLY <1>0, <2>1
    <2>3. /\ a.session = r.session /\ a.header = r.header /\ a.pair = r.pair
          /\ a.recv = r.recv /\ a.skipped = r.skipped
          /\ a.send = next /\ a.sendN = r.sendN + 1
        BY ONLY <1>0, <2>2
    <2>4. next = [base |-> r.send.base, n |-> r.send.n + 1] /\ next \in ChainKey
        BY <1>0, <1>5 DEF ChainKey
    <2> QED
        BY <2>3, <2>4
<1>7. ratchet'[p] = a /\ \A q \in End \ {p} : ratchet'[q] = ratchet[q]
    BY <1>2, <1>3
<1>8. SessionsOK' /\ AnsweredOK' /\ RootKeysAgree' /\ FirstArrivalOpens'
    BY <1>1, ZenonT(40) DEF HandshakeInv, SessionsOK, InitialMessage, AnsweredOK, RootKeysAgree, FirstArrivalOpens
<1>9. MessagesOK' /\ InitiatorOK' /\ ResponderOK'
    <2>1. CASE p = Initiator
        <3>1. PICK s \in sessions :
                 /\ r.session = s.ct.secret
                 /\ r.header = <<s.secrets>>
                 /\ r.pair \in Nat
                 /\ r.sendN \in Nat
                 /\ r.send = [base |-> FirstRoot(s), n |-> r.sendN]
                 /\ r.recv = None /\ r.skipped = << >>
            BY <1>0, <1>1, <2>1 DEF HandshakeInv, InitiatorOK
        <3>2. SentIn(s, m)
            BY <1>4, <3>1 DEF SentIn
        <3>3. MessagesOK'
            BY <1>1, <1>2, <1>4, <2>1, <3>2 DEF HandshakeInv, MessagesOK
        <3>4. a.send = [base |-> FirstRoot(s), n |-> a.sendN] /\ a.sendN \in Nat
            BY <1>6, <3>1
        <3>5. InitiatorOK'
            BY <1>1, <1>6, <1>7, <2>1, <3>1, <3>4 DEF InitiatorOK
        <3>6. ResponderOK'
            BY <1>1, <1>2, <1>7, <2>1 DEF HandshakeInv, ResponderOK
        <3> QED
            BY <3>3, <3>5, <3>6
    <2>2. CASE p = Responder
        <3>1. Stepped(r)
            <4>1. ASSUME NEW x, Begun(r, x) PROVE r.send = None
                BY <4>1 DEF Begun, InitializeResponder, NewRatchet
            <4> QED
                BY <1>0, <1>1, <2>2, <4>1 DEF HandshakeInv, ResponderOK
        <3>2. MessagesOK'
            BY <1>1, <1>2, <1>4, <2>2, <3>1 DEF HandshakeInv, MessagesOK, Stepped
        <3>3. Stepped(a)
            BY <1>6, <3>1 DEF Stepped, Assumed
        <3>4. ResponderOK'
            BY <1>7, <2>2, <3>3 DEF ResponderOK
        <3>5. InitiatorOK'
            BY <1>1, <1>2, <1>7, <2>2 DEF HandshakeInv, InitiatorOK
        <3> QED
            BY <3>2, <3>4, <3>5
    <2> QED
        BY <2>1, <2>2 DEF End
<1>10. OpenedOK'
    <2>1. ASSUME NEW k, Past(ratchet[Responder], k) PROVE Past(ratchet'[Responder], k)
        <3>1. CASE p = Responder
            <4>1. r.header # k.header /\ k.key \notin Range(r.skipped)
                  /\ (r.recv # None => ~(r.recv.base = k.key.base /\ r.recv.n <= k.key.n))
                BY <1>0, <1>1, <2>1, <3>1 DEF Past
            <4> QED
                BY <1>6, <1>7, <3>1, <4>1 DEF Past
        <3>2. CASE p # Responder
            BY <1>2, <1>7, <2>1, <3>2
        <3> QED
            BY <3>1, <3>2
    <2>2. \A k : OneTime(k)' <=> OneTime(k)
        BY <1>1 DEF OneTime
    <2>3. opened'[Responder] \in Seq({k \in net' : k.from = Initiator})
        <3> DEFINE S == {k \in net : k.from = Initiator}
                   T == {k \in net' : k.from = Initiator}
        <3>1. S \subseteq T
            BY <1>1
        <3>2. opened[Responder] \in Seq(S)
            BY DEF HandshakeInv, OpenedOK
        <3> HIDE DEF S, T
        <3>3. opened[Responder] \in Seq(T)
            BY <3>1, <3>2, Widens
        <3> QED
            BY <1>1, <3>3 DEF T
    <2> QED
        BY <1>1, <2>1, <2>2, <2>3 DEF HandshakeInv, OpenedOK
<1> QED
    BY <1>8, <1>9, <1>10 DEF HandshakeInv

\* The answers are to initial messages that were sent.
LEMMA AnsweredSessions ==
    ASSUME HandshakeInv
    PROVE  \A i \in DOMAIN answered : answered[i].initial \in sessions
<1> DEFINE S == [initial : sessions, root : Seq(Seq(Nat)), oneTimeUsed : BOOLEAN]
<1>1. answered \in Seq(S)
    BY DEF HandshakeInv, AnsweredOK
<1>2. \A x \in S : x.initial \in sessions
    OBVIOUS
<1> HIDE DEF S
<1>3. \A i \in DOMAIN answered : answered[i] \in S
    BY <1>1
<1> QED
    BY <1>2, <1>3

\* Refusing a message changes nothing else.
LEMMA Unchanged ==
    ASSUME HandshakeInv, UNCHANGED <<fresh, oneTimePreKey, sessions, answered, net, opened>>,
           ratchet'[Initiator] = ratchet[Initiator], ratchet'[Responder] = ratchet[Responder]
    PROVE  SessionsOK' /\ MessagesOK' /\ InitiatorOK' /\ ResponderOK' /\ AnsweredOK' /\ OpenedOK' /\ RootKeysAgree'
<1>1. SessionsOK' /\ MessagesOK'
    BY DEF HandshakeInv, SessionsOK, InitialMessage, MessagesOK
<1>2. InitiatorOK' /\ ResponderOK'
    BY DEF HandshakeInv, InitiatorOK, ResponderOK
<1>3. AnsweredOK' /\ RootKeysAgree'
    BY DEF HandshakeInv, AnsweredOK, RootKeysAgree
<1>4. OpenedOK'
    BY DEF HandshakeInv, OpenedOK, OneTime
<1> QED
    BY <1>1, <1>2, <1>3, <1>4

\* A message under another header key changes nothing; if it is the first that the
\* responder tries, the handshakes did not agree.
LEMMA NotOurs ==
    ASSUME Assumed, KeyInv, HandshakeInv, NEW p \in End, NEW m \in net,
           NEW ct \in {s.ct : s \in sessions} \cup {None}, Decrypt(p, m, ct),
           ratchet[p].header # m.header
    PROVE  HandshakeInv'
<1>1. /\ ratchet' = [ratchet EXCEPT ![p] = ratchet[p]]
      /\ UNCHANGED <<fresh, oneTimePreKey, sessions, answered, net, opened>>
      /\ ratchet[p] # None /\ m.from # p
      /\ \/ refused' = refused
         \/ refused' = refused \cup {Refusal(p, m)} /\ m.session = ratchet[p].session
    BY DEF Decrypt
<1>2. DOMAIN ratchet = End /\ Initiator \in End /\ Responder \in End /\ Initiator # Responder
    BY DEF KeyInv, TypeOK, End, Assumed
<1>3. ratchet'[Initiator] = ratchet[Initiator] /\ ratchet'[Responder] = ratchet[Responder]
    BY <1>1, <1>2
<1>4. SessionsOK' /\ MessagesOK' /\ InitiatorOK' /\ ResponderOK' /\ AnsweredOK' /\ OpenedOK' /\ RootKeysAgree'
    BY <1>1, <1>3, Unchanged
<1>5. ASSUME NEW x, x = Refusal(p, m), x.first, x.message.from = Initiator,
             m.session = ratchet[p].session
      PROVE  \E i \in DOMAIN answered :
                /\ answered[i].initial.ct.secret = x.message.session
                /\ answered[i].root # <<answered[i].initial.secrets>>
    <2>1. x.message = m /\ ratchet[p].recv = None
        BY <1>5 DEF Refusal
    <2>2. p = Responder
        BY <1>1, <1>5, <2>1 DEF End
    <2>3. PICK i \in DOMAIN answered : Begun(ratchet[p], answered[i])
        BY <1>1, <2>1, <2>2 DEF HandshakeInv, ResponderOK, Stepped
    <2>4. ratchet[p].header = answered[i].root /\ ratchet[p].session = answered[i].initial.ct.secret
        BY <2>3 DEF Begun, InitializeResponder, NewRatchet
    <2>5. PICK s \in sessions : SentIn(s, m)
        BY <1>5, <2>1 DEF HandshakeInv, MessagesOK
    <2>6. answered[i].initial \in sessions
        BY AnsweredSessions
    <2>7. answered[i].initial = s
        BY <1>5, <2>4, <2>5, <2>6 DEF HandshakeInv, SessionsOK, SentIn
    <2> QED
        BY <1>5, <2>1, <2>4, <2>5, <2>7 DEF SentIn
<1>6. FirstArrivalOpens'
    BY <1>1, <1>5 DEF HandshakeInv, FirstArrivalOpens
<1> QED
    BY <1>4, <1>6 DEF HandshakeInv

\* The message that opens is the first one after an answer, and whatever was opened in
\* a session with a one-time pre-key was opened in another session.
LEMMA Ours ==
    ASSUME Assumed, KeyInv, HandshakeInv, NEW p \in End, NEW m \in net,
           NEW ct \in {s.ct : s \in sessions} \cup {None}, Decrypt(p, m, ct),
           ratchet[p].header = m.header
    PROVE  HandshakeInv'
<1>0. PICK r, got, a :
        /\ r = ratchet[p]
        /\ got = GetReceivingKeys(r, m, ct, fresh)
        /\ a = got.ratchet
    OBVIOUS
<1>1. /\ ratchet' = [ratchet EXCEPT ![p] = a]
      /\ opened' = IF got.key = m.key THEN [opened EXCEPT ![p] = Append(@, m)] ELSE opened
      /\ \/ refused' = refused
         \/ /\ refused' = refused \cup {Refusal(p, m)} /\ got.key # m.key
            /\ m.session = r.session /\ ct # None /\ ct.secret = r.session
      /\ fresh' = IF a.pair = r.pair THEN fresh ELSE fresh + 2
      /\ r # None /\ m.from # p
      /\ UNCHANGED <<oneTimePreKey, sessions, answered, net>>
    BY <1>0 DEF Decrypt
<1>2. /\ fresh \in Nat /\ DOMAIN ratchet = End /\ Initiator \in End /\ Responder \in End
      /\ Initiator # Responder /\ DOMAIN opened = End
    BY DEF KeyInv, TypeOK, End, Assumed, HandshakeInv, OpenedOK
<1>3. p = Responder /\ m.from = Initiator
    <2>1. CASE p = Initiator
        <3>1. m.from = Responder
            BY <1>1, <2>1 DEF HandshakeInv, MessagesOK, End
        <3>2. Len(m.header) = 3
            BY <3>1 DEF HandshakeInv, MessagesOK
        <3>3. PICK s \in sessions : r.header = <<s.secrets>>
            BY <1>0, <1>1, <2>1 DEF HandshakeInv, InitiatorOK
        <3> QED
            BY <1>0, <3>2, <3>3, Lengths
    <2> QED
        BY <1>1, <2>1 DEF HandshakeInv, MessagesOK, End
<1>4. PICK s \in sessions : SentIn(s, m) /\ (OneTime(m) <=> s.oneTime # None)
    BY <1>3, SessionOf
<1>5. s.secrets \in Seq(Nat) /\ s.ct.secret \in Nat /\ s.ct \in Ciphertext
    BY DEF KeyInv, TypeOK, Secrets, Ciphertext
<1>6. PICK i \in DOMAIN answered : Begun(r, answered[i])
    <2>1. ~Stepped(r)
        BY <1>0, <1>4, Lengths DEF Stepped, SentIn
    <2> QED
        BY <1>0, <1>1, <1>3, <2>1 DEF HandshakeInv, ResponderOK
<1>7. PICK t \in sessions :
        /\ t = answered[i].initial
        /\ answered[i].root = <<s.secrets>>
        /\ r = InitializeResponder(<<s.secrets>>, t.ct.secret)
        /\ r.recv = None /\ r.session = t.ct.secret /\ r.skipped = << >>
        /\ t.ct.secret \in Nat
    <2>1. answered[i].initial \in sessions
        BY AnsweredSessions
    <2>2. /\ r = InitializeResponder(answered[i].root, answered[i].initial.ct.secret)
          /\ r.header = answered[i].root /\ r.recv = None /\ r.skipped = << >>
          /\ r.session = answered[i].initial.ct.secret
        BY <1>6 DEF Begun, InitializeResponder, NewRatchet
    <2>3. r.header = <<s.secrets>>
        BY <1>0, <1>4 DEF SentIn
    <2>4. answered[i].initial.ct.secret \in Nat
        BY <2>1 DEF KeyInv, TypeOK, Ciphertext
    <2> QED
        BY <2>1, <2>2, <2>3, <2>4
<1>8. ratchet'[Responder] = a /\ ratchet'[Initiator] = ratchet[Initiator]
    BY <1>1, <1>2, <1>3
<1>9. CASE ct = None
    <2>1. got = [ratchet |-> r, key |-> None]
        <3>1. <<m.pub, m.n>> \notin DOMAIN r.skipped
            BY <1>7
        <3>2. m.pub # r.remote
            BY <1>4, <1>7 DEF InitializeResponder, NewRatchet, SentIn, Assumed
        <3> QED
            BY <1>0, <1>9, <3>1, <3>2 DEF GetReceivingKeys
    <2>2. got.key # m.key
        BY <2>1 DEF KeyInv, TypeOK, Assumed
    <2>3. a = r /\ fresh' = fresh /\ opened' = opened /\ refused' = refused
        BY <1>0, <1>1, <1>9, <2>1, <2>2
    <2>4. ratchet'[Responder] = ratchet[Responder]
        BY <1>0, <1>3, <1>8, <2>3
    <2>5. FirstArrivalOpens'
        BY <1>1, <2>3 DEF HandshakeInv, FirstArrivalOpens
    <2> QED
        BY <1>1, <1>8, <2>3, <2>4, <2>5, Unchanged DEF HandshakeInv
<1>10. CASE ct # None
    <2> DEFINE base == Append(<<s.secrets>>, ct.secret)
    <2>0. PICK u \in sessions : ct = u.ct
        BY <1>10
    <2>1. ct.to = SignedPreKey /\ ct.secret \in Nat /\ m.pub \in Nat /\ m.n \in Nat
        BY <1>4, <2>0 DEF HandshakeInv, SessionsOK, InitialMessage, SentIn, KeyInv, TypeOK, Ciphertext
    <2>2. /\ Len(a.header) = 3 /\ a.recv # None /\ a.send # None
          /\ a.recv.base = base
          /\ \A k \in Range(a.skipped) : k.base = base /\ k.n < m.n
          /\ m.n <= MaxSkip => got.key = [base |-> base, n |-> m.n]
          /\ got.key # None => a.recv.n = m.n + 1 /\ got.key = [base |-> base, n |-> m.n]
        <3>1. got = GetReceivingKeys(InitializeResponder(<<s.secrets>>, t.ct.secret), m, ct, fresh)
            BY <1>0, <1>7
        <3>2. FirstOpens(got, s.secrets, ct, m)
            BY <1>2, <1>5, <1>7, <1>10, <2>1, <3>1, FirstStep
        <3> QED
            BY <1>0, <3>2 DEF FirstOpens
    <2>3. m.key = [base |-> FirstRoot(s), n |-> m.n] /\ m.key # None /\ m.key.n = m.n
        BY <1>4 DEF SentIn, KeyInv, TypeOK, Assumed
    <2>4. base[1] = s.secrets
        BY <1>5, <2>1
    <2> HIDE DEF base
    <2>5. ResponderOK' /\ InitiatorOK'
        BY <1>1, <1>8, <2>2 DEF ResponderOK, Stepped, HandshakeInv, InitiatorOK
    <2>6. SessionsOK' /\ MessagesOK' /\ AnsweredOK' /\ RootKeysAgree'
        <3>1. fresh <= fresh' /\ fresh' \in Nat
            BY <1>1, <1>2
        <3>2. \A v \in sessions : v.ct.secret \in Nat
            BY DEF KeyInv, TypeOK, Ciphertext
        <3>3. SessionsOK'
            BY <1>1, <1>2, <3>1, <3>2 DEF HandshakeInv, SessionsOK, InitialMessage
        <3> QED
            BY <1>1, <3>3 DEF HandshakeInv, MessagesOK, AnsweredOK, RootKeysAgree
    <2>7. \A k \in Range(opened[Responder]) : OneTime(k) => k.header # m.header /\ k.session # s.ct.secret /\ Past(a, k)
        <3>1. SUFFICES ASSUME NEW k \in Range(opened[Responder]), OneTime(k)
                       PROVE  k.header # m.header /\ k.session # s.ct.secret /\ Past(a, k)
            OBVIOUS
        <3>2. k \in net /\ k.from = Initiator
            BY OpenedMessages DEF HandshakeInv
        <3>3. PICK v \in sessions : SentIn(v, k)
            BY <3>2, SessionOf
        <3>4. k.header # m.header
            BY <1>0, <1>1, <1>3, <3>1 DEF HandshakeInv, OpenedOK, Past
        <3>5. v.secrets # s.secrets /\ v # s
            BY <1>4, <3>3, <3>4 DEF SentIn
        <3>6. k.session # s.ct.secret
            BY <3>3, <3>5 DEF SentIn, HandshakeInv, SessionsOK
        <3>7. k.key.base[1] = v.secrets
            <4>1. k.key.base = Append(<<v.secrets>>, v.ct.secret)
                BY <3>3 DEF SentIn, FirstRoot
            <4> QED
                BY <4>1
        <3>8. k.key.base # base
            BY <2>4, <3>5, <3>7
        <3>9. a.header # k.header
            BY <2>2, <3>3, Lengths DEF SentIn
        <3> QED
            BY <2>2, <3>4, <3>6, <3>8, <3>9 DEF Past
    <2>8. OpenedOK'
        <3>0. \A k : OneTime(k)' <=> OneTime(k)
            BY <1>1 DEF OneTime
        <3>1. CASE got.key # m.key
            BY <1>1, <1>8, <2>7, <3>0, <3>1 DEF HandshakeInv, OpenedOK
        <3>2. CASE got.key = m.key
            <4> DEFINE S == {k \in net : k.from = Initiator}
                       q == opened[Responder]
            <4>1. q \in Seq(S) /\ m \in S
                BY <1>3 DEF HandshakeInv, OpenedOK
            <4>2. opened'[Responder] = Append(q, m) /\ opened'[Initiator] = opened[Initiator] /\ DOMAIN opened' = End
                BY <1>1, <1>2, <1>3, <3>2
            <4> HIDE DEF S
            <4>3. /\ Append(q, m) \in Seq(S)
                  /\ DOMAIN Append(q, m) = 1 .. (Len(q) + 1)
                  /\ DOMAIN q = 1 .. Len(q) /\ Len(q) \in Nat
                  /\ Append(q, m)[Len(q) + 1] = m
                  /\ \A j \in DOMAIN q : Append(q, m)[j] = q[j]
                BY <4>1, Appended
            <4>4. \A j \in DOMAIN q : q[j] \in Range(q)
                BY DEF Range
            <4>5. m.session = s.ct.secret
                BY <1>4 DEF SentIn
            <4>6. \A j, l \in DOMAIN q : OneTime(q[j]) /\ q[j].session = q[l].session => j = l
                BY DEF HandshakeInv, OpenedOK
            <4>7. \A j \in DOMAIN q : (OneTime(q[j]) \/ OneTime(m)) => q[j].session # m.session
                <5>1. \A j \in DOMAIN q : OneTime(q[j]) => q[j].session # m.session
                    BY <2>7, <4>4, <4>5
                <5>2. \A j \in DOMAIN q : OneTime(m) /\ q[j].session = m.session => OneTime(q[j])
                    BY DEF OneTime
                <5> QED
                    BY <5>1, <5>2
            <4> DEFINE o == Append(q, m)
            <4>8. ASSUME NEW j \in 1 .. (Len(q) + 1), NEW l \in 1 .. (Len(q) + 1),
                         OneTime(o[j]), o[j].session = o[l].session
                  PROVE  j = l
                <5> HIDE DEF q
                <5>1. CASE j \in DOMAIN q /\ l \in DOMAIN q
                    BY <4>3, <4>6, <4>8, <5>1
                <5>2. CASE j = Len(q) + 1 /\ l \in DOMAIN q
                    BY <4>3, <4>7, <4>8, <5>2
                <5>3. CASE j \in DOMAIN q /\ l = Len(q) + 1
                    BY <4>3, <4>7, <4>8, <5>3
                <5> QED
                    BY <4>3, <5>1, <5>2, <5>3
            <4>9. Range(o) = Range(q) \cup {m}
                <5> HIDE DEF q
                <5> QED
                    BY <4>3 DEF Range
            <4>10. OneTime(m) => \A v \in sessions : v.ct.secret = m.session => v.oneTime \notin oneTimePreKey
                <5>1. SUFFICES ASSUME OneTime(m) PROVE s.oneTime \notin oneTimePreKey
                    BY <4>5 DEF HandshakeInv, SessionsOK
                <5>2. Len(s.secrets) = 3
                    BY <1>4, <5>1 DEF HandshakeInv, SessionsOK, InitialMessage
                <5>3. answered[i].root \in {<<t.secrets>>, <<SubSeq(t.secrets, 1, 2)>>} /\ t.oneTime \notin oneTimePreKey
                    BY <1>7 DEF HandshakeInv, AnsweredOK
                <5>4. <<s.secrets>> # <<SubSeq(t.secrets, 1, 2)>>
                    <6>1. t.secrets \in Seq(Nat) /\ Len(t.secrets) >= 2
                        BY DEF KeyInv, TypeOK, Secrets
                    <6>2. Len(SubSeq(t.secrets, 1, 2)) = 2
                        BY <6>1
                    <6>3. s.secrets # SubSeq(t.secrets, 1, 2)
                        BY ONLY <5>2, <6>2
                    <6> QED
                        BY <6>3, Lengths
                <5>5. s.secrets = t.secrets
                    BY <1>7, <5>3, <5>4, Lengths
                <5>6. s.ct.secret = t.ct.secret
                    BY <5>5 DEF HandshakeInv, SessionsOK, InitialMessage
                <5> QED
                    BY <5>3, <5>6 DEF HandshakeInv, SessionsOK
            <4>11. Past(a, m)
                <5>1. a.header # m.header
                    BY <1>4, <2>2, Lengths DEF SentIn
                <5>2. got.key # None
                    BY <2>3, <3>2
                <5>3. m.key \notin Range(a.skipped) /\ ~(a.recv.n <= m.key.n)
                    BY <2>1, <2>2, <2>3, <5>2
                <5> QED
                    BY <5>1, <5>3 DEF Past
            <4>12. /\ \A j, l \in DOMAIN opened'[Responder] :
                         OneTime(opened'[Responder][j]) /\ opened'[Responder][j].session = opened'[Responder][l].session => j = l
                   /\ \A k \in Range(opened'[Responder]) : OneTime(k) =>
                         /\ \A v \in sessions : v.ct.secret = k.session => v.oneTime \notin oneTimePreKey
                         /\ Past(a, k)
                BY <2>7, <4>2, <4>3, <4>8, <4>9, <4>10, <4>11 DEF HandshakeInv, OpenedOK
            <4>13. opened'[Responder] \in Seq({k \in net' : k.from = Initiator})
                BY <1>1, <4>2, <4>3 DEF S
            <4>14. opened'[Initiator] = << >>
                BY <4>2 DEF HandshakeInv, OpenedOK
            <4> QED
                BY <1>1, <1>8, <3>0, <4>2, <4>12, <4>13, <4>14 DEF OpenedOK
        <3> QED
            BY <3>1, <3>2
    <2>9. FirstArrivalOpens'
        <3>1. ASSUME NEW x, x = Refusal(p, m), x.message.n <= MaxSkip, got.key # m.key,
                     m.session = r.session, ct.secret = r.session
              PROVE  FALSE
            <4>1. got.key = [base |-> base, n |-> m.n]
                BY <2>2, <3>1 DEF Refusal
            <4>2. s.ct.secret = ct.secret
                BY <1>4, <3>1 DEF SentIn
            <4>3. base = FirstRoot(s)
                BY <4>2 DEF base, FirstRoot
            <4> QED
                BY <2>3, <3>1, <4>1, <4>3
        <3> QED
            BY <1>1, <3>1 DEF HandshakeInv, FirstArrivalOpens
    <2> QED
        BY <2>5, <2>6, <2>8, <2>9 DEF HandshakeInv
<1> QED
    BY <1>9, <1>10

\* Every step keeps the handshakes' story.
LEMMA HandshakesKept ==
    ASSUME Assumed
    PROVE  Spec => [](KeyInv /\ HandshakeInv)
<1>1. Init => HandshakeInv
    <2> SUFFICES ASSUME Init PROVE HandshakeInv
        OBVIOUS
    <2>1. /\ sessions = {} /\ answered = << >> /\ net = {} /\ refused = {}
          /\ oneTimePreKey = 1 .. MaxSessions
          /\ ratchet[Initiator] = None /\ ratchet[Responder] = None
          /\ DOMAIN opened = End /\ opened[Initiator] = << >> /\ opened[Responder] = << >>
        BY DEF Init, End
    <2>2. SessionsOK /\ MessagesOK /\ InitiatorOK /\ ResponderOK /\ FirstArrivalOpens
        BY <2>1 DEF SessionsOK, MessagesOK, InitiatorOK, ResponderOK, FirstArrivalOpens
    <2>3. AnsweredOK /\ RootKeysAgree
        BY <2>1 DEF AnsweredOK, RootKeysAgree
    <2>4. OpenedOK
        BY <2>1 DEF OpenedOK, Range
    <2> QED
        BY <2>2, <2>3, <2>4 DEF HandshakeInv
<1>2. KeyInv /\ HandshakeInv /\ [Next]_vars => HandshakeInv'
    <2> SUFFICES ASSUME KeyInv, HandshakeInv, [Next]_vars PROVE HandshakeInv'
        OBVIOUS
    <2>1. ASSUME NEW otk \in (1 .. MaxSessions) \cup {None}, InitiateSession(otk) PROVE HandshakeInv'
        BY <2>1, Initiating
    <2>2. ASSUME NEW m \in sessions, RespondToSession(m) PROVE HandshakeInv'
        BY <2>2, Responding
    <2>3. ASSUME NEW p \in End, Encrypt(p) PROVE HandshakeInv'
        BY <2>3, Encrypting
    <2>4. ASSUME NEW p \in End, NEW m \in net, NEW ct \in {s.ct : s \in sessions} \cup {None},
                 Decrypt(p, m, ct)
          PROVE  HandshakeInv'
        BY <2>4, NotOurs, Ours
    <2>5. CASE UNCHANGED vars
        <3>1. FirstArrivalOpens'
            BY <2>5 DEF vars, HandshakeInv, FirstArrivalOpens
        <3> QED
            BY <2>5, <3>1, Unchanged DEF vars, HandshakeInv
    <2> QED
        BY <2>1, <2>2, <2>3, <2>4, <2>5 DEF Next
<1> QED
    BY <1>1, <1>2, KeysKept, PTL DEF Spec

\* However often initial messages are repeated, a handshake misses the root key only
\* when an earlier answer took its one-time pre-key; and a responder that has it opens
\* whichever message is the first to arrive.
THEOREM HandshakesAgree ==
    ASSUME Assumed
    PROVE  Spec => [](RootKeysAgree /\ FirstArrivalOpens)
<1>1. HandshakeInv => RootKeysAgree /\ FirstArrivalOpens
    BY DEF HandshakeInv
<1> QED
    BY <1>1, HandshakesKept, PTL

\* In a session with a one-time pre-key no message is opened twice, although the
\* network repeats initial messages and sealed ones.
THEOREM OpensOnce ==
    ASSUME Assumed
    PROVE  Spec => []OpenedOnce
<1>1. KeyInv /\ HandshakeInv => OpenedOnce
    <2> SUFFICES ASSUME HandshakeInv, NEW p \in End, NEW i \in DOMAIN opened[p], NEW j \in DOMAIN opened[p],
                        OneTime(opened[p][i]), opened[p][i] = opened[p][j]
                 PROVE  i = j
        BY DEF OpenedOnce
    <2>1. opened[Initiator] = << >> /\ DOMAIN << >> = {}
        BY DEF HandshakeInv, OpenedOK
    <2>2. p = Responder
        BY <2>1 DEF End
    <2> QED
        BY <2>2 DEF HandshakeInv, OpenedOK
<1> QED
    BY <1>1, HandshakesKept, PTL

\* In a session with a one-time pre-key neither end can derive the key of an opened
\* message again.
THEOREM ErasedKeysAreGone ==
    ASSUME Assumed
    PROVE  Spec => []ForwardSecrecy
<1>1. KeyInv /\ HandshakeInv => ForwardSecrecy
    <2> SUFFICES ASSUME KeyInv, HandshakeInv, NEW p \in End, NEW m \in Range(opened[p]), OneTime(m),
                        NEW q \in End, Derivable(ratchet[q], m.key)
                 PROVE  FALSE
        BY DEF ForwardSecrecy
    <2>1. p = Responder
        <3>1. opened[Initiator] = << >> /\ Range(<< >>) = {}
            BY DEF HandshakeInv, OpenedOK, Range
        <3> QED
            BY <3>1 DEF End
    <2>2. m \in net /\ ratchet[q] # None
        BY <2>1, OpenedMessages DEF HandshakeInv, Derivable
    <2>3. m.key.n \in Nat
        BY <2>2 DEF KeyInv, TypeOK, ChainKey
    <2>4. ASSUME ratchet[q].send # None, ratchet[q].send.base = m.key.base, ratchet[q].send.n <= m.key.n
          PROVE  FALSE
        <3>1. m.key.n < ratchet[q].send.n
            BY <2>2, <2>4 DEF KeyInv, Sends, SentBy
        <3>2. ratchet[q].send.n \in Nat
            BY <2>2, <2>4 DEF KeyInv, TypeOK, IsRatchet, ChainKey
        <3> QED
            BY <2>3, <2>4, <3>1, <3>2
    <2>5. CASE q = Initiator
        <3>1. ratchet[q].recv = None /\ ratchet[q].skipped = << >>
            BY <2>2, <2>5 DEF HandshakeInv, InitiatorOK
        <3>2. Range(<< >>) = {}
            BY DEF Range
        <3> QED
            BY <2>4, <3>1, <3>2 DEF Derivable
    <2>6. CASE q = Responder
        <3>1. Past(ratchet[q], m)
            BY <2>1, <2>6 DEF HandshakeInv, OpenedOK
        <3> QED
            BY <2>2, <2>4, <3>1 DEF Derivable, Past
    <2> QED
        BY <2>5, <2>6 DEF End
<1> QED
    BY <1>1, HandshakesKept, PTL

=============================================================================
