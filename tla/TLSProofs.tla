------------------------------ MODULE TLSProofs ------------------------------
(***************************************************************************)
(* The proofs about TLSHandshake, for any clients and servers, groups,     *)
(* suites and pre-shared keys.                                             *)
(***************************************************************************)
EXTENDS TLSHandshake, TLAPS

-----------------------------------------------------------------------------
(* Sequences.                                                              *)

\* A prefix, place by place.
LEMMA PrefixByPlace ==
    ASSUME NEW S, NEW s \in Seq(S), NEW t \in Seq(S)
    PROVE  IsPrefix(s, t) <=> Len(s) <= Len(t) /\ \A i \in 1 .. Len(s) : s[i] = t[i]
<1>1. CASE Len(s) <= Len(t)
    <2>1. SubSeq(s, 1, Len(s)) = [i \in 1 .. Len(s) |-> s[i]]
        OBVIOUS
    <2>2. SubSeq(t, 1, Len(s)) = [i \in 1 .. Len(s) |-> t[i]]
        BY <1>1
    <2> QED
        BY <1>1, <2>1, <2>2 DEF IsPrefix
<1> QED
    BY <1>1 DEF IsPrefix

\* What is in front of the last element, and the last element.
LEMMA Fronts ==
    ASSUME NEW S, NEW s \in Seq(S), NEW x \in S
    PROVE  /\ Append(s, x) \in Seq(S)
           /\ Front(Append(s, x)) = s
           /\ Last(Append(s, x)) = x
           /\ IsPrefix(s, Append(s, x))
<1> DEFINE a == Append(s, x)
<1>1. a \in Seq(S) /\ Len(a) = Len(s) + 1 /\ a[Len(s) + 1] = x /\ \A i \in 1 .. Len(s) : a[i] = s[i]
    OBVIOUS
<1>2. Front(a) = s
    <2>1. Front(a) = [i \in 1 .. Len(s) |-> a[i]]
        BY <1>1 DEF Front
    <2>2. s = [i \in 1 .. Len(s) |-> s[i]]
        OBVIOUS
    <2> HIDE DEF a
    <2> QED
        BY <1>1, <2>1, <2>2
<1>3. Last(a) = x
    BY <1>1 DEF Last
<1> HIDE DEF a
<1>4. IsPrefix(s, a)
    BY <1>1, PrefixByPlace
<1> QED
    BY <1>1, <1>2, <1>3, <1>4 DEF a

\* What a prefix shares with the sequence.
LEMMA Pieces ==
    ASSUME NEW S, NEW s \in Seq(S), NEW t \in Seq(S), IsPrefix(s, t)
    PROVE  /\ Len(s) <= Len(t)
           /\ SubSeq(t, 1, Len(s)) = s
           /\ \A i \in 1 .. Len(s) : t[i] = s[i] /\ SubSeq(t, 1, i) = SubSeq(s, 1, i)
<1>1. Len(s) <= Len(t) /\ \A i \in 1 .. Len(s) : s[i] = t[i]
    BY PrefixByPlace
<1>2. ASSUME NEW i \in 0 .. Len(s) PROVE SubSeq(t, 1, i) = SubSeq(s, 1, i)
    <2>1. SubSeq(s, 1, i) = [j \in 1 .. i |-> s[j]]
        OBVIOUS
    <2>2. SubSeq(t, 1, i) = [j \in 1 .. i |-> t[j]]
        BY <1>1
    <2> QED
        BY <1>1, <2>1, <2>2
<1>3. SubSeq(s, 1, Len(s)) = s
    OBVIOUS
<1> QED
    BY <1>1, <1>2, <1>3

LEMMA PrefixOfPrefix ==
    ASSUME NEW S, NEW s \in Seq(S), NEW t \in Seq(S), NEW u \in Seq(S), IsPrefix(s, t), IsPrefix(t, u)
    PROVE  IsPrefix(s, u)
<1>1. Len(s) <= Len(t) /\ \A i \in 1 .. Len(s) : s[i] = t[i]
    BY PrefixByPlace
<1>2. Len(t) <= Len(u) /\ \A i \in 1 .. Len(t) : t[i] = u[i]
    BY PrefixByPlace
<1>3. Len(s) \in Nat /\ Len(t) \in Nat /\ Len(u) \in Nat
    OBVIOUS
<1> QED
    BY <1>1, <1>2, <1>3, PrefixByPlace

\* What a sequence that does not end is taken apart into.
LEMMA Ends ==
    ASSUME NEW S, NEW t \in Seq(S), t # << >>
    PROVE  /\ Last(t) = t[Len(t)]
           /\ Last(t) \in S
           /\ Front(t) \in Seq(S)
           /\ Len(Front(t)) = Len(t) - 1
           /\ IsPrefix(Front(t), t)
           /\ t = Append(Front(t), Last(t))
<1>1. Len(t) \in Nat /\ Len(t) >= 1 /\ t[Len(t)] \in S
    OBVIOUS
<1> DEFINE f == [i \in 1 .. Len(t) - 1 |-> t[i]]
<1>2. Front(t) = f
    BY <1>1 DEF Front
<1>3. f \in Seq(S) /\ Len(f) = Len(t) - 1 /\ \A i \in 1 .. Len(f) : f[i] = t[i]
    BY <1>1
<1> HIDE DEF f
<1>4. IsPrefix(f, t)
    BY <1>1, <1>3, PrefixByPlace
<1>5. t = Append(f, t[Len(t)])
    BY <1>1, <1>3
<1> QED
    BY <1>1, <1>2, <1>3, <1>4, <1>5 DEF Last

-----------------------------------------------------------------------------
(* What the variables hold.                                                *)

Fields == {"state", "transcript", "early", "secret", "group", "suite", "cipher",
           "auths", "updates"}

IsConnection(c) ==
    /\ DOMAIN c = Fields
    /\ DOMAIN c.cipher = Level
    /\ c.transcript \in Seq(net)
    /\ c.auths \in Nat /\ c.updates \in Nat

\* Transcripts are made of messages that were sent, and opened records were sealed.
TypeOK ==
    /\ DOMAIN conn = Endpoint
    /\ \A e \in Endpoint : IsConnection(conn[e])
    /\ DOMAIN finished = Server
    /\ \A s \in Server : finished[s] # None => finished[s] \in net
    /\ DOMAIN opened = Endpoint
    /\ \A e \in Endpoint : opened[e] \in Seq(records)

\* A connection may be replaced, and messages and records added.
LEMMA Typing ==
    ASSUME TypeOK, NEW e \in Endpoint, DOMAIN conn' = Endpoint, net \subseteq net',
           records \subseteq records', finished' = finished, opened' = opened,
           IsConnection(conn[e])', \A o \in Endpoint \ {e} : conn'[o] = conn[o]
    PROVE  TypeOK'
<1>1. \A x : x \in Seq(net) => x \in Seq(net')
    OBVIOUS
<1>2. \A x : x \in Seq(records) => x \in Seq(records')
    OBVIOUS
<1>3. ASSUME NEW o \in Endpoint PROVE IsConnection(conn[o])'
    <2>1. CASE o = e
        BY <2>1
    <2>2. CASE o # e
        <3>1. conn'[o] = conn[o] /\ IsConnection(conn[o])
            BY <2>2 DEF TypeOK
        <3> QED
            BY <1>1, <3>1 DEF IsConnection
    <2> QED
        BY <2>1, <2>2
<1>4. \A o \in Endpoint : opened'[o] \in Seq(records')
    BY <1>2 DEF TypeOK
<1> QED
    BY <1>3, <1>4 DEF TypeOK

\* Every step keeps the types.
LEMMA TypeStep == ASSUME TypeOK, [Next]_vars PROVE TypeOK'
<1> USE DEF TypeOK, IsConnection, Fields, Level
<1>1. ASSUME NEW c \in Client, ClientHello(c) PROVE TypeOK'
    <2>1. c \in Endpoint
        BY DEF Endpoint
    <2> QED
        BY <1>1, <2>1, Typing, SMTT(30) DEF ClientHello
<1>2. ASSUME NEW s \in Server, NEW m \in net, ServerProcessClientHello(s, m) PROVE TypeOK'
    <2>1. s \in Endpoint
        BY DEF Endpoint
    <2> DEFINE t == Append(conn[s].transcript, m)
               g == Greeted(s, m)
               h == ServerHello(s, m, g.group, g.suite)
    <2>2. DOMAIN g = Fields /\ DOMAIN g.cipher = Level /\ g.transcript = t /\ g.auths \in Nat /\ g.updates \in Nat
        BY <2>1 DEF Greeted
    <2>3. net' = net \cup {h} /\ t \in Seq(net')
        BY <1>2, <2>1 DEF ServerProcessClientHello
    <2> HIDE DEF g, h, t
    <2>4. Append(t, h) \in Seq(net')
        BY <2>3
    <2>5. IsConnection(conn[s])' /\ \A o \in Endpoint \ {s} : conn'[o] = conn[o]
        BY <1>2, <2>1, <2>2, <2>4 DEF ServerProcessClientHello, g, h
    <2> QED
        BY <1>2, <2>1, <2>3, <2>5, Typing DEF ServerProcessClientHello
<1>3. ASSUME NEW s \in Server, NEW m \in net, NoMatchingKeyShare(s, m) PROVE TypeOK'
    <2>1. s \in Endpoint
        BY DEF Endpoint
    <2> QED
        BY <1>3, <2>1, Typing DEF NoMatchingKeyShare, Greeted
<1>4. ASSUME NEW c \in Client, NEW m \in net, ProcessServerHello(c, m) PROVE TypeOK'
    <2>1. c \in Endpoint
        BY DEF Endpoint
    <2> QED
        BY <1>4, <2>1, Typing DEF ProcessServerHello
<1>5. ASSUME NEW s \in Server, ServerGenerateAuth(s) PROVE TypeOK'
    <2>1. s \in Endpoint
        BY DEF Endpoint
    <2>2. PICK cert, verify, last : /\ net' = net \cup {cert, verify, last}
                                    /\ finished' = [finished EXCEPT ![s] = last]
                                    /\ conn' = [conn EXCEPT ![s].auths = conn[s].auths + 1,
                                                           ![s].transcript = conn[s].transcript \o <<cert, verify>>]
                                    /\ UNCHANGED <<records, opened>>
        BY <1>5 DEF ServerGenerateAuth
    <2>3. conn[s].transcript \o <<cert, verify>> \in Seq(net')
        BY <2>1, <2>2
    <2>4. \A x : x \in Seq(net) => x \in Seq(net')
        BY <2>2
    <2>5. /\ IsConnection(conn[s])'
          /\ DOMAIN conn' = Endpoint
          /\ \A o \in Endpoint \ {s} : conn'[o] = conn[o]
        BY <2>1, <2>2, <2>3
    <2>6. \A o \in Endpoint : IsConnection(conn[o])'
        <3>1. \A o \in Endpoint \ {s} : IsConnection(conn[o])'
            BY <2>4, <2>5
        <3> QED
            BY <2>5, <3>1
    <2> HIDE DEF IsConnection
    <2> QED
        BY <2>1, <2>2, <2>4, <2>5, <2>6
<1>6. ASSUME NEW c \in Client, NEW m \in net, NEW ok \in BOOLEAN, ProcessCertificate(c, m, ok) PROVE TypeOK'
    <2>1. c \in Endpoint
        BY DEF Endpoint
    <2> QED
        BY <1>6, <2>1, Typing DEF ProcessCertificate
<1>7. ASSUME NEW c \in Client, NEW m \in net, ProcessCertificateVerify(c, m) PROVE TypeOK'
    <2>1. c \in Endpoint
        BY DEF Endpoint
    <2> QED
        BY <1>7, <2>1, Typing DEF ProcessCertificateVerify
<1>8. ASSUME NEW c \in Client, NEW m \in net, ClientProcessFinished(c, m) PROVE TypeOK'
    <2>1. c \in Endpoint
        BY DEF Endpoint
    <2>2. IsConnection(conn[c])'
        <3>1. conn'[c] = Connected(c, conn[c], m) /\ net \subseteq net'
            BY <1>8, <2>1 DEF ClientProcessFinished
        <3>2. Append(conn[c].transcript, m) \in Seq(net')
            BY <2>1, <3>1
        <3> QED
            BY <2>1, <3>1, <3>2 DEF Connected
    <2> QED
        BY <1>8, <2>1, <2>2, Typing DEF ClientProcessFinished
<1>9. ASSUME NEW s \in Server, NEW m \in net, ServerProcessFinished(s, m) PROVE TypeOK'
    <2>1. s \in Endpoint
        BY DEF Endpoint
    <2>2. IsConnection(conn[s])'
        <3> DEFINE connection == [conn[s] EXCEPT !.transcript = Append(@, finished[s])]
        <3>1. IsConnection(connection)
            BY <1>9, <2>1 DEF ServerProcessFinished
        <3>2. conn'[s] \in {connection, Connected(s, connection, m)} /\ net' = net
            BY <1>9, <2>1 DEF ServerProcessFinished
        <3> HIDE DEF connection
        <3>3. IsConnection(Connected(s, connection, m))
            BY <3>1 DEF Connected
        <3> QED
            BY <3>1, <3>2, <3>3
    <2> QED
        BY <1>9, <2>1, <2>2, Typing DEF ServerProcessFinished
<1>10. ASSUME NEW e \in Endpoint, NEW l \in Level, Encrypt(e, l) PROVE TypeOK'
    BY <1>10, Typing DEF Encrypt
<1>11. ASSUME NEW e \in Endpoint, NEW l \in Level, NEW r \in records, Decrypt(e, l, r) PROVE TypeOK'
    BY <1>11 DEF Decrypt
<1>12. ASSUME NEW e \in Endpoint, KeyUpdate(e) PROVE TypeOK'
    BY <1>12, Typing DEF KeyUpdate
<1>13. ASSUME NEW e \in Endpoint, Close(e) PROVE TypeOK'
    <2>1. CASE conn[e].cipher["application"] = None
        <3>1. conn' = [conn EXCEPT ![e].state = "closed"] /\ UNCHANGED <<records, net, finished, opened>>
            BY <1>13, <2>1 DEF Close
        <3> QED
            BY <3>1, Typing
    <2>2. CASE conn[e].cipher["application"] # None
        <3>1. /\ conn' = [conn EXCEPT ![e].state = "closed", ![e].cipher["application"].seq = @ + 1]
              /\ records \subseteq records'
              /\ UNCHANGED <<net, finished, opened>>
            BY <1>13, <2>2 DEF Close
        <3> QED
            BY <3>1, Typing
    <2> QED
        BY <2>1, <2>2
<1>14. CASE UNCHANGED vars
    BY <1>14 DEF vars
<1> HIDE DEF TypeOK, IsConnection, Fields, Level
<1> QED
    BY <1>1, <1>2, <1>3, <1>4, <1>5, <1>6, <1>7, <1>8, <1>9, <1>10, <1>11, <1>12, <1>13, <1>14
    DEF Next, Receive
-----------------------------------------------------------------------------
(* Secrets and keys: what a step may do with those of one connection.      *)

Early == {"initial", "wait_server_hello"}
Keyed == {"wait_encrypted_extensions", "wait_certificate_verify", "wait_finished", "connected"}

\* A key exchange has the connection at its own side.
Mine(e, shared) == IF e \in Server THEN shared.server = e ELSE shared.client = e

\* It leaves them alone,
Goes(e) ==
    /\ conn'[e].cipher = conn[e].cipher
    /\ conn'[e].secret = conn[e].secret
    /\ conn'[e].state \in Early => conn[e].state \in Early
    /\ conn'[e].state \in Keyed => conn[e].state \in Keyed
    /\ conn'[e].state = "connected" => conn[e].state = "connected"
    /\ conn[e].state \in {"connected", "closed"} => conn'[e].state \in {"connected", "closed"}
    /\ UNCHANGED <<records, opened>>

\* sets up the handshake's after a hello,
Hears(e) ==
    /\ conn[e].state \in Early
    /\ conn'[e].state \in Keyed \ {"connected"}
    /\ \E early, shared, t :
         /\ Mine(e, shared)
         /\ conn'[e].secret = HandshakeSecret(early, shared, t)
    /\ conn'[e].cipher = [conn[e].cipher EXCEPT !["handshake"] =
         AEADCipher(HandshakeKey(Role(e), conn'[e].secret), HandshakeKey(Peer(e), conn'[e].secret))]
    /\ UNCHANGED <<records, opened>>

\* sets up the application's after the other side's Finished,
Finishes(e) ==
    /\ conn[e].state = "wait_finished"
    /\ conn'[e].state = "connected"
    /\ conn'[e].secret = conn[e].secret
    /\ Last(conn'[e].transcript).verifyData.key.role = Peer(e)
    /\ conn'[e].cipher = [conn[e].cipher EXCEPT !["application"] =
         AEADCipher(ApplicationKey(Role(e), conn[e].secret, conn'[e].transcript),
                    ApplicationKey(Peer(e), conn[e].secret, conn'[e].transcript))]
    /\ UNCHANGED <<records, opened>>

\* goes on to the next key for data,
Updates(e) ==
    /\ conn[e].state = "connected"
    /\ conn'[e].state = "connected"
    /\ conn'[e].secret = conn[e].secret
    /\ conn'[e].cipher = [conn[e].cipher EXCEPT !["application"] =
         AEADCipher(UpdateTrafficSecret(@.write), @.read)]
    /\ UNCHANGED <<records, opened>>

\* or counts: a record is sealed or opened.
Counts(e, l) ==
    /\ conn[e].cipher[l] # None
    /\ conn'[e].cipher = [conn[e].cipher EXCEPT ![l].seq = @ + 1]
    /\ conn'[e].secret = conn[e].secret
    /\ \/ conn'[e].state = conn[e].state
       \/ conn'[e].state = "closed" /\ conn[e].cipher["application"] # None

Seals(e, l) ==
    /\ Counts(e, l)
    /\ records' = records \cup {Sealed(e, l)}
    /\ UNCHANGED opened

Opens(e, l, r) ==
    /\ Counts(e, l)
    /\ r.key = conn[e].cipher[l].read
    /\ r.seq = conn[e].cipher[l].seq
    /\ opened' = [opened EXCEPT ![e] = Append(@, r)]
    /\ UNCHANGED records

KeyStep(e) ==
    /\ \A o \in Endpoint \ {e} : conn'[o] = conn[o]
    /\ \/ Goes(e) \/ Hears(e) \/ Finishes(e) \/ Updates(e)
       \/ \E l \in Level : Seals(e, l) \/ \E r \in records : Opens(e, l, r)

\* There is no other step.
LEMMA KeySteps ==
    ASSUME Assumed, TypeOK, Next
    PROVE  \E e \in Endpoint : KeyStep(e)
<1> USE DEF TypeOK, IsConnection, Fields
<1>0. Client \subseteq Endpoint /\ Server \subseteq Endpoint /\ \A c \in Client : c \notin Server
    BY DEF Assumed, Endpoint
<1>1. ASSUME NEW c \in Client, ClientHello(c) PROVE KeyStep(c)
    <2>1. Goes(c)
        BY <1>0, <1>1 DEF ClientHello, Goes, Early, Keyed
    <2> QED
        BY <1>0, <1>1, <2>1 DEF KeyStep, ClientHello
<1>2. ASSUME NEW s \in Server, NEW m \in net, ServerProcessClientHello(s, m) PROVE KeyStep(s)
    <2> DEFINE t == Append(conn[s].transcript, m)
               g == Greeted(s, m)
               h == ServerHello(s, m, g.group, g.suite)
               shared == Shared(g.group, s, m.client)
               x == HandshakeSecret(g.early, shared, Append(g.transcript, h))
    <2>1. DOMAIN g = Fields /\ g.cipher = conn[s].cipher
        BY <1>0 DEF Greeted
    <2>2. Mine(s, shared)
        BY DEF Mine, Shared
    <2> HIDE DEF shared, g, h
    <2>3. /\ conn'[s].secret = x
          /\ conn'[s].state = "wait_finished"
          /\ conn'[s].cipher = [conn[s].cipher EXCEPT !["handshake"] = HandshakeCipher(s, x)]
          /\ conn[s].state = "initial"
          /\ UNCHANGED <<records, opened>>
          /\ \A o \in Endpoint \ {s} : conn'[o] = conn[o]
        BY <1>0, <1>2, <2>1 DEF ServerProcessClientHello, g, h, shared, Level
    <2>4. HandshakeCipher(s, x) = AEADCipher(HandshakeKey(Role(s), x), HandshakeKey(Peer(s), x))
        BY DEF HandshakeCipher, CipherOf
    <2>5. Hears(s)
        BY <2>2, <2>3, <2>4 DEF Hears, Early, Keyed
    <2> QED
        BY <2>3, <2>5 DEF KeyStep
<1>3. ASSUME NEW s \in Server, NEW m \in net, NoMatchingKeyShare(s, m) PROVE KeyStep(s)
    <2>1. Goes(s)
        BY <1>0, <1>3 DEF NoMatchingKeyShare, Greeted, Goes, Early, Keyed
    <2> QED
        BY <1>0, <1>3, <2>1 DEF KeyStep, NoMatchingKeyShare
<1>4. ASSUME NEW c \in Client, NEW m \in net, ProcessServerHello(c, m) PROVE KeyStep(c)
    <2> DEFINE t == Append(conn[c].transcript, m)
               shared == Shared(m.group, m.server, c)
               x == HandshakeSecret(conn[c].early, shared, t)
    <2>1. Mine(c, shared)
        BY <1>0 DEF Mine, Shared
    <2>2. HandshakeCipher(c, x) = AEADCipher(HandshakeKey(Role(c), x), HandshakeKey(Peer(c), x))
        BY DEF HandshakeCipher, CipherOf
    <2>3. CASE HasKeyPairs(c, m.group)
        <3>1. /\ conn'[c].secret = x
              /\ conn'[c].state = "wait_encrypted_extensions"
              /\ conn'[c].cipher = [conn[c].cipher EXCEPT !["handshake"] = HandshakeCipher(c, x)]
              /\ conn[c].state = "wait_server_hello"
              /\ UNCHANGED <<records, opened>>
              /\ \A o \in Endpoint \ {c} : conn'[o] = conn[o]
            BY <1>0, <1>4, <2>3 DEF ProcessServerHello, Level
        <3> HIDE DEF shared
        <3>2. Hears(c)
            BY <2>1, <2>2, <3>1 DEF Hears, Early, Keyed
        <3> QED
            BY <3>1, <3>2 DEF KeyStep
    <2>4. CASE ~HasKeyPairs(c, m.group)
        <3>1. Goes(c)
            BY <1>0, <1>4, <2>4 DEF ProcessServerHello, Goes, Early, Keyed
        <3> QED
            BY <1>0, <1>4, <3>1 DEF KeyStep, ProcessServerHello
    <2> QED
        BY <2>3, <2>4
<1>5. ASSUME NEW s \in Server, ServerGenerateAuth(s) PROVE KeyStep(s)
    <2>1. Goes(s)
        BY <1>0, <1>5 DEF ServerGenerateAuth, Goes, Early, Keyed
    <2> QED
        BY <1>0, <1>5, <2>1 DEF KeyStep, ServerGenerateAuth
<1>6. ASSUME NEW c \in Client, NEW m \in net, NEW ok \in BOOLEAN, ProcessCertificate(c, m, ok) PROVE KeyStep(c)
    <2>1. Goes(c)
        BY <1>0, <1>6 DEF ProcessCertificate, Goes, Early, Keyed
    <2> QED
        BY <1>0, <1>6, <2>1 DEF KeyStep, ProcessCertificate
<1>7. ASSUME NEW c \in Client, NEW m \in net, ProcessCertificateVerify(c, m) PROVE KeyStep(c)
    <2>1. Goes(c)
        BY <1>0, <1>7 DEF ProcessCertificateVerify, Goes, Early, Keyed
    <2> QED
        BY <1>0, <1>7, <2>1 DEF KeyStep, ProcessCertificateVerify
<1>8. ASSUME NEW e \in Endpoint, NEW a, NEW m, conn[e].state = "wait_finished",
             DOMAIN a = Fields, DOMAIN a.cipher = Level, a.transcript \in Seq(net), m \in net,
             a.secret = conn[e].secret, a.cipher = conn[e].cipher,
             Accepts(a, Peer(e), m), conn' = [conn EXCEPT ![e] = Connected(e, a, m)],
             UNCHANGED <<records, opened>>
      PROVE  KeyStep(e)
    <2> DEFINE t == Append(a.transcript, m)
    <2>1. Last(t) = m
        BY <1>8, Fronts
    <2>2. m.verifyData.key.role = Peer(e)
        BY <1>8 DEF Accepts, FinishedData, HandshakeKey
    <2> HIDE DEF t
    <2>3. /\ conn'[e].state = "connected"
          /\ conn'[e].transcript = t
          /\ conn'[e].secret = conn[e].secret
          /\ conn'[e].cipher = [conn[e].cipher EXCEPT !["application"] =
                CipherOf(e, LAMBDA role : ApplicationKey(role, a.secret, t))]
          /\ \A o \in Endpoint \ {e} : conn'[o] = conn[o]
        BY <1>8 DEF Connected, Level, t
    <2>4. CipherOf(e, LAMBDA role : ApplicationKey(role, a.secret, t))
            = AEADCipher(ApplicationKey(Role(e), a.secret, t), ApplicationKey(Peer(e), a.secret, t))
        BY DEF CipherOf
    <2>5. Finishes(e)
        BY <1>8, <2>1, <2>2, <2>3, <2>4, ZenonT(40) DEF Finishes
    <2> QED
        BY <2>3, <2>5 DEF KeyStep
<1>9. ASSUME NEW c \in Client, NEW m \in net, ClientProcessFinished(c, m) PROVE KeyStep(c)
    <2>1. Peer(c) = "server"
        BY <1>0 DEF Peer
    <2>2. PICK a : a = conn[c]
        OBVIOUS
    <2>3. /\ Accepts(a, "server", m)
          /\ conn[c].state = "wait_finished"
          /\ conn' = [conn EXCEPT ![c] = Connected(c, a, m)]
          /\ UNCHANGED <<records, opened>>
        BY <1>9, <2>2 DEF ClientProcessFinished
    <2> QED
        <3>1. /\ c \in Endpoint /\ DOMAIN a = Fields /\ DOMAIN a.cipher = Level
              /\ a.transcript \in Seq(net) /\ m \in net
              /\ a.secret = conn[c].secret /\ a.cipher = conn[c].cipher
              /\ Accepts(a, Peer(c), m)
            BY <1>0, <2>1, <2>2, <2>3
        <3> HIDE DEF TypeOK, IsConnection, Fields
        <3> QED
            BY <1>8, <2>3, <3>1
<1>10. ASSUME NEW s \in Server, NEW m \in net, ServerProcessFinished(s, m) PROVE KeyStep(s)
    <2>0. PICK a : a = [conn[s] EXCEPT !.transcript = Append(@, finished[s])]
        OBVIOUS
    <2>1. /\ DOMAIN a = Fields /\ DOMAIN a.cipher = Level /\ a.transcript \in Seq(net)
          /\ a.secret = conn[s].secret /\ a.cipher = conn[s].cipher /\ a.state = conn[s].state
        BY <1>0, <1>10, <2>0 DEF ServerProcessFinished
    <2>2. Peer(s) = "client"
        BY DEF Peer
    <2>3. conn' = [conn EXCEPT ![s] = IF Accepts(a, "client", m) THEN Connected(s, a, m) ELSE a]
          /\ UNCHANGED <<records, opened>> /\ conn[s].state = "wait_finished"
        BY <1>10, <2>0 DEF ServerProcessFinished
    <2>4. CASE Accepts(a, "client", m)
        <3>1. conn' = [conn EXCEPT ![s] = Connected(s, a, m)]
            BY <2>3, <2>4
        <3> QED
            <4>1. s \in Endpoint /\ Accepts(a, Peer(s), m)
                BY <1>0, <2>2, <2>4
            <4> HIDE DEF TypeOK, IsConnection, Fields
            <4> QED
                BY <1>8, <2>1, <2>3, <3>1, <4>1
    <2>5. CASE ~Accepts(a, "client", m)
        <3>1. conn'[s] = a /\ \A o \in Endpoint \ {s} : conn'[o] = conn[o]
            BY <1>0, <2>3, <2>5
        <3>2. Goes(s)
            BY <2>1, <2>3, <3>1 DEF Goes
        <3> QED
            BY <3>1, <3>2 DEF KeyStep
    <2> QED
        BY <2>4, <2>5
<1>11. ASSUME NEW e \in Endpoint, NEW l \in Level, Encrypt(e, l) PROVE KeyStep(e)
    <2>1. Seals(e, l)
        BY <1>11 DEF Encrypt, Usable, Seals, Counts
    <2> QED
        BY <1>11, <2>1 DEF KeyStep, Encrypt
<1>12. ASSUME NEW e \in Endpoint, NEW l \in Level, NEW r \in records, Decrypt(e, l, r) PROVE KeyStep(e)
    <2>1. Opens(e, l, r)
        BY <1>12 DEF Decrypt, Usable, Opens, Counts
    <2> QED
        BY <1>12, <2>1 DEF KeyStep, Decrypt
<1>13. ASSUME NEW e \in Endpoint, KeyUpdate(e) PROVE KeyStep(e)
    <2>1. Updates(e)
        BY <1>13 DEF KeyUpdate, Updates, Level
    <2> QED
        BY <1>13, <2>1 DEF KeyStep, KeyUpdate
<1>14. ASSUME NEW e \in Endpoint, Close(e) PROVE KeyStep(e)
    <2>1. CASE conn[e].cipher["application"] = None
        <3>1. conn' = [conn EXCEPT ![e].state = "closed"] /\ UNCHANGED <<records, opened>>
            BY <1>14, <2>1 DEF Close
        <3>2. Goes(e)
            BY <3>1 DEF Goes, Early, Keyed
        <3> QED
            BY <3>1, <3>2 DEF KeyStep
    <2>2. CASE conn[e].cipher["application"] # None
        <3>1. /\ conn' = [conn EXCEPT ![e].state = "closed", ![e].cipher["application"].seq = @ + 1]
              /\ records' = records \cup {Sealed(e, "application")}
              /\ UNCHANGED opened
            BY <1>14, <2>2 DEF Close
        <3>2. Seals(e, "application")
            BY <2>2, <3>1 DEF Seals, Counts, Level
        <3> QED
            BY <3>1, <3>2 DEF KeyStep, Level
    <2> QED
        BY <2>1, <2>2
<1> HIDE DEF TypeOK, IsConnection, Fields
<1> QED
    BY <1>0, <1>1, <1>2, <1>3, <1>4, <1>5, <1>6, <1>7, <1>9, <1>10, <1>11, <1>12, <1>13, <1>14
    DEF Next, Receive
-----------------------------------------------------------------------------
(* No key has two writers, and no nonce is used twice.                     *)

\* A record with fields is not the array of length 0.
LEMMA NotNone ==
    /\ \A write, read : AEADCipher(write, read) # None
    /\ \A early, shared, t : HandshakeSecret(early, shared, t) # None
<1>1. DOMAIN None = {}
    BY DEF None
<1>2. \A write, read : "seq" \in DOMAIN AEADCipher(write, read)
    BY DEF AEADCipher
<1>3. \A early, shared, t : "early" \in DOMAIN HandshakeSecret(early, shared, t)
    BY DEF HandshakeSecret
<1> QED
    BY <1>1, <1>2, <1>3

\* What a key is for: only those for data have been updated, if only 0 times.
OfLevel(key) == IF "update" \in DOMAIN key THEN "application" ELSE "handshake"

SharedOf(key) == IF OfLevel(key) = "application" THEN key.shared ELSE key.secret.shared

\* e is the one that writes with a key of level l.
Writes(e, l, key) ==
    /\ OfLevel(key) = l
    /\ key.role = Role(e)
    /\ Mine(e, SharedOf(key))

LEMMA OneWriter ==
    ASSUME NEW e \in Endpoint, NEW o \in Endpoint, NEW l, NEW n, NEW key,
           Writes(e, l, key), Writes(o, n, key)
    PROVE  e = o /\ l = n
BY DEF Writes, Mine, Role, Endpoint

\* Who made the Finished that the transcript of a key for data ends with.
LastRole(key) == Last(key.transcript).verifyData.key.role

KeyShape == {"role", "early", "shared", "transcript", "update"}

IsCipher(e, l, c) ==
    /\ DOMAIN c = {"write", "read", "seq"}
    /\ c.seq \in Nat
    /\ Writes(e, l, c.write)
    /\ OfLevel(c.read) = l
    /\ c.read.role = Peer(e)
    /\ l = "application" => /\ DOMAIN c.write = KeyShape
                            /\ c.write.update \in Nat
                            /\ LastRole(c.write) = Peer(e)
                            /\ LastRole(c.read) = Peer(e)

\* A connection has secrets and ciphers when its state says so.
SecretOK(e) ==
    /\ conn[e].state \in Early => conn[e].secret = None /\ conn[e].cipher["handshake"] = None
    /\ conn[e].state \in Keyed => conn[e].secret # None
    /\ conn[e].state = "connected" => conn[e].cipher["application"] # None
    /\ conn[e].cipher["application"] # None => conn[e].state \in {"connected", "closed"}
    /\ conn[e].secret # None => Mine(e, conn[e].secret.shared)

CiphersOK(e) ==
    \A l \in Level : conn[e].cipher[l] # None => IsCipher(e, l, conn[e].cipher[l])

\* r was sealed by e: with the key it has, at a lower number, or with one before it.
SealedBy(e, l, r) ==
    /\ Writes(e, l, r.key)
    /\ conn[e].cipher[l] # None
    /\ l = "handshake" => r.key = conn[e].cipher[l].write
    /\ l = "application" => /\ r.key.update \in Nat
                            /\ r.key.update <= conn[e].cipher[l].write.update
                            /\ LastRole(r.key) = Peer(e)
    /\ r.key = conn[e].cipher[l].write => r.seq < conn[e].cipher[l].seq

RecordInv ==
    \A r \in records : r.seq \in Nat /\ \E e \in Endpoint, l \in Level : SealedBy(e, l, r)

\* Only records of the handshake open: the two transcripts that keys for data come of
\* differ in the last message.
OpenedOK(e) ==
    \A i \in DOMAIN opened[e] :
        /\ conn[e].cipher["handshake"] # None
        /\ opened[e][i].key = conn[e].cipher["handshake"].read
        /\ opened[e][i].seq \in Nat
        /\ opened[e][i].seq < conn[e].cipher["handshake"].seq
        /\ \A j \in DOMAIN opened[e] : j < i => opened[e][j].seq < opened[e][i].seq

KeyInv ==
    /\ TypeOK
    /\ \A e \in Endpoint : SecretOK(e) /\ CiphersOK(e) /\ OpenedOK(e)
    /\ RecordInv
    /\ NonceUnique

\* A cipher that was just made.
LEMMA NewCiphers ==
    ASSUME NEW e \in Endpoint, NEW secret, Mine(e, secret.shared)
    PROVE  /\ IsCipher(e, "handshake", AEADCipher(HandshakeKey(Role(e), secret), HandshakeKey(Peer(e), secret)))
           /\ \A t : Last(t).verifyData.key.role = Peer(e) =>
                IsCipher(e, "application", AEADCipher(ApplicationKey(Role(e), secret, t),
                                                      ApplicationKey(Peer(e), secret, t)))
<1>1. \A role : LET key == HandshakeKey(role, secret)
                IN  OfLevel(key) = "handshake" /\ key.role = role /\ SharedOf(key) = secret.shared
    BY DEF HandshakeKey, OfLevel, SharedOf
<1>2. \A role, t : LET key == ApplicationKey(role, secret, t)
                   IN  /\ OfLevel(key) = "application" /\ key.role = role /\ SharedOf(key) = secret.shared
                       /\ DOMAIN key = KeyShape /\ key.update \in Nat
                       /\ LastRole(key) = Last(t).verifyData.key.role
    BY DEF ApplicationKey, OfLevel, SharedOf, KeyShape, LastRole
<1>3. \A write, read : LET c == AEADCipher(write, read)
                       IN  /\ DOMAIN c = {"write", "read", "seq"} /\ c.seq \in Nat
                           /\ c.write = write /\ c.read = read
    BY DEF AEADCipher
<1> QED
    BY <1>1, <1>2, <1>3 DEF IsCipher, Writes

\* A key that is updated is another one of the same writer.
LEMMA NextKey ==
    ASSUME NEW e \in Endpoint, NEW c, IsCipher(e, "application", c)
    PROVE  LET n == AEADCipher(UpdateTrafficSecret(c.write), c.read)
           IN  /\ IsCipher(e, "application", n)
               /\ n.write.update = c.write.update + 1
               /\ n.write.transcript = c.write.transcript
               /\ n.read = c.read
<1> DEFINE w == UpdateTrafficSecret(c.write)
<1>1. /\ DOMAIN w = KeyShape /\ w.update = c.write.update + 1 /\ w.role = c.write.role
      /\ w.shared = c.write.shared /\ w.transcript = c.write.transcript
    BY DEF UpdateTrafficSecret, IsCipher, KeyShape
<1> HIDE DEF w
<1>2. OfLevel(w) = "application" /\ SharedOf(w) = w.shared /\ SharedOf(c.write) = c.write.shared
    BY <1>1 DEF OfLevel, SharedOf, KeyShape, IsCipher
<1>3. Writes(e, "application", w)
    BY <1>1, <1>2 DEF Writes, IsCipher
<1>4. LastRole(w) = LastRole(c.write)
    BY <1>1 DEF LastRole
<1> QED
    BY <1>1, <1>3, <1>4 DEF IsCipher, AEADCipher, w

\* One connection changes, and perhaps one record is added.
LEMMA KeyFrame ==
    ASSUME KeyInv, TypeOK', NEW e \in Endpoint,
           \A o \in Endpoint \ {e} : conn'[o] = conn[o] /\ opened'[o] = opened[o],
           SecretOK(e)', CiphersOK(e)', OpenedOK(e)',
           \A l \in Level, r \in records : SealedBy(e, l, r) => SealedBy(e, l, r)',
           records \subseteq records',
           \A r \in records' \ records :
              /\ r.seq \in Nat
              /\ \E l \in Level : SealedBy(e, l, r)'
              /\ \A q \in records : ~(q.key = r.key /\ q.seq = r.seq),
           \A q, r \in records' \ records : q = r
    PROVE  KeyInv'
<1>1. \A o \in Endpoint \ {e} : SecretOK(o)' /\ CiphersOK(o)' /\ OpenedOK(o)'
    BY DEF KeyInv, SecretOK, CiphersOK, OpenedOK
<1>2. \A o \in Endpoint \ {e}, l \in Level, r \in records : SealedBy(o, l, r) => SealedBy(o, l, r)'
    BY DEF SealedBy
<1>3. \A r \in records : r.seq \in Nat /\ \E o \in Endpoint, l \in Level : SealedBy(o, l, r)'
    BY <1>2 DEF KeyInv, RecordInv
<1>4. RecordInv'
    BY <1>3 DEF RecordInv
<1>5. NonceUnique'
    BY DEF KeyInv, NonceUnique
<1> QED
    BY <1>1, <1>4, <1>5 DEF KeyInv

\* The keys, records and openings stay in order.
LEMMA KeyStepKeeps ==
    ASSUME KeyInv, TypeOK', NEW e \in Endpoint, KeyStep(e)
    PROVE  KeyInv'
<1>0. /\ SecretOK(e) /\ CiphersOK(e) /\ OpenedOK(e) /\ DOMAIN conn[e].cipher = Level
      /\ \A o \in Endpoint \ {e} : conn'[o] = conn[o]
      /\ TypeOK
    BY DEF KeyInv, KeyStep, TypeOK, IsConnection
<1>1. CASE Goes(e)
    <2>1. SecretOK(e)' /\ CiphersOK(e)' /\ OpenedOK(e)'
        BY <1>0, <1>1 DEF Goes, SecretOK, CiphersOK, OpenedOK
    <2>2. \A l \in Level, r \in records : SealedBy(e, l, r) => SealedBy(e, l, r)'
        BY <1>1 DEF Goes, SealedBy
    <2>3. UNCHANGED <<records, opened>>
        BY <1>1 DEF Goes
    <2> QED
        BY <1>0, <2>1, <2>2, <2>3, KeyFrame
<1>2. CASE Hears(e)
    <2>1. \A l \in Level : conn[e].cipher[l] = None
        BY <1>0, <1>2 DEF Hears, SecretOK, Early, Level
    <2>2. DOMAIN opened'[e] = {}
        <3>1. DOMAIN opened[e] = {}
            BY <1>0, <2>1 DEF OpenedOK, Level
        <3> QED
            BY <1>2, <3>1 DEF Hears
    <2>3. conn'[e].secret # None /\ Mine(e, conn'[e].secret.shared)
        BY <1>2, NotNone DEF Hears, HandshakeSecret
    <2>4. PICK x : x = conn'[e].secret
        OBVIOUS
    <2> DEFINE c == AEADCipher(HandshakeKey(Role(e), x), HandshakeKey(Peer(e), x))
    <2>5. IsCipher(e, "handshake", c) /\ c # None
        BY <2>3, <2>4, NewCiphers, NotNone
    <2>6. conn'[e].cipher["handshake"] = c /\ conn'[e].cipher["application"] = None
        BY <1>0, <1>2, <2>1, <2>4 DEF Hears, Level
    <2> HIDE DEF c
    <2>7. SecretOK(e)'
        BY <1>2, <2>3, <2>6 DEF SecretOK, Hears, Early, Keyed
    <2>8. CiphersOK(e)'
        BY <2>5, <2>6 DEF CiphersOK, Level
    <2>9. OpenedOK(e)'
        BY <2>2 DEF OpenedOK
    <2>10. \A l \in Level, r \in records : ~SealedBy(e, l, r)
        BY <2>1 DEF SealedBy
    <2>11. UNCHANGED <<records, opened>>
        BY <1>2 DEF Hears
    <2> QED
        BY <1>0, <2>7, <2>8, <2>9, <2>10, <2>11, KeyFrame
<1>3. CASE Finishes(e)
    <2>1. conn[e].cipher["application"] = None /\ conn[e].secret # None
        BY <1>0, <1>3 DEF Finishes, SecretOK, Keyed
    <2>2. PICK x, t : x = conn[e].secret /\ t = conn'[e].transcript
        OBVIOUS
    <2> DEFINE c == AEADCipher(ApplicationKey(Role(e), x, t), ApplicationKey(Peer(e), x, t))
    <2>3. IsCipher(e, "application", c) /\ c # None
        <3>1. Mine(e, x.shared)
            BY <1>0, <2>1, <2>2 DEF SecretOK
        <3>2. Last(t).verifyData.key.role = Peer(e)
            BY <1>3, <2>2 DEF Finishes
        <3> QED
            BY <3>1, <3>2, NewCiphers, NotNone
    <2>4. conn'[e].cipher["application"] = c /\ conn'[e].cipher["handshake"] = conn[e].cipher["handshake"]
        BY <1>0, <1>3, <2>2 DEF Finishes, Level
    <2> HIDE DEF c
    <2>5. SecretOK(e)'
        BY <1>0, <1>3, <2>1, <2>3, <2>4 DEF SecretOK, Finishes, Early, Keyed
    <2>6. CiphersOK(e)'
        BY <1>0, <2>3, <2>4 DEF CiphersOK, Level
    <2>7. OpenedOK(e)'
        BY <1>0, <1>3, <2>4 DEF OpenedOK, Finishes
    <2>8. \A l \in Level, r \in records : SealedBy(e, l, r) => SealedBy(e, l, r)'
        BY <2>1, <2>4 DEF SealedBy, Level
    <2>9. UNCHANGED <<records, opened>>
        BY <1>3 DEF Finishes
    <2> QED
        BY <1>0, <2>5, <2>6, <2>7, <2>8, <2>9, KeyFrame
<1>4. CASE Updates(e)
    <2>1. conn[e].cipher["application"] # None
        BY <1>0, <1>4 DEF Updates, SecretOK
    <2>2. PICK b : b = conn[e].cipher["application"]
        OBVIOUS
    <2> DEFINE c == AEADCipher(UpdateTrafficSecret(b.write), b.read)
    <2>3. IsCipher(e, "application", b)
        BY <1>0, <2>1, <2>2 DEF CiphersOK, Level
    <2>4. IsCipher(e, "application", c) /\ c # None /\ c.write.update = b.write.update + 1
        BY <2>3, NextKey, NotNone
    <2>5. conn'[e].cipher["application"] = c /\ conn'[e].cipher["handshake"] = conn[e].cipher["handshake"]
        BY <1>0, <1>4, <2>2 DEF Updates, Level
    <2> HIDE DEF c
    <2>6. SecretOK(e)'
        BY <1>0, <1>4, <2>4, <2>5 DEF SecretOK, Updates, Early, Keyed
    <2>7. CiphersOK(e)'
        BY <1>0, <2>4, <2>5 DEF CiphersOK, Level
    <2>8. OpenedOK(e)'
        BY <1>0, <1>4, <2>5 DEF OpenedOK, Updates
    <2>9. \A r \in records : SealedBy(e, "handshake", r) => SealedBy(e, "handshake", r)'
        BY <2>5 DEF SealedBy
    <2>10. \A r \in records : SealedBy(e, "application", r) => SealedBy(e, "application", r)'
        <3>1. b.write.update \in Nat
            BY <2>3 DEF IsCipher
        <3> QED
            BY <2>2, <2>4, <2>5, <3>1 DEF SealedBy
    <2>11. UNCHANGED <<records, opened>>
        BY <1>4 DEF Updates
    <2> QED
        BY <1>0, <2>6, <2>7, <2>8, <2>9, <2>10, <2>11, KeyFrame DEF Level
<1>5. ASSUME NEW l \in Level, Counts(e, l)
      PROVE  /\ SecretOK(e)' /\ CiphersOK(e)'
             /\ \A n \in Level, r \in records : SealedBy(e, n, r) => SealedBy(e, n, r)'
             /\ \A n \in Level : conn[e].cipher[n] # None =>
                  /\ conn'[e].cipher[n] # None
                  /\ conn'[e].cipher[n].write = conn[e].cipher[n].write
                  /\ conn'[e].cipher[n].read = conn[e].cipher[n].read
                  /\ conn[e].cipher[n].seq <= conn'[e].cipher[n].seq
             /\ IsCipher(e, l, conn[e].cipher[l]) /\ conn'[e].cipher[l].seq = conn[e].cipher[l].seq + 1
    <2>1. PICK b : b = conn[e].cipher[l]
        OBVIOUS
    <2> DEFINE c == [b EXCEPT !.seq = @ + 1]
    <2>2. IsCipher(e, l, b)
        BY <1>0, <1>5, <2>1 DEF CiphersOK, Counts
    <2>3. c.write = b.write /\ c.read = b.read /\ c.seq = b.seq + 1 /\ DOMAIN c = DOMAIN b
        BY <2>2 DEF IsCipher
    <2>4. c # None
        <3>1. "seq" \in DOMAIN c
            BY <2>2, <2>3 DEF IsCipher
        <3>2. DOMAIN None = {}
            BY DEF None
        <3> QED
            BY <3>1, <3>2
    <2>5. conn'[e].cipher[l] = c /\ \A n \in Level \ {l} : conn'[e].cipher[n] = conn[e].cipher[n]
        BY <1>0, <1>5, <2>1 DEF Counts
    <2> HIDE DEF c
    <2>6. IsCipher(e, l, c)
        BY <2>2, <2>3 DEF IsCipher
    <2>7. b.seq \in Nat /\ b # None
        BY <1>5, <2>1, <2>2 DEF IsCipher, Counts
    <2>8. SecretOK(e)'
        BY <1>0, <1>5, <2>1, <2>4, <2>5, <2>7 DEF SecretOK, Counts, Level, Early, Keyed
    <2>9. CiphersOK(e)'
        BY <1>0, <2>5, <2>6 DEF CiphersOK
    <2>10. \A n \in Level : conn[e].cipher[n] # None =>
             /\ conn'[e].cipher[n] # None
             /\ conn'[e].cipher[n].write = conn[e].cipher[n].write
             /\ conn'[e].cipher[n].read = conn[e].cipher[n].read
             /\ conn[e].cipher[n].seq \in Nat
             /\ conn'[e].cipher[n].seq \in Nat
             /\ conn[e].cipher[n].seq <= conn'[e].cipher[n].seq
        <3>1. \A n \in Level \ {l} : conn[e].cipher[n] # None => conn[e].cipher[n].seq \in Nat
            BY <1>0 DEF CiphersOK, IsCipher
        <3> QED
            BY <2>1, <2>3, <2>4, <2>5, <2>7, <3>1
    <2>11. ASSUME NEW n \in Level, NEW r \in records, SealedBy(e, n, r) PROVE SealedBy(e, n, r)'
        <3>1. r.seq \in Nat
            BY DEF KeyInv, RecordInv
        <3> QED
            BY <2>10, <2>11, <3>1 DEF SealedBy
    <2> QED
        BY <2>1, <2>2, <2>3, <2>5, <2>8, <2>9, <2>10, <2>11
<1>6. ASSUME NEW l \in Level, Seals(e, l) PROVE KeyInv'
    <2>1. PICK r : r = Sealed(e, l)
        OBVIOUS
    <2>2. /\ records' = records \cup {r}
          /\ opened' = opened
          /\ Counts(e, l)
          /\ conn[e].cipher[l] # None
        BY <1>6, <2>1 DEF Seals, Counts
    <2>3. r.key = conn[e].cipher[l].write /\ r.seq = conn[e].cipher[l].seq
        BY <2>1 DEF Sealed
    <2>4. IsCipher(e, l, conn[e].cipher[l])
        BY <1>5, <2>2
    <2>5. r.seq \in Nat
        BY <2>3, <2>4 DEF IsCipher
    <2>6. SealedBy(e, l, r)'
        <3>1. /\ conn'[e].cipher[l] # None
              /\ conn'[e].cipher[l].write = r.key
              /\ r.seq < conn'[e].cipher[l].seq
            BY <1>5, <2>2, <2>3, <2>5
        <3>2. Writes(e, l, r.key)
            BY <2>3, <2>4 DEF IsCipher
        <3>3. l = "application" => r.key.update \in Nat /\ LastRole(r.key) = Peer(e)
            BY <2>3, <2>4 DEF IsCipher
        <3> QED
            BY <3>1, <3>2, <3>3 DEF SealedBy
    <2>7. ASSUME NEW q \in records, q.key = r.key, q.seq = r.seq PROVE FALSE
        <3>1. PICK o \in Endpoint, n \in Level : SealedBy(o, n, q)
            BY DEF KeyInv, RecordInv
        <3>2. Writes(o, n, q.key) /\ Writes(e, l, q.key)
            BY <2>3, <2>4, <2>7, <3>1 DEF SealedBy, IsCipher
        <3>3. o = e /\ n = l
            BY <3>2, OneWriter
        <3> QED
            BY <2>3, <2>5, <2>7, <3>1, <3>3 DEF SealedBy
    <2>8. OpenedOK(e)'
        <3>1. \A i \in DOMAIN opened[e] :
                /\ conn'[e].cipher["handshake"] # None
                /\ conn'[e].cipher["handshake"].read = conn[e].cipher["handshake"].read
                /\ conn[e].cipher["handshake"].seq <= conn'[e].cipher["handshake"].seq
                /\ conn[e].cipher["handshake"].seq \in Nat
                /\ conn'[e].cipher["handshake"].seq \in Nat
            BY <1>0, <1>5, <2>2 DEF OpenedOK, Level, CiphersOK, IsCipher
        <3> QED
            BY <1>0, <2>2, <3>1 DEF OpenedOK
    <2> QED
        BY <1>0, <1>5, <2>2, <2>5, <2>6, <2>7, <2>8, KeyFrame
<1>7. ASSUME NEW l \in Level, NEW r \in records, Opens(e, l, r) PROVE KeyInv'
    <2>1. /\ Counts(e, l)
          /\ conn[e].cipher[l] # None
          /\ r.key = conn[e].cipher[l].read
          /\ r.seq = conn[e].cipher[l].seq
          /\ opened' = [opened EXCEPT ![e] = Append(@, r)]
          /\ records' = records
        BY <1>7 DEF Opens, Counts
    <2>2. IsCipher(e, l, conn[e].cipher[l]) /\ conn'[e].cipher[l].seq = conn[e].cipher[l].seq + 1
        BY <1>5, <2>1
    <2>3. l = "handshake"
        <3>1. SUFFICES ASSUME l = "application" PROVE FALSE
            BY DEF Level
        <3>2. OfLevel(r.key) = "application" /\ r.key.role = Peer(e) /\ LastRole(r.key) = Peer(e)
            BY <2>1, <2>2, <3>1 DEF IsCipher
        <3>3. PICK o \in Endpoint, n \in Level : SealedBy(o, n, r)
            BY DEF KeyInv, RecordInv
        <3>4. n = "application" /\ r.key.role = Role(o) /\ LastRole(r.key) = Peer(o)
            BY <3>2, <3>3 DEF SealedBy, Writes
        <3> QED
            BY <3>2, <3>4 DEF Role, Peer
    <2>4. OpenedOK(e)'
        <3> DEFINE old == opened[e]
                   more == Append(old, r)
                   n == Len(old)
        <3>1. old \in Seq(records) /\ opened'[e] = more
            BY <1>0, <2>1 DEF TypeOK
        <3>2. /\ n \in Nat /\ DOMAIN old = 1 .. n /\ DOMAIN more = 1 .. (n + 1)
              /\ more[n + 1] = r /\ \A i \in 1 .. n : more[i] = old[i]
            BY <3>1
        <3>3. \A i \in 1 .. n :
                /\ old[i].key = conn[e].cipher[l].read
                /\ old[i].seq \in Nat
                /\ old[i].seq < conn[e].cipher[l].seq
                /\ \A j \in 1 .. n : j < i => old[j].seq < old[i].seq
            BY <1>0, <2>3, <3>2 DEF OpenedOK
        <3>4. /\ conn'[e].cipher[l] # None
              /\ conn'[e].cipher[l].read = conn[e].cipher[l].read
              /\ r.seq \in Nat
              /\ r.seq < conn'[e].cipher[l].seq
              /\ conn'[e].cipher[l].seq = r.seq + 1
            <4>1. PICK at \in Nat : at = conn[e].cipher[l].seq
                BY <2>2 DEF IsCipher
            <4>2. r.seq = at /\ conn'[e].cipher[l].seq = at + 1
                BY <2>1, <2>2, <4>1
            <4>3. conn'[e].cipher[l] # None /\ conn'[e].cipher[l].read = conn[e].cipher[l].read
                BY <1>5, <2>1
            <4> QED
                BY <4>2, <4>3
        <3> HIDE DEF old, more, n
        <3>5. ASSUME NEW i \in 1 .. (n + 1)
              PROVE  /\ more[i].key = conn'[e].cipher[l].read
                     /\ more[i].seq \in Nat
                     /\ more[i].seq < conn'[e].cipher[l].seq
                     /\ \A j \in 1 .. (n + 1) : j < i => more[j].seq < more[i].seq
            <4>1. CASE i = n + 1
                BY <2>1, <3>2, <3>3, <3>4, <4>1, SMTT(30)
            <4>2. CASE i # n + 1
                BY <2>1, <3>2, <3>3, <3>4, <4>2, SMTT(30)
            <4> QED
                BY <4>1, <4>2
        <3> QED
            BY <2>3, <3>1, <3>2, <3>4, <3>5 DEF OpenedOK
    <2>5. \A o \in Endpoint \ {e} : opened'[o] = opened[o]
        BY <1>0, <2>1 DEF TypeOK
    <2> QED
        BY <1>0, <1>5, <2>1, <2>4, <2>5, KeyFrame
<1> QED
    BY <1>1, <1>2, <1>3, <1>4, <1>6, <1>7 DEF KeyStep

\* Every step keeps it.
LEMMA KeyInvKept == ASSUME Assumed, KeyInv, [Next]_vars PROVE KeyInv'
<1>1. TypeOK'
    BY TypeStep DEF KeyInv
<1>2. CASE Next
    <2>1. PICK e \in Endpoint : KeyStep(e)
        BY <1>2, KeySteps DEF KeyInv
    <2> QED
        BY <1>1, <2>1, KeyStepKeeps
<1>3. CASE UNCHANGED vars
    <2>1. \A e \in Endpoint : SecretOK(e)' /\ CiphersOK(e)' /\ OpenedOK(e)'
        BY <1>3 DEF KeyInv, vars, SecretOK, CiphersOK, OpenedOK
    <2>2. RecordInv' /\ NonceUnique'
        BY <1>3 DEF KeyInv, vars, RecordInv, NonceUnique, SealedBy
    <2> QED
        BY <1>1, <2>1, <2>2 DEF KeyInv
<1> QED
    BY <1>2, <1>3

\* It holds at first.
LEMMA KeyInvFirst == ASSUME Init PROVE KeyInv
<1>1. TypeOK
    <2>1. DOMAIN conn = Endpoint /\ \A e \in Endpoint : IsConnection(conn[e])
        <3>1. << >> \in Seq(net)
            OBVIOUS
        <3>2. \A e \in Endpoint :
                /\ DOMAIN conn[e] = Fields
                /\ conn[e].transcript = << >>
                /\ conn[e].cipher = [l \in Level |-> None]
                /\ conn[e].auths = 0 /\ conn[e].updates = 0
            BY DEF Init, Fields
        <3> QED
            BY <3>1, <3>2 DEF Init, IsConnection
    <2>2. \A e \in Endpoint : opened[e] \in Seq(records)
        BY DEF Init
    <2> QED
        BY <2>1, <2>2 DEF Init, TypeOK
<1>2. \A e \in Endpoint : SecretOK(e) /\ CiphersOK(e) /\ OpenedOK(e)
    BY DEF Init, SecretOK, CiphersOK, OpenedOK, Early, Keyed, Level
<1>3. RecordInv /\ NonceUnique
    BY DEF Init, RecordInv, NonceUnique
<1> QED
    BY <1>1, <1>2, <1>3 DEF KeyInv

\* No key seals two records with one nonce, over key updates and closing alerts and the
\* counter that reading advances as well; and a connection opens a record once and never
\* after a later one.
LEMMA RecordsKeepOrder == KeyInv => RecordsInOrder
<1>1. KeyInv => NonceUnique
    BY DEF KeyInv
<1>2. KeyInv => OpenedInOrder
    <2> SUFFICES ASSUME KeyInv, NEW e \in Endpoint, NEW i \in DOMAIN opened[e], NEW j \in DOMAIN opened[e], i < j
                 PROVE  opened[e][i].seq < opened[e][j].seq
        BY DEF OpenedInOrder
    <2> QED
        BY DEF KeyInv, OpenedOK
<1> QED
    BY <1>1, <1>2 DEF RecordsInOrder

-----------------------------------------------------------------------------
(* Agreement: what the transcripts hold, and what a Finished says.         *)

\* A secret is known by the transcript it was derived with, which ends with the
\* ServerHello that chose group and suite and begins the transcript of now.
HelloOK(e) ==
    conn[e].secret # None =>
        LET t == conn[e].secret.transcript
            hello == Last(t)
        IN  /\ t \in Seq(net)
            /\ t # << >>
            /\ IsPrefix(t, conn[e].transcript)
            /\ hello.type = "server_hello"
            /\ hello.group = conn[e].group
            /\ hello.suite = conn[e].suite
            /\ conn[e].secret =
                 HandshakeSecret(conn[e].early,
                                 Shared(hello.group, hello.server,
                                        IF e \in Server THEN hello.client ELSE e), t)
            /\ e \in Server => hello.server = e

\* The one ServerHello of a server follows the ClientHello it answers.
ServerHellos(s) ==
    LET t == conn[s].transcript
    IN  \A i \in DOMAIN t : t[i].type = "server_hello" =>
            /\ conn[s].secret # None
            /\ i = Len(conn[s].secret.transcript)
            /\ i > 1
            /\ t[i - 1].type = "client_hello"
            /\ t[i - 1].client = t[i].client

\* A Finished of that side was sent.
Sent(role, secret, t) ==
    \E m \in net : m.type = "finished" /\ m.verifyData = FinishedData(HandshakeKey(role, secret), t)

\* With every certificate a server sends a Finished for the transcript up to it.
CertificatesSent(s) ==
    LET t == conn[s].transcript
    IN  \A i \in DOMAIN t :
          /\ t[i].type = "certificate_verify"
          /\ conn[s].secret # None
          /\ Len(conn[s].secret.transcript) < i
          => Sent("server", conn[s].secret, SubSeq(t, 1, i))

LastFinished(s) ==
    finished[s] # None =>
        /\ finished[s].type = "finished"
        /\ finished[s].verifyData.transcript \in Seq(net)
        /\ Len(finished[s].verifyData.transcript) <= Len(conn[s].transcript)

\* It concludes with a client's.
ServerConcludes(s) ==
    Established(s) =>
        /\ conn[s].secret # None
        /\ Concluded(s) \in Seq(net)
        /\ Len(Concluded(s)) > 1
        /\ IsPrefix(Concluded(s), conn[s].transcript)
        /\ Sent("client", conn[s].secret, Front(Concluded(s)))

ServerOK(s) == ServerHellos(s) /\ CertificatesSent(s) /\ LastFinished(s) /\ ServerConcludes(s)

\* A client's transcript has its own ClientHello only, and the certificate last when it
\* waits for a Finished; it concludes with a server's, and answers it.
ClientOK(c) ==
    LET t == conn[c].transcript
    IN  /\ conn[c].state = "initial" => t = << >>
        /\ \A i \in DOMAIN t : t[i].type = "client_hello" => i = 1 /\ t[i].client = c
        /\ conn[c].state = "wait_finished" =>
             /\ t # << >>
             /\ Last(t).type = "certificate_verify"
             /\ Len(conn[c].secret.transcript) < Len(t)
        /\ Established(c) =>
             /\ conn[c].secret # None
             /\ Concluded(c) = t
             /\ t # << >>
             /\ Len(conn[c].secret.transcript) < Len(t)
             /\ Last(t).type = "finished"
             /\ Last(t).verifyData = FinishedData(HandshakeKey("server", conn[c].secret), Front(t))
             /\ Sent("client", conn[c].secret, t)

\* A server's Finished is about the beginning of its transcript, and the one it made last
\* about the longest; a client's is about the transcript that it concluded with.
OfServer(m, s) ==
    LET data == m.verifyData
    IN  /\ IsPrefix(data.transcript, conn[s].transcript)
        /\ data.key.secret # None =>
             /\ conn[s].secret = data.key.secret
             /\ finished[s] # None
             /\ \/ m = finished[s]
                \/ Len(data.transcript) < Len(finished[s].verifyData.transcript)

OfClient(m, c) ==
    LET data == m.verifyData
    IN  /\ Established(c)
        /\ conn[c].secret = data.key.secret
        /\ Concluded(c) = data.transcript

FinishedOK(m) ==
    \/ /\ m.verifyData.key.role = "server"
       /\ m.verifyData.transcript \in Seq(net)
       /\ \E s \in Server : OfServer(m, s)
    \/ /\ m.verifyData.key.role = "client"
       /\ \E c \in Client : OfClient(m, c)

HandshakeInv ==
    /\ KeyInv
    /\ \A e \in Endpoint : HelloOK(e)
    /\ \A s \in Server : ServerOK(s)
    /\ \A c \in Client : ClientOK(c)
    /\ \A m \in net : m.type = "finished" => FinishedOK(m)

\* What no step takes back: of the connection that changes, e.
Grows(e) ==
    /\ \A o \in Endpoint \ {e} : conn'[o] = conn[o]
    /\ net \subseteq net'
    /\ IsPrefix(conn[e].transcript, conn'[e].transcript)
    /\ conn[e].secret # None =>
         /\ conn'[e].secret = conn[e].secret
         /\ conn'[e].early = conn[e].early
         /\ conn'[e].group = conn[e].group
         /\ conn'[e].suite = conn[e].suite
    /\ Established(e) => Established(e)' /\ Concluded(e)' = Concluded(e)

LEMMA HelloKept ==
    ASSUME TypeOK, TypeOK', NEW e \in Endpoint, Grows(e), NEW o \in Endpoint, HelloOK(o),
           conn[o].secret # None
    PROVE  HelloOK(o)'
<1>1. \A t \in Seq(net) : t \in Seq(net')
    BY DEF Grows
<1>2. CASE o # e
    <2>1. conn'[o] = conn[o]
        BY <1>2 DEF Grows
    <2> QED
        BY <1>1, <2>1 DEF HelloOK
<1>3. CASE o = e
    <2>1. conn[e].transcript \in Seq(net') /\ conn'[e].transcript \in Seq(net')
        BY <1>1 DEF TypeOK, IsConnection
    <2>2. conn[e].secret.transcript \in Seq(net) /\ IsPrefix(conn[e].secret.transcript, conn[e].transcript)
        BY <1>3 DEF HelloOK
    <2>3. IsPrefix(conn[e].secret.transcript, conn'[e].transcript)
        BY <1>1, <2>1, <2>2, PrefixOfPrefix DEF Grows
    <2>4. /\ conn'[e].secret = conn[e].secret
          /\ conn'[e].early = conn[e].early
          /\ conn'[e].group = conn[e].group
          /\ conn'[e].suite = conn[e].suite
        BY <1>3 DEF Grows
    <2> QED
        BY <1>1, <1>3, <2>2, <2>3, <2>4 DEF HelloOK
<1> QED
    BY <1>2, <1>3

\* A server goes on after its ServerHello: it adds no other to the transcript, and a
\* certificate with a Finished.
LEMMA ServerGoesOn ==
    ASSUME TypeOK, TypeOK', NEW s \in Server, Grows(s), ServerOK(s),
           conn'[s].secret = conn[s].secret,
           \A i \in DOMAIN conn'[s].transcript \ DOMAIN conn[s].transcript :
              /\ conn'[s].transcript[i].type # "server_hello"
              /\ conn'[s].transcript[i].type = "certificate_verify" =>
                   \E m \in net' : /\ m.type = "finished"
                                   /\ m.verifyData = FinishedData(HandshakeKey("server", conn[s].secret),
                                                                  SubSeq(conn'[s].transcript, 1, i))
    PROVE  /\ ServerHellos(s)'
           /\ CertificatesSent(s)'
           /\ finished'[s] = finished[s] => LastFinished(s)'
           /\ Established(s) => ServerConcludes(s)'
<1>0. s \in Endpoint
    BY DEF Endpoint
<1>1. \A t \in Seq(net) : t \in Seq(net')
    BY DEF Grows
<1>2. \A role, secret, t : Sent(role, secret, t) => Sent(role, secret, t)'
    BY DEF Grows, Sent
<1> DEFINE t == conn[s].transcript
           u == conn'[s].transcript
<1>3. t \in Seq(net) /\ t \in Seq(net') /\ u \in Seq(net') /\ IsPrefix(t, u)
    BY <1>0, <1>1 DEF TypeOK, IsConnection, Grows
<1>4. Len(t) <= Len(u) /\ \A i \in 1 .. Len(t) : u[i] = t[i] /\ SubSeq(u, 1, i) = SubSeq(t, 1, i)
    BY <1>3, Pieces
<1>5. DOMAIN t = 1 .. Len(t) /\ DOMAIN u = 1 .. Len(u) /\ Len(t) \in Nat /\ Len(u) \in Nat
    BY <1>3
<1>6. \A i \in DOMAIN u : i \in DOMAIN t =>
         u[i] = t[i] /\ SubSeq(u, 1, i) = SubSeq(t, 1, i)
    BY <1>4, <1>5
<1>7. ServerHellos(s)'
    <2>1. ASSUME NEW i \in DOMAIN u, u[i].type = "server_hello"
          PROVE  /\ conn[s].secret # None
                 /\ i = Len(conn[s].secret.transcript)
                 /\ i > 1
                 /\ u[i - 1].type = "client_hello"
                 /\ u[i - 1].client = u[i].client
        <3>1. i \in DOMAIN t /\ t[i] = u[i] /\ t[i].type = "server_hello"
            BY <1>6, <2>1
        <3>2. /\ conn[s].secret # None
              /\ i = Len(conn[s].secret.transcript)
              /\ i > 1
              /\ t[i - 1].type = "client_hello"
              /\ t[i - 1].client = t[i].client
            BY <3>1 DEF ServerOK, ServerHellos
        <3>3. i - 1 \in 1 .. Len(t)
            <4>1. PICK l \in Nat : l = Len(t)
                BY <1>5
            <4>2. i \in 1 .. l /\ i > 1
                BY <1>5, <3>1, <3>2, <4>1
            <4>3. i - 1 \in 1 .. l
                BY ONLY <4>2
            <4> QED
                BY <4>1, <4>3
        <3> QED
            BY <1>4, <3>1, <3>2, <3>3
    <2> QED
        BY <2>1 DEF ServerHellos
<1>8. CertificatesSent(s)'
    <2>1. ASSUME NEW i \in DOMAIN u, u[i].type = "certificate_verify", conn[s].secret # None,
                 Len(conn[s].secret.transcript) < i
          PROVE  \E m \in net' : /\ m.type = "finished"
                                 /\ m.verifyData = FinishedData(HandshakeKey("server", conn[s].secret), SubSeq(u, 1, i))
        <3>1. CASE i \notin DOMAIN t
            BY <2>1, <3>1
        <3>2. CASE i \in DOMAIN t
            <4>1. t[i] = u[i] /\ SubSeq(u, 1, i) = SubSeq(t, 1, i)
                BY <1>6, <3>2
            <4>2. Sent("server", conn[s].secret, SubSeq(t, 1, i))
                BY <2>1, <3>2, <4>1 DEF ServerOK, CertificatesSent
            <4> QED
                BY <4>1, <4>2 DEF Sent, Grows
        <3> QED
            BY <3>1, <3>2
    <2> QED
        BY <2>1 DEF CertificatesSent, Sent
<1>9. ASSUME finished'[s] = finished[s] PROVE LastFinished(s)'
    <2>1. ASSUME finished[s] # None
          PROVE  /\ finished[s].type = "finished"
                 /\ finished[s].verifyData.transcript \in Seq(net')
                 /\ Len(finished[s].verifyData.transcript) <= Len(u)
        <3>1. PICK v : v = finished[s].verifyData.transcript
            OBVIOUS
        <3>2. finished[s].type = "finished" /\ v \in Seq(net) /\ Len(v) <= Len(t)
            BY <2>1, <3>1 DEF ServerOK, LastFinished
        <3>3. Len(v) \in Nat
            BY <3>2
        <3>4. v \in Seq(net')
            BY <1>1, <3>2
        <3>5. PICK l \in Nat, a \in Nat, b \in Nat : l = Len(v) /\ a = Len(t) /\ b = Len(u)
            BY <1>5, <3>3
        <3>6. l <= b
            <4>1. l <= a /\ a <= b
                BY ONLY <1>4, <3>2, <3>5
            <4> QED
                BY ONLY <4>1
        <3>7. Len(v) <= Len(u)
            BY <3>5, <3>6
        <3> QED
            BY <3>1, <3>2, <3>4, <3>7
    <2> QED
        BY <1>9, <2>1 DEF LastFinished
<1>10. ASSUME Established(s) PROVE ServerConcludes(s)'
    <2>1. /\ conn[s].secret # None
          /\ Concluded(s) \in Seq(net)
          /\ Len(Concluded(s)) > 1
          /\ IsPrefix(Concluded(s), t)
          /\ Sent("client", conn[s].secret, Front(Concluded(s)))
        BY <1>10 DEF ServerOK, ServerConcludes
    <2>2. Concluded(s)' = Concluded(s)
        BY <1>10 DEF Grows
    <2>3. PICK x, v, w : x = conn[s].secret /\ v = Front(Concluded(s)) /\ w = Concluded(s)
        OBVIOUS
    <2>4. Sent("client", x, v)'
        BY <1>2, <2>1, <2>3
    <2>5. IsPrefix(w, u)
        BY <1>1, <1>3, <2>1, <2>3, PrefixOfPrefix
    <2> QED
        BY <1>1, <2>1, <2>2, <2>3, <2>4, <2>5 DEF ServerConcludes, Sent
<1> QED
    BY <1>7, <1>8, <1>9, <1>10

\* The others do not notice.
LEMMA HandshakeFrame ==
    ASSUME HandshakeInv, KeyInv', NEW e \in Endpoint, Grows(e),
           \A s \in Server \ {e} : finished'[s] = finished[s],
           e \in Server /\ finished[e] # None =>
              /\ finished'[e] # None
              /\ (finished'[e] # finished[e] =>
                    Len(finished[e].verifyData.transcript) < Len(finished'[e].verifyData.transcript)),
           e \in Server /\ finished'[e] # None => finished'[e].verifyData.transcript \in Seq(net'),
           HelloOK(e)',
           e \in Server => ServerOK(e)',
           e \in Client => ClientOK(e)',
           \A m \in net' \ net : m.type = "finished" => FinishedOK(m)'
    PROVE  HandshakeInv'
<1>0. TypeOK /\ TypeOK' /\ Client \subseteq Endpoint /\ Server \subseteq Endpoint
    BY DEF HandshakeInv, KeyInv, Endpoint
<1>1. \A t \in Seq(net) : t \in Seq(net')
    BY DEF Grows
<1>2. \A role, secret, t : Sent(role, secret, t) => Sent(role, secret, t)'
    BY DEF Grows, Sent
<1>3. \A o \in Endpoint \ {e} : conn'[o] = conn[o] /\ Established(o)' = Established(o) /\ Concluded(o)' = Concluded(o)
    BY DEF Grows, Established, Concluded
<1>4. ASSUME NEW o \in Endpoint PROVE HelloOK(o)'
    <2>1. CASE o = e
        BY <2>1
    <2>2. CASE o # e
        <3>1. conn'[o] = conn[o] /\ HelloOK(o)
            BY <1>3, <2>2 DEF HandshakeInv
        <3> QED
            BY <1>1, <3>1 DEF HelloOK
    <2> QED
        BY <2>1, <2>2
<1>5. ASSUME NEW s \in Server PROVE ServerOK(s)'
    <2>1. CASE s = e
        BY <2>1
    <2>2. CASE s # e
        <3>1. /\ conn'[s] = conn[s] /\ finished'[s] = finished[s] /\ ServerOK(s)
              /\ Established(s)' = Established(s) /\ Concluded(s)' = Concluded(s)
            BY <1>0, <1>3, <2>2 DEF HandshakeInv
        <3>2. PICK x, t : x = conn[s].secret /\ t = conn[s].transcript
            OBVIOUS
        <3>3. x = conn'[s].secret /\ t = conn'[s].transcript
            BY <3>1, <3>2
        <3>4. ServerHellos(s)'
            BY <3>1 DEF ServerOK, ServerHellos
        <3>5. CertificatesSent(s)'
            <4>1. \A i \in DOMAIN t : t[i].type = "certificate_verify" /\ x # None /\ Len(x.transcript) < i
                     => Sent("server", x, SubSeq(t, 1, i))
                BY <3>1, <3>2 DEF ServerOK, CertificatesSent
            <4>2. \A i \in DOMAIN t : t[i].type = "certificate_verify" /\ x # None /\ Len(x.transcript) < i
                     => Sent("server", x, SubSeq(t, 1, i))'
                BY <1>2, <4>1
            <4> QED
                BY <3>3, <4>2 DEF CertificatesSent, Sent
        <3>6. LastFinished(s)'
            BY <1>1, <3>1 DEF ServerOK, LastFinished
        <3>7. ServerConcludes(s)'
            <4>1. PICK v : v = Front(Concluded(s))
                OBVIOUS
            <4>2. Established(s) => Sent("client", x, v)'
                BY <1>2, <3>1, <3>2, <4>1 DEF ServerOK, ServerConcludes
            <4> QED
                BY <1>1, <3>1, <3>2, <4>1, <4>2 DEF ServerOK, ServerConcludes, Sent
        <3> QED
            BY <3>4, <3>5, <3>6, <3>7 DEF ServerOK
    <2> QED
        BY <2>1, <2>2
<1>6. ASSUME NEW c \in Client PROVE ClientOK(c)'
    <2>1. CASE c = e
        BY <2>1
    <2>2. CASE c # e
        <3>1. /\ conn'[c] = conn[c] /\ ClientOK(c)
              /\ Established(c)' = Established(c) /\ Concluded(c)' = Concluded(c)
            BY <1>0, <1>3, <2>2 DEF HandshakeInv
        <3>2. PICK x, t : x = conn[c].secret /\ t = conn[c].transcript
            OBVIOUS
        <3>3. Established(c) => Sent("client", x, t)'
            BY <1>2, <3>1, <3>2 DEF ClientOK
        <3>4. Established(c)' => Sent("client", conn[c].secret, conn[c].transcript)'
            BY <3>1, <3>2, <3>3 DEF Sent
        <3> QED
            BY <3>1, <3>4 DEF ClientOK
    <2> QED
        BY <2>1, <2>2
<1>7. ASSUME NEW m \in net', m.type = "finished" PROVE FinishedOK(m)'
    <2>1. CASE m \notin net
        BY <1>7, <2>1
    <2>2. CASE m \in net
        <3>1. FinishedOK(m)
            BY <1>7, <2>2 DEF HandshakeInv
        <3>2. CASE m.verifyData.key.role = "server"
            <4>1. PICK s \in Server : OfServer(m, s) /\ m.verifyData.transcript \in Seq(net)
                BY <3>1, <3>2 DEF FinishedOK
            <4>2. OfServer(m, s)'
                <5>1. CASE s # e
                    BY <1>0, <1>3, <4>1, <5>1 DEF OfServer
                <5>2. CASE s = e
                    <6> DEFINE t == m.verifyData.transcript
                    <6>1. conn[e].transcript \in Seq(net') /\ conn'[e].transcript \in Seq(net') /\ t \in Seq(net')
                        BY <1>0, <1>1, <4>1 DEF TypeOK, IsConnection
                    <6>2. IsPrefix(t, conn'[e].transcript)
                        BY <4>1, <5>2, <6>1, PrefixOfPrefix DEF OfServer, Grows
                    <6>3. ASSUME m.verifyData.key.secret # None
                          PROVE  /\ conn'[e].secret = m.verifyData.key.secret
                                 /\ finished'[e] # None
                                 /\ \/ m = finished'[e]
                                    \/ Len(t) < Len(finished'[e].verifyData.transcript)
                        <7>1. /\ conn[e].secret = m.verifyData.key.secret
                              /\ finished[e] # None
                              /\ \/ m = finished[e]
                                 \/ Len(t) < Len(finished[e].verifyData.transcript)
                            BY <4>1, <5>2, <6>3 DEF OfServer
                        <7>2. conn'[e].secret = conn[e].secret
                            BY <6>3, <7>1 DEF Grows
                        <7>3. PICK v, w : v = finished[e].verifyData.transcript /\ w = finished'[e].verifyData.transcript
                            OBVIOUS
                        <7>4. v \in Seq(net) /\ w \in Seq(net')
                            BY <5>2, <7>1, <7>3 DEF HandshakeInv, ServerOK, LastFinished
                        <7>5. Len(t) \in Nat /\ Len(v) \in Nat /\ Len(w) \in Nat
                            BY <6>1, <7>4
                        <7>6. m = finished[e] => Len(t) = Len(v)
                            BY <7>3
                        <7>7. m = finished[e] \/ Len(t) < Len(v)
                            BY <7>1, <7>3
                        <7>8. finished'[e] # finished[e] => Len(v) < Len(w)
                            BY <5>2, <7>1, <7>3
                        <7>9. ASSUME finished'[e] = finished[e] PROVE m = finished'[e] \/ Len(t) < Len(w)
                            BY <7>3, <7>7, <7>9
                        <7>10. ASSUME finished'[e] # finished[e] PROVE Len(t) < Len(w)
                            <8> HIDE DEF t
                            <8> QED
                                BY <7>5, <7>6, <7>7, <7>8, <7>10
                        <7> QED
                            BY <5>2, <7>1, <7>2, <7>3, <7>9, <7>10
                    <6> QED
                        BY <5>2, <6>2, <6>3 DEF OfServer
                <5> QED
                    BY <5>1, <5>2
            <4> QED
                BY <1>1, <3>2, <4>1, <4>2 DEF FinishedOK
        <3>3. CASE m.verifyData.key.role # "server"
            <4>1. PICK c \in Client : m.verifyData.key.role = "client" /\ OfClient(m, c)
                BY <3>1, <3>3 DEF FinishedOK
            <4>2. ClientOK(c)
                BY DEF HandshakeInv
            <4>3. OfClient(m, c)'
                <5>1. CASE c # e
                    BY <1>0, <1>3, <4>1, <5>1 DEF OfClient
                <5>2. CASE c = e
                    BY <4>1, <4>2, <5>2 DEF OfClient, Grows, ClientOK
                <5> QED
                    BY <5>1, <5>2
            <4> QED
                BY <4>1, <4>3 DEF FinishedOK
        <3> QED
            BY <3>2, <3>3
    <2> QED
        BY <2>1, <2>2
<1> QED
    BY <1>4, <1>5, <1>6, <1>7 DEF HandshakeInv

\* A step on the records, a key update or a close.
LEMMA IdleStep ==
    ASSUME HandshakeInv, KeyInv', NEW e \in Endpoint,
           \A o \in Endpoint \ {e} : conn'[o] = conn[o],
           net' = net, finished' = finished,
           conn'[e].transcript = conn[e].transcript, conn'[e].secret = conn[e].secret,
           conn'[e].early = conn[e].early, conn'[e].group = conn[e].group,
           conn'[e].suite = conn[e].suite, conn'[e].state \in {conn[e].state, "closed"},
           Established(e)' <=> Established(e), Established(e) => Concluded(e)' = Concluded(e)
    PROVE  HandshakeInv'
<1>0. /\ TypeOK /\ TypeOK' /\ conn[e].transcript \in Seq(net) /\ HelloOK(e)
      /\ e \in Server => ServerOK(e)
      /\ e \in Client => ClientOK(e)
    BY DEF HandshakeInv, KeyInv, TypeOK, IsConnection
<1>1. Grows(e)
    <2>1. IsPrefix(conn[e].transcript, conn'[e].transcript)
        BY <1>0, PrefixByPlace
    <2> QED
        BY <2>1 DEF Grows
<1>2. HelloOK(e)'
    BY <1>0, <1>1, HelloKept DEF HelloOK
<1>3. ASSUME e \in Server PROVE ServerOK(e)'
    BY <1>0, <1>1, <1>3, ServerGoesOn DEF ServerOK, ServerConcludes
<1>4. ASSUME e \in Client PROVE ClientOK(e)'
    <2>1. ClientOK(e)
        BY <1>0, <1>4
    <2>2. PICK x, t, v : x = conn[e].secret /\ t = conn[e].transcript /\ v = Concluded(e)
        OBVIOUS
    <2>3. x = conn'[e].secret /\ t = conn'[e].transcript
        BY <2>2
    <2>4. Established(e)' => Concluded(e)' = t /\ Sent("client", x, t)
        BY <2>1, <2>2 DEF ClientOK
    <2> QED
        BY <2>1, <2>2, <2>3, <2>4 DEF ClientOK, Sent
<1>5. LastFinished(e) /\ finished[e] # None /\ e \in Server => finished[e].verifyData.transcript \in Seq(net)
    BY DEF LastFinished
<1> QED
    BY <1>0, <1>1, <1>2, <1>3, <1>4, <1>5, HandshakeFrame DEF ServerOK

\* A record is sealed or opened: the cipher counts.
LEMMA CountStep ==
    ASSUME HandshakeInv, KeyInv', NEW e \in Endpoint, NEW l \in Level, conn[e].cipher[l] # None,
           NEW x \in {conn[e].state, "closed"},
           conn' = [conn EXCEPT ![e].state = x, ![e].cipher[l].seq = @ + 1],
           net' = net, finished' = finished
    PROVE  HandshakeInv'
<1>0. TypeOK /\ CiphersOK(e)
    BY DEF HandshakeInv, KeyInv
<1>1. IsCipher(e, l, conn[e].cipher[l])
    BY <1>0 DEF CiphersOK
<1>2. /\ \A o \in Endpoint \ {e} : conn'[o] = conn[o]
      /\ conn'[e] = [conn[e] EXCEPT !.state = x, !.cipher[l].seq = @ + 1]
    BY <1>0 DEF TypeOK
<1>3. /\ conn'[e].cipher = [conn[e].cipher EXCEPT ![l].seq = @ + 1]
      /\ conn'[e].state = x
      /\ conn'[e].transcript = conn[e].transcript /\ conn'[e].secret = conn[e].secret
      /\ conn'[e].early = conn[e].early /\ conn'[e].group = conn[e].group
      /\ conn'[e].suite = conn[e].suite
    BY <1>0, <1>2 DEF TypeOK, IsConnection, Fields
<1>4. PICK a : a = conn[e].cipher["application"]
    OBVIOUS
<1>5. PICK b : b = conn'[e].cipher["application"]
    OBVIOUS
<1>6. b = a \/ (a # None /\ "write" \in DOMAIN a /\ b = [a EXCEPT !.seq = @ + 1])
    <2>1. CASE l = "application"
        BY <1>0, <1>1, <1>3, <1>4, <1>5, <2>1 DEF TypeOK, IsConnection, IsCipher
    <2>2. CASE l # "application"
        BY <1>0, <1>3, <1>4, <1>5, <2>2 DEF TypeOK, IsConnection, Level
    <2> QED
        BY <2>1, <2>2
<1>7. (b # None <=> a # None) /\ (a # None => b.write = a.write)
    BY <1>6 DEF None
<1>8. (Established(e)' <=> Established(e)) /\ (Established(e) => Concluded(e)' = Concluded(e))
    BY <1>4, <1>5, <1>7 DEF Established, Concluded
<1> QED
    BY <1>2, <1>3, <1>8, IdleStep

LEMMA RecordSteps ==
    ASSUME HandshakeInv, KeyInv', NEW e \in Endpoint
    PROVE  /\ \A l \in Level : Encrypt(e, l) => HandshakeInv'
           /\ \A l \in Level : \A r \in records : Decrypt(e, l, r) => HandshakeInv'
           /\ KeyUpdate(e) => HandshakeInv'
           /\ Close(e) => HandshakeInv'
<1>0. TypeOK /\ SecretOK(e) /\ CiphersOK(e)
    BY DEF HandshakeInv, KeyInv
<1>1. ASSUME NEW l \in Level, conn' = [conn EXCEPT ![e].cipher[l].seq = @ + 1]
      PROVE  conn' = [conn EXCEPT ![e].state = conn[e].state, ![e].cipher[l].seq = @ + 1]
    <2>1. [conn[e] EXCEPT !.cipher[l].seq = @ + 1] = [conn[e] EXCEPT !.state = conn[e].state, !.cipher[l].seq = @ + 1]
        BY <1>0 DEF TypeOK, IsConnection, Fields
    <2> QED
        BY <1>0, <1>1, <2>1 DEF TypeOK
<1>2. ASSUME NEW l \in Level, Encrypt(e, l) PROVE HandshakeInv'
    BY <1>1, <1>2, CountStep DEF Encrypt, Usable
<1>3. ASSUME NEW l \in Level, NEW r \in records, Decrypt(e, l, r) PROVE HandshakeInv'
    BY <1>1, <1>3, CountStep DEF Decrypt, Usable
<1>4. ASSUME KeyUpdate(e) PROVE HandshakeInv'
    <2>1. PICK a : a = conn[e].cipher["application"]
        OBVIOUS
    <2>2. a # None /\ IsCipher(e, "application", a)
        BY <1>0, <1>4, <2>1 DEF KeyUpdate, SecretOK, CiphersOK, Level
    <2>3. PICK b : b = AEADCipher(UpdateTrafficSecret(a.write), a.read)
        OBVIOUS
    <2>4. b.write.transcript = a.write.transcript /\ b # None
        BY <2>2, <2>3, NextKey, NotNone
    <2>5. /\ conn'[e] = [conn[e] EXCEPT !.updates = @ + 1, !.cipher["application"] = b]
          /\ \A o \in Endpoint \ {e} : conn'[o] = conn[o]
          /\ UNCHANGED <<net, finished>>
        BY <1>0, <1>4, <2>1, <2>3 DEF KeyUpdate, TypeOK
    <2>6. /\ conn'[e].cipher["application"] = b
          /\ conn'[e].state = conn[e].state
          /\ conn'[e].transcript = conn[e].transcript /\ conn'[e].secret = conn[e].secret
          /\ conn'[e].early = conn[e].early /\ conn'[e].group = conn[e].group
          /\ conn'[e].suite = conn[e].suite
        BY <1>0, <2>5 DEF TypeOK, IsConnection, Fields, Level
    <2>7. (Established(e)' <=> Established(e)) /\ Concluded(e)' = Concluded(e)
        BY <2>1, <2>2, <2>4, <2>6 DEF Established, Concluded
    <2> QED
        BY <2>5, <2>6, <2>7, IdleStep
<1>5. ASSUME Close(e) PROVE HandshakeInv'
    <2>1. CASE conn[e].cipher["application"] = None
        <3>1. /\ conn'[e] = [conn[e] EXCEPT !.state = "closed"]
              /\ \A o \in Endpoint \ {e} : conn'[o] = conn[o]
              /\ UNCHANGED <<net, finished>>
            BY <1>0, <1>5, <2>1 DEF Close, TypeOK
        <3>2. /\ conn'[e].cipher = conn[e].cipher
              /\ conn'[e].state = "closed"
              /\ conn'[e].transcript = conn[e].transcript /\ conn'[e].secret = conn[e].secret
              /\ conn'[e].early = conn[e].early /\ conn'[e].group = conn[e].group
              /\ conn'[e].suite = conn[e].suite
            BY <1>0, <3>1 DEF TypeOK, IsConnection, Fields
        <3>3. (Established(e)' <=> Established(e)) /\ Concluded(e)' = Concluded(e)
            BY <3>2 DEF Established, Concluded
        <3> QED
            BY <3>1, <3>2, <3>3, IdleStep
    <2>2. CASE conn[e].cipher["application"] # None
        BY <1>5, <2>2, CountStep DEF Close, Level
    <2> QED
        BY <2>1, <2>2
<1> QED
    BY <1>2, <1>3, <1>4, <1>5

-----------------------------------------------------------------------------
(* The steps of the handshake.                                             *)

LEMMA ClientHelloStep ==
    ASSUME Assumed, HandshakeInv, KeyInv', NEW c \in Client, ClientHello(c)
    PROVE  HandshakeInv'
<1> DEFINE hello == [type |-> "client_hello", client |-> c, suites |-> ToSet(Suites[c]),
                     keyShares |-> ToSet(Groups[c]), psk |-> Psk[c] # NoPsk]
<1>0. c \in Endpoint /\ c \notin Server /\ TypeOK /\ TypeOK' /\ SecretOK(c) /\ ClientOK(c)
    BY DEF Assumed, HandshakeInv, KeyInv, Endpoint
<1>1. hello.type = "client_hello" /\ hello.client = c
    OBVIOUS
<1> HIDE DEF hello
<1>2. /\ conn[c].state = "initial" /\ conn[c].transcript = << >> /\ conn[c].secret = None
      /\ ~Established(c)
    BY <1>0 DEF ClientHello, ClientOK, SecretOK, Early, Established
<1>3. /\ conn' = [conn EXCEPT ![c].state = "wait_server_hello", ![c].early = Psk[c],
                              ![c].transcript = Append(@, hello)]
      /\ net' = net \cup {hello} /\ finished' = finished
    BY DEF ClientHello, hello
<1>4. /\ \A o \in Endpoint \ {c} : conn'[o] = conn[o]
      /\ conn'[c].transcript = <<hello>>
      /\ conn'[c].secret = None /\ conn'[c].state = "wait_server_hello"
      /\ conn'[c].cipher = conn[c].cipher
    BY <1>0, <1>2, <1>3 DEF TypeOK, IsConnection, Fields
<1>5. Grows(c)
    <2>1. IsPrefix(<< >>, <<hello>>)
        BY DEF IsPrefix
    <2> QED
        BY <1>2, <1>3, <1>4, <2>1 DEF Grows
<1>6. HelloOK(c)'
    BY <1>4 DEF HelloOK
<1>7. ClientOK(c)'
    BY <1>1, <1>2, <1>4 DEF ClientOK, Established
<1> QED
    BY <1>0, <1>1, <1>3, <1>5, <1>6, <1>7, HandshakeFrame

\* A server answers: its first ServerHello, after the ClientHello.
LEMMA ServerHelloStep ==
    ASSUME Assumed, HandshakeInv, KeyInv', NEW s \in Server, NEW m \in net, ServerProcessClientHello(s, m)
    PROVE  HandshakeInv'
<1> DEFINE g == Greeted(s, m)
           h == ServerHello(s, m, g.group, g.suite)
           t == conn[s].transcript
           u == Append(Append(t, m), h)
           x == HandshakeSecret(g.early, Shared(g.group, s, m.client), u)
<1>0. s \in Endpoint /\ s \notin Client /\ TypeOK /\ TypeOK' /\ SecretOK(s) /\ ServerOK(s) /\ t \in Seq(net)
    BY DEF Assumed, HandshakeInv, KeyInv, Endpoint, TypeOK, IsConnection
<1>1. /\ DOMAIN g = Fields /\ g.cipher = conn[s].cipher /\ g.transcript = Append(t, m)
      /\ DOMAIN g.cipher = Level
    BY <1>0 DEF Greeted, TypeOK, IsConnection, Fields
<1>2. /\ h.type = "server_hello" /\ h.server = s /\ h.client = m.client
      /\ h.group = g.group /\ h.suite = g.suite
    BY DEF ServerHello
<1> HIDE DEF g, h
<1>3. /\ m.type = "client_hello"
      /\ conn[s].secret = None /\ ~Established(s)
      /\ net' = net \cup {h} /\ finished' = finished
      /\ \A o \in Endpoint \ {s} : conn'[o] = conn[o]
    BY <1>0 DEF ServerProcessClientHello, SecretOK, Early, Established, g, h
<1>4. /\ conn'[s].transcript = u /\ conn'[s].secret = x
      /\ conn'[s].early = g.early /\ conn'[s].group = g.group /\ conn'[s].suite = g.suite
      /\ conn'[s].cipher["application"] = conn[s].cipher["application"]
    <2>1. conn'[s] = [g EXCEPT !.state = "wait_finished", !.transcript = u, !.secret = x,
                               !.cipher["handshake"] = HandshakeCipher(s, x)]
        BY <1>0, <1>1 DEF ServerProcessClientHello, g, h, TypeOK
    <2> QED
        BY <1>1, <2>1 DEF Fields, Level
<1>5. /\ u \in Seq(net') /\ Len(u) = Len(t) + 2 /\ Len(t) \in Nat
      /\ u[Len(t) + 1] = m /\ u[Len(t) + 2] = h /\ Last(u) = h /\ u # << >>
      /\ \A i \in 1 .. Len(t) : u[i] = t[i]
      /\ IsPrefix(u, u) /\ IsPrefix(t, u)
    <2>1. /\ u \in Seq(net') /\ Len(u) = Len(t) + 2 /\ Len(t) \in Nat
          /\ u[Len(t) + 1] = m /\ u[Len(t) + 2] = h /\ \A i \in 1 .. Len(t) : u[i] = t[i]
        BY <1>0, <1>3
    <2>2. t \in Seq(net')
        BY <1>0, <1>3
    <2>3. Last(u) = h /\ u # << >>
        BY <2>1 DEF Last
    <2> HIDE DEF u, t
    <2> QED
        BY <2>1, <2>2, <2>3, PrefixByPlace
<1>6. Grows(s)
    BY <1>3, <1>4, <1>5 DEF Grows
<1>7. x = HandshakeSecret(g.early, Shared(h.group, h.server, h.client), u) /\ x.transcript = u /\ x # None
    BY <1>2, NotNone DEF HandshakeSecret
<1> HIDE DEF x, u
<1>8. HelloOK(s)'
    BY <1>2, <1>4, <1>5, <1>7 DEF HelloOK
<1>9. ServerHellos(s)'
    <2>1. ASSUME NEW i \in 1 .. Len(t), t[i].type = "server_hello" PROVE FALSE
        BY <1>0, <1>3, <2>1 DEF ServerOK, ServerHellos
    <2>2. ASSUME NEW i \in DOMAIN u, u[i].type = "server_hello" PROVE i = Len(t) + 2
        <3>1. i \in 1 .. Len(t) + 2
            BY <1>5
        <3>2. i \notin 1 .. Len(t)
            BY <1>5, <2>1, <2>2
        <3>3. i # Len(t) + 1
            BY <1>3, <1>5, <2>2
        <3> QED
            BY <1>5, <3>1, <3>2, <3>3, SMTT(30)
    <2>3. \A i \in DOMAIN u : u[i].type = "server_hello" =>
            /\ x # None /\ i = Len(x.transcript) /\ i > 1
            /\ u[i - 1].type = "client_hello" /\ u[i - 1].client = u[i].client
        BY <1>2, <1>3, <1>5, <1>7, <2>2
    <2> QED
        BY <1>4, <2>3 DEF ServerHellos
<1>10. CertificatesSent(s)'
    <2>1. \A i \in DOMAIN u : ~(Len(x.transcript) < i)
        BY <1>5, <1>7
    <2> QED
        BY <1>4, <2>1 DEF CertificatesSent
<1>11. LastFinished(s)'
    <2>1. PICK v : v = finished[s].verifyData.transcript
        OBVIOUS
    <2>2. finished[s] # None => finished[s].type = "finished" /\ v \in Seq(net) /\ Len(v) <= Len(t)
        BY <1>0, <2>1 DEF ServerOK, LastFinished
    <2>3. v \in Seq(net) => v \in Seq(net') /\ Len(v) \in Nat
        BY <1>3
    <2> QED
        BY <1>3, <1>4, <1>5, <2>1, <2>2, <2>3, SMTT(30) DEF LastFinished
<1>12. ServerConcludes(s)'
    BY <1>3, <1>4 DEF ServerConcludes, Established
<1>13. \A n \in net' \ net : n.type # "finished"
    BY <1>2, <1>3
<1>14. finished'[s] # None => finished'[s].verifyData.transcript \in Seq(net')
    BY <1>11 DEF LastFinished
<1> QED
    BY <1>0, <1>3, <1>6, <1>8, <1>9, <1>10, <1>11, <1>12, <1>13, <1>14, HandshakeFrame DEF ServerOK

\* Without a common group the ClientHello stays in the transcript.
LEMMA NoKeyShareStep ==
    ASSUME Assumed, HandshakeInv, KeyInv', NEW s \in Server, NEW m \in net, NoMatchingKeyShare(s, m)
    PROVE  HandshakeInv'
<1> DEFINE t == conn[s].transcript
           u == Append(t, m)
<1>0. s \in Endpoint /\ s \notin Client /\ TypeOK /\ TypeOK' /\ SecretOK(s) /\ ServerOK(s) /\ t \in Seq(net)
    BY DEF Assumed, HandshakeInv, KeyInv, Endpoint, TypeOK, IsConnection
<1>1. /\ m.type = "client_hello"
      /\ conn[s].secret = None /\ ~Established(s)
      /\ net' = net /\ finished' = finished
      /\ \A o \in Endpoint \ {s} : conn'[o] = conn[o]
    BY <1>0 DEF NoMatchingKeyShare, SecretOK, Early, Established
<1>2. /\ conn'[s].transcript = u /\ conn'[s].secret = conn[s].secret
      /\ conn'[s].cipher = conn[s].cipher
    BY <1>0 DEF NoMatchingKeyShare, Greeted, TypeOK, IsConnection, Fields
<1>3. DOMAIN t = 1 .. Len(t) /\ DOMAIN u = 1 .. (Len(t) + 1) /\ Len(t) \in Nat /\ u[Len(t) + 1] = m
    BY <1>0
<1>4. Grows(s)
    BY <1>0, <1>1, <1>2, Fronts DEF Grows
<1> HIDE DEF u, t
<1>5. \A i \in DOMAIN u \ DOMAIN t : u[i].type \notin {"server_hello", "certificate_verify"}
    BY <1>1, <1>3
<1>6. ServerOK(s)'
    <2>1. ~Established(s)'
        BY <1>1, <1>2 DEF Established
    <2> QED
        BY <1>0, <1>1, <1>2, <1>4, <1>5, <2>1, ServerGoesOn DEF t, ServerOK, ServerConcludes
<1>7. HelloOK(s)'
    BY <1>1, <1>2 DEF HelloOK
<1>8. finished'[s] # None => finished'[s].verifyData.transcript \in Seq(net')
    BY <1>6 DEF ServerOK, LastFinished
<1> QED
    BY <1>0, <1>1, <1>4, <1>6, <1>7, <1>8, HandshakeFrame

\* A client that has not finished puts a message of the server's into its transcript.
LEMMA ClientAppends ==
    ASSUME HandshakeInv, KeyInv', NEW c \in Client, NEW m \in net, m.type # "client_hello",
           conn[c].cipher["application"] = None,
           \A o \in Endpoint \ {c} : conn'[o] = conn[o], net \subseteq net',
           conn'[c].transcript = Append(conn[c].transcript, m),
           conn[c].secret # None =>
              /\ conn'[c].secret = conn[c].secret
              /\ conn'[c].early = conn[c].early
              /\ conn'[c].group = conn[c].group
              /\ conn'[c].suite = conn[c].suite
    PROVE  /\ Grows(c)
           /\ LET t == conn[c].transcript
                  u == Append(t, m)
              IN  /\ u \in Seq(net') /\ u # << >> /\ Last(u) = m /\ Front(u) = t /\ IsPrefix(u, u)
                  /\ Len(u) = Len(t) + 1 /\ Len(t) \in Nat
                  /\ conn[c].secret # None => Len(conn[c].secret.transcript) < Len(u)
                  /\ \A i \in DOMAIN u : u[i].type = "client_hello" => i = 1 /\ u[i].client = c
<1> DEFINE t == conn[c].transcript
           u == Append(t, m)
<1>0. /\ c \in Endpoint /\ ClientOK(c) /\ HelloOK(c) /\ t \in Seq(net) /\ t \in Seq(net') /\ m \in net'
    BY DEF HandshakeInv, KeyInv, Endpoint, TypeOK, IsConnection
<1>1. /\ u \in Seq(net') /\ u # << >> /\ Len(u) = Len(t) + 1 /\ Len(t) \in Nat
      /\ DOMAIN u = 1 .. Len(t) + 1 /\ DOMAIN t = 1 .. Len(t)
      /\ u[Len(t) + 1] = m /\ \A i \in 1 .. Len(t) : u[i] = t[i]
    BY <1>0
<1>2. Last(u) = m /\ Front(u) = t /\ IsPrefix(t, u)
    BY <1>0, Fronts
<1>3. conn'[c].transcript = u
    OBVIOUS
<1>4. Grows(c)
    BY <1>2, <1>3 DEF Grows, Established
<1> HIDE DEF u
<1>5. IsPrefix(u, u)
    BY <1>1, PrefixByPlace
<1>6. \A i \in DOMAIN t : t[i].type = "client_hello" => i = 1 /\ t[i].client = c
    BY <1>0 DEF ClientOK
<1> HIDE DEF t
<1>7. \A i \in DOMAIN u : u[i].type = "client_hello" => i = 1 /\ u[i].client = c
    <2>1. ASSUME NEW i \in DOMAIN u, u[i].type = "client_hello" PROVE i = 1 /\ u[i].client = c
        <3>1. i # Len(t) + 1
            BY <1>1, <2>1
        <3>2. i \in DOMAIN t /\ u[i] = t[i]
            BY <1>1, <3>1
        <3> QED
            BY <1>6, <2>1, <3>2
    <2> QED
        BY <2>1
<1>8. ASSUME conn[c].secret # None PROVE Len(conn[c].secret.transcript) < Len(u)
    <2>1. PICK v : v = conn[c].secret.transcript
        OBVIOUS
    <2>2. v \in Seq(net) /\ IsPrefix(v, t)
        BY <1>8, <2>1 DEF HelloOK, HandshakeInv, t, Endpoint
    <2>3. Len(v) <= Len(t) /\ Len(v) \in Nat
        BY <1>0, <2>2, PrefixByPlace DEF t
    <2> QED
        BY <1>1, <2>1, <2>3
<1> QED
    BY <1>1, <1>2, <1>4, <1>5, <1>7, <1>8 DEF t, u

LEMMA ProcessServerHelloStep ==
    ASSUME Assumed, HandshakeInv, KeyInv', NEW c \in Client, NEW m \in net, ProcessServerHello(c, m)
    PROVE  HandshakeInv'
<1> DEFINE t == conn[c].transcript
           u == Append(t, m)
           x == HandshakeSecret(conn[c].early, Shared(m.group, m.server, c), u)
<1>0. /\ c \in Endpoint /\ c \notin Server /\ TypeOK /\ TypeOK' /\ SecretOK(c)
    BY DEF Assumed, HandshakeInv, KeyInv, Endpoint
<1>1. /\ m.type = "server_hello" /\ m.type # "client_hello" /\ m.type # "finished"
      /\ conn[c].secret = None /\ conn[c].cipher["application"] = None
      /\ net' = net /\ finished' = finished
      /\ \A o \in Endpoint \ {c} : conn'[o] = conn[o]
    BY <1>0 DEF ProcessServerHello, SecretOK, Early
<1>2. /\ conn'[c].transcript = u /\ conn'[c].cipher["application"] = None
      /\ conn'[c].group = m.group /\ conn'[c].suite = m.suite /\ conn'[c].early = conn[c].early
      /\ conn'[c].secret \in {x, None}
      /\ conn'[c].state \in {"wait_server_hello", "wait_encrypted_extensions"}
    <2>1. CASE HasKeyPairs(c, m.group)
        <3>1. conn'[c] = [conn[c] EXCEPT !.transcript = u, !.suite = m.suite, !.group = m.group,
                                 !.state = "wait_encrypted_extensions", !.secret = x,
                                 !.cipher["handshake"] = HandshakeCipher(c, x)]
            BY <1>0, <2>1 DEF ProcessServerHello, TypeOK, IsConnection, Fields
        <3> QED
            BY <1>0, <1>1, <3>1 DEF TypeOK, IsConnection, Fields, Level
    <2>2. CASE ~HasKeyPairs(c, m.group)
        <3>1. conn'[c] = [conn[c] EXCEPT !.transcript = u, !.suite = m.suite, !.group = m.group]
              /\ conn[c].state = "wait_server_hello"
            BY <1>0, <2>2 DEF ProcessServerHello, TypeOK, IsConnection, Fields
        <3> QED
            BY <1>0, <1>1, <3>1 DEF TypeOK, IsConnection, Fields
    <2> QED
        BY <2>1, <2>2
<1>3. /\ Grows(c)
      /\ u \in Seq(net') /\ u # << >> /\ Last(u) = m /\ IsPrefix(u, u)
      /\ \A i \in DOMAIN u : u[i].type = "client_hello" => i = 1 /\ u[i].client = c
    BY <1>1, <1>2, ClientAppends
<1>4. x.transcript = u
    BY DEF HandshakeSecret
<1> HIDE DEF u
<1>5. HelloOK(c)'
    BY <1>0, <1>1, <1>2, <1>3, <1>4 DEF HelloOK
<1>6. ClientOK(c)'
    BY <1>2, <1>3 DEF ClientOK, Established
<1> QED
    BY <1>0, <1>1, <1>3, <1>5, <1>6, HandshakeFrame

\* A certificate, or what follows it.
LEMMA ProcessCertificateStep ==
    ASSUME Assumed, HandshakeInv, KeyInv', NEW c \in Client, NEW m \in net,
           \/ \E ok \in BOOLEAN : ProcessCertificate(c, m, ok)
           \/ ProcessCertificateVerify(c, m)
    PROVE  HandshakeInv'
<1> DEFINE t == conn[c].transcript
           u == Append(t, m)
<1>0. /\ c \in Endpoint /\ c \notin Server /\ TypeOK /\ TypeOK' /\ SecretOK(c) /\ HelloOK(c)
    BY DEF Assumed, HandshakeInv, KeyInv, Endpoint
<1>1. /\ m.type \in {"certificate", "certificate_verify"}
      /\ conn[c].state \in {"wait_encrypted_extensions", "wait_certificate_verify"}
      /\ net' = net /\ finished' = finished
      /\ \A o \in Endpoint \ {c} : conn'[o] = conn[o]
    BY <1>0 DEF ProcessCertificate, ProcessCertificateVerify, TypeOK
<1>2. conn[c].secret # None /\ conn[c].cipher["application"] = None
    BY <1>0, <1>1 DEF SecretOK, Keyed
<1>3. /\ conn'[c].transcript = u /\ conn'[c].cipher = conn[c].cipher
      /\ conn'[c].group = conn[c].group /\ conn'[c].suite = conn[c].suite
      /\ conn'[c].early = conn[c].early /\ conn'[c].secret = conn[c].secret
      /\ conn'[c].state # "initial"
      /\ conn'[c].state = "wait_finished" => m.type = "certificate_verify"
    BY <1>0 DEF ProcessCertificate, ProcessCertificateVerify, TypeOK, IsConnection, Fields
<1>4. /\ Grows(c)
      /\ u \in Seq(net') /\ u # << >> /\ Last(u) = m
      /\ Len(conn[c].secret.transcript) < Len(u)
      /\ \A i \in DOMAIN u : u[i].type = "client_hello" => i = 1 /\ u[i].client = c
    BY <1>1, <1>2, <1>3, ClientAppends
<1>5. HelloOK(c)'
    BY <1>0, <1>2, <1>4, HelloKept
<1> HIDE DEF u
<1>6. ClientOK(c)'
    BY <1>2, <1>3, <1>4 DEF ClientOK, Established
<1> QED
    BY <1>0, <1>1, <1>4, <1>5, <1>6, HandshakeFrame

\* The client's own Finished is about the transcript that the server's was put into.
LEMMA ClientFinishedStep ==
    ASSUME Assumed, HandshakeInv, KeyInv', NEW c \in Client, NEW m \in net, ClientProcessFinished(c, m)
    PROVE  HandshakeInv'
<1> DEFINE t == conn[c].transcript
           u == Append(t, m)
           x == conn[c].secret
           answer == Finished(HandshakeKey("client", x), u)
<1>0. /\ c \in Endpoint /\ c \notin Server /\ TypeOK /\ TypeOK' /\ SecretOK(c) /\ HelloOK(c)
    BY DEF Assumed, HandshakeInv, KeyInv, Endpoint
<1>1. /\ m.type = "finished" /\ m.type # "client_hello"
      /\ conn[c].state = "wait_finished"
      /\ m.verifyData = FinishedData(HandshakeKey("server", x), t)
      /\ finished' = finished
      /\ \A o \in Endpoint \ {c} : conn'[o] = conn[o]
    BY <1>0 DEF ClientProcessFinished, Accepts
<1>2. conn[c].secret # None /\ conn[c].cipher["application"] = None
    BY <1>0, <1>1 DEF SecretOK, Keyed
<1>3. conn'[c] = Connected(c, conn[c], m) /\ conn[c].secret = x
    BY <1>0 DEF ClientProcessFinished, TypeOK
<1>4. PICK w : w = CipherOf(c, LAMBDA role : ApplicationKey(role, x, u))
    OBVIOUS
<1>5. w # None /\ w.write.transcript = u
    <2>1. w = AEADCipher(ApplicationKey(Role(c), x, u), ApplicationKey(Peer(c), x, u))
        BY <1>4 DEF CipherOf
    <2> QED
        BY <2>1, NotNone DEF AEADCipher, ApplicationKey
<1>6. /\ conn'[c].transcript = u /\ conn'[c].cipher["application"] = w
      /\ conn'[c].group = conn[c].group /\ conn'[c].suite = conn[c].suite
      /\ conn'[c].early = conn[c].early /\ conn'[c].secret = x
      /\ conn'[c].state = "connected"
    <2>1. conn'[c] = [conn[c] EXCEPT !.state = "connected", !.transcript = u, !.cipher["application"] = w]
        BY <1>3, <1>4 DEF Connected
    <2> QED
        BY <1>0, <2>1 DEF TypeOK, IsConnection, Fields, Level
<1>7. net' = net \cup {answer}
    <2>1. conn'[c].transcript = u /\ Connected(c, conn[c], m).secret = x /\ Connected(c, conn[c], m).transcript = u
        BY <1>3, <1>6
    <2> QED
        BY <2>1 DEF ClientProcessFinished
<1>8. /\ Grows(c)
      /\ u \in Seq(net') /\ u # << >> /\ Last(u) = m /\ Front(u) = t
      /\ Len(x.transcript) < Len(u)
      /\ \A i \in DOMAIN u : u[i].type = "client_hello" => i = 1 /\ u[i].client = c
    BY <1>1, <1>2, <1>6, <1>7, ClientAppends
<1>9. /\ answer.type = "finished" /\ answer.verifyData = FinishedData(HandshakeKey("client", x), u)
      /\ answer.verifyData.key.role = "client" /\ answer.verifyData.key.secret = x
      /\ answer.verifyData.transcript = u
    BY DEF Finished, FinishedData, HandshakeKey
<1>10. HelloOK(c)'
    BY <1>0, <1>2, <1>8, HelloKept
<1> HIDE DEF u, x, answer
<1>11. Established(c)' /\ Concluded(c)' = u
    BY <1>5, <1>6 DEF Established, Concluded
<1>12. Sent("client", conn[c].secret, conn[c].transcript)'
    BY <1>6, <1>7, <1>9 DEF Sent
<1>13. ClientOK(c)'
    <2>1. conn[c].secret = x /\ conn[c].transcript = t
        BY DEF x
    <2> QED
        BY <1>1, <1>2, <1>6, <1>8, <1>11, <1>12, <2>1 DEF ClientOK
<1>14. ASSUME NEW n \in net' \ net PROVE FinishedOK(n)'
    <2>1. n = answer
        BY <1>7
    <2>2. OfClient(n, c)'
        BY <1>6, <1>9, <1>11, <2>1 DEF OfClient
    <2> QED
        BY <1>9, <2>1, <2>2 DEF FinishedOK
<1> QED
    BY <1>0, <1>1, <1>8, <1>10, <1>13, <1>14, HandshakeFrame

\* A server makes a certificate and the Finished that goes with it.
LEMMA GenerateAuthStep ==
    ASSUME Assumed, HandshakeInv, KeyInv', NEW s \in Server, ServerGenerateAuth(s)
    PROVE  HandshakeInv'
<1>0. /\ s \in Endpoint /\ s \notin Client /\ TypeOK /\ TypeOK' /\ HelloOK(s) /\ ServerOK(s)
    BY DEF Assumed, HandshakeInv, KeyInv, Endpoint
<1>1. PICK cert, verify, last, t, u, x :
         /\ t = conn[s].transcript /\ x = conn[s].secret
         /\ cert.type = "certificate" /\ verify.type = "certificate_verify"
         /\ u = t \o <<cert, verify>>
         /\ last = Finished(HandshakeKey("server", x), u)
         /\ net' = net \cup {cert, verify, last}
         /\ finished' = [finished EXCEPT ![s] = last]
         /\ conn' = [conn EXCEPT ![s].auths = conn[s].auths + 1, ![s].transcript = u]
    <2> DEFINE n == conn[s].auths + 1
               certificate == [type |-> "certificate", server |-> s,
                               n |-> IF s \in Chained THEN 0 ELSE n]
               verified == [type |-> "certificate_verify", server |-> s, n |-> n]
               more == conn[s].transcript \o <<certificate, verified>>
               final == Finished(HandshakeKey("server", conn[s].secret), more)
    <2>1. certificate.type = "certificate" /\ verified.type = "certificate_verify"
        OBVIOUS
    <2>2. /\ net' = net \cup {certificate, verified, final}
          /\ finished' = [finished EXCEPT ![s] = final]
          /\ conn' = [conn EXCEPT ![s].auths = n, ![s].transcript = more]
        BY DEF ServerGenerateAuth
    <2> HIDE DEF certificate, verified
    <2> QED
        BY <2>1, <2>2
<1>2. /\ \A o \in Endpoint \ {s} : conn'[o] = conn[o]
      /\ conn'[s].transcript = u /\ conn'[s].cipher = conn[s].cipher
      /\ conn'[s].secret = x /\ conn'[s].early = conn[s].early
      /\ conn'[s].group = conn[s].group /\ conn'[s].suite = conn[s].suite
    <2>1. PICK n : conn' = [conn EXCEPT ![s].auths = n, ![s].transcript = u]
        BY <1>1
    <2>2. DOMAIN conn = Endpoint
        BY <1>0 DEF TypeOK
    <2>3. conn'[s] = [conn[s] EXCEPT !.auths = n, !.transcript = u]
        BY <1>0, <2>1, <2>2
    <2>4. \A o \in Endpoint \ {s} : conn'[o] = conn[o]
        BY <1>0, <2>1, <2>2
    <2>5. DOMAIN conn[s] = Fields
        BY <1>0 DEF TypeOK, IsConnection
    <2>6. /\ conn'[s].transcript = u /\ conn'[s].cipher = conn[s].cipher
          /\ conn'[s].secret = conn[s].secret /\ conn'[s].early = conn[s].early
          /\ conn'[s].group = conn[s].group /\ conn'[s].suite = conn[s].suite
        BY ONLY <2>3, <2>5 DEF Fields
    <2> QED
        BY <1>1, <2>4, <2>6
<1>3. finished'[s] = last /\ \A o \in Server \ {s} : finished'[o] = finished[o]
    BY <1>0, <1>1 DEF TypeOK
<1>4. /\ last.type = "finished" /\ last.verifyData = FinishedData(HandshakeKey("server", x), u)
      /\ last.verifyData.key.role = "server" /\ last.verifyData.key.secret = x
      /\ last.verifyData.transcript = u /\ last # None
    <2>1. "type" \in DOMAIN last /\ DOMAIN None = {}
        BY <1>1 DEF Finished, None
    <2> QED
        BY <1>1, <2>1 DEF Finished, FinishedData, HandshakeKey
<1>5. /\ t \in Seq(net) /\ u \in Seq(net') /\ t \in Seq(net')
      /\ Len(t) \in Nat /\ Len(u) = Len(t) + 2
      /\ DOMAIN t = 1 .. Len(t) /\ DOMAIN u = 1 .. Len(t) + 2
      /\ \A i \in 1 .. Len(t) : u[i] = t[i]
      /\ u[Len(t) + 1] = cert /\ u[Len(t) + 2] = verify
    <2>1. t \in Seq(net) /\ t \in Seq(net')
        BY <1>0, <1>1 DEF TypeOK, IsConnection
    <2>2. u \in Seq(net')
        BY <1>1, <2>1
    <2> QED
        BY <1>1, <2>1, <2>2
<1>6. IsPrefix(t, u) /\ IsPrefix(u, u) /\ SubSeq(u, 1, Len(t) + 2) = u
    BY <1>5, PrefixByPlace
<1>7. Grows(s)
    BY <1>1, <1>2, <1>6 DEF Grows, Established, Concluded
<1>8. HelloOK(s)'
    BY <1>0, <1>1, <1>2, <1>7, HelloKept, ZenonT(40) DEF HelloOK
<1>9. \A i \in DOMAIN u \ DOMAIN t :
        /\ u[i].type # "server_hello"
        /\ u[i].type = "certificate_verify" =>
             \E m \in net' : /\ m.type = "finished"
                             /\ m.verifyData = FinishedData(HandshakeKey("server", x), SubSeq(u, 1, i))
    <2>1. \A i \in DOMAIN u \ DOMAIN t : i = Len(t) + 1 \/ i = Len(t) + 2
        BY <1>5
    <2>2. last \in net'
        BY <1>1
    <2>3. \E m \in net' : /\ m.type = "finished"
                          /\ m.verifyData = FinishedData(HandshakeKey("server", x), SubSeq(u, 1, Len(t) + 2))
        BY <1>4, <1>6, <2>2
    <2>4. ASSUME NEW i \in DOMAIN u \ DOMAIN t
          PROVE  /\ u[i].type # "server_hello"
                 /\ u[i].type = "certificate_verify" =>
                      \E m \in net' : /\ m.type = "finished"
                                      /\ m.verifyData = FinishedData(HandshakeKey("server", x), SubSeq(u, 1, i))
        <3>1. CASE i = Len(t) + 1
            BY <1>1, <1>5, <3>1
        <3>2. CASE i = Len(t) + 2
            BY <1>1, <1>5, <2>3, <3>2
        <3> QED
            BY <2>1, <3>1, <3>2
    <2> QED
        BY <2>4
<1>10. ServerHellos(s)' /\ CertificatesSent(s)' /\ (Established(s) => ServerConcludes(s)')
    <2>1. /\ conn'[s].secret = conn[s].secret
          /\ \A i \in DOMAIN conn'[s].transcript \ DOMAIN conn[s].transcript :
              /\ conn'[s].transcript[i].type # "server_hello"
              /\ conn'[s].transcript[i].type = "certificate_verify" =>
                   \E m \in net' : /\ m.type = "finished"
                                   /\ m.verifyData = FinishedData(HandshakeKey("server", conn[s].secret),
                                                                  SubSeq(conn'[s].transcript, 1, i))
        <3>1. conn'[s].transcript = u /\ conn[s].transcript = t /\ conn[s].secret = x /\ conn'[s].secret = x
            BY <1>1, <1>2
        <3> QED
            BY <1>9, <3>1, Zenon
    <2> QED
        BY <1>0, <1>7, <2>1, ServerGoesOn
<1>11. LastFinished(s)'
    BY <1>2, <1>3, <1>4, <1>5 DEF LastFinished
<1>12. ServerOK(s)'
    <2>1. Established(s)' <=> Established(s)
        BY <1>2 DEF Established
    <2> QED
        BY <1>10, <1>11, <2>1 DEF ServerOK, ServerConcludes
<1>13. finished[s] # None => Len(finished[s].verifyData.transcript) < Len(finished'[s].verifyData.transcript)
    <2>1. PICK v : v = finished[s].verifyData.transcript
        OBVIOUS
    <2>2. finished[s] # None => v \in Seq(net) /\ Len(v) <= Len(t)
        BY <1>0, <1>1, <2>1 DEF ServerOK, LastFinished
    <2>3. finished[s] # None => Len(v) \in Nat
        BY <2>2
    <2> QED
        BY <1>3, <1>4, <1>5, <2>1, <2>2, <2>3
<1>14. ASSUME NEW m \in net' \ net, m.type = "finished" PROVE FinishedOK(m)'
    <2>1. m = last
        BY <1>1, <1>14
    <2>2. OfServer(m, s)'
        BY <1>2, <1>3, <1>4, <1>6, <2>1 DEF OfServer
    <2> QED
        BY <1>4, <1>5, <2>1, <2>2 DEF FinishedOK
<1> QED
    BY <1>0, <1>3, <1>4, <1>5, <1>7, <1>8, <1>12, <1>13, <1>14, HandshakeFrame

\* The server's own Finished, and the client's if it is accepted.
LEMMA ServerFinishedStep ==
    ASSUME Assumed, HandshakeInv, KeyInv', NEW s \in Server, NEW m \in net, ServerProcessFinished(s, m)
    PROVE  HandshakeInv'
<1>0. /\ s \in Endpoint /\ s \notin Client /\ TypeOK /\ TypeOK' /\ SecretOK(s)
      /\ HelloOK(s) /\ ServerOK(s)
    BY DEF Assumed, HandshakeInv, KeyInv, Endpoint
<1>1. PICK t, f, a, x : /\ t = conn[s].transcript /\ f = finished[s] /\ x = conn[s].secret
                        /\ a = [conn[s] EXCEPT !.transcript = Append(@, f)]
    OBVIOUS
<1>2. /\ m.type = "finished" /\ f # None /\ f.type = "finished" /\ f \in net /\ x # None
      /\ net' = net /\ finished' = finished
      /\ conn' = [conn EXCEPT ![s] = IF Accepts(a, "client", m) THEN Connected(s, a, m) ELSE a]
      /\ conn[s].cipher["application"] = None
      /\ \A o \in Endpoint \ {s} : conn'[o] = conn[o]
    BY <1>0, <1>1 DEF ServerProcessFinished, TypeOK, ServerOK, LastFinished, SecretOK, Keyed
<1>3. /\ t \in Seq(net) /\ Append(t, f) \in Seq(net) /\ IsPrefix(t, Append(t, f))
    BY <1>0, <1>1, <1>2, Fronts DEF TypeOK, IsConnection
<1>4. /\ DOMAIN a = Fields /\ a.transcript = Append(t, f) /\ a.secret = x
      /\ a.cipher = conn[s].cipher /\ a.early = conn[s].early
      /\ a.group = conn[s].group /\ a.suite = conn[s].suite
      /\ DOMAIN a.cipher = Level
    BY <1>0, <1>1 DEF TypeOK, IsConnection, Fields
<1>5. CASE ~Accepts(a, "client", m)
    <2>1. conn'[s] = a
        BY <1>0, <1>2, <1>5 DEF TypeOK
    <2>2. Grows(s)
        BY <1>1, <1>2, <1>3, <1>4, <2>1 DEF Grows, Established
    <2>3. HelloOK(s)'
        BY <1>0, <1>1, <1>2, <2>2, HelloKept
    <2>4. \A i \in DOMAIN Append(t, f) \ DOMAIN t :
            Append(t, f)[i].type # "server_hello" /\ Append(t, f)[i].type # "certificate_verify"
        BY <1>2, <1>3
    <2>5. ServerHellos(s)' /\ CertificatesSent(s)' /\ LastFinished(s)'
        <3>1. conn'[s].secret = conn[s].secret /\ finished'[s] = finished[s]
            BY <1>1, <1>2, <1>4, <2>1
        <3>2. \A i \in DOMAIN conn'[s].transcript \ DOMAIN conn[s].transcript :
                /\ conn'[s].transcript[i].type # "server_hello"
                /\ conn'[s].transcript[i].type # "certificate_verify"
            BY <1>1, <1>4, <2>1, <2>4
        <3> QED
            BY <1>0, <2>2, <3>1, <3>2, ServerGoesOn
    <2>6. ServerConcludes(s)'
        BY <1>2, <1>4, <2>1 DEF ServerConcludes, Established
    <2>7. finished'[s].verifyData.transcript \in Seq(net')
        BY <1>1, <1>2, <2>5 DEF LastFinished
    <2> QED
        BY <1>0, <1>1, <1>2, <2>2, <2>3, <2>5, <2>6, <2>7, HandshakeFrame DEF ServerOK
<1>6. CASE Accepts(a, "client", m)
    <2>1. PICK u, w : /\ u = Append(Append(t, f), m)
                      /\ w = CipherOf(s, LAMBDA role : ApplicationKey(role, x, u))
        OBVIOUS
    <2>2. w # None /\ w.write.transcript = u
        <3>1. w = AEADCipher(ApplicationKey(Role(s), x, u), ApplicationKey(Peer(s), x, u))
            BY <2>1 DEF CipherOf
        <3> QED
            BY <3>1, NotNone DEF AEADCipher, ApplicationKey
    <2>3. conn'[s] = [a EXCEPT !.state = "connected", !.transcript = u, !.cipher["application"] = w]
        <3>1. conn'[s] = Connected(s, a, m)
            BY <1>0, <1>2, <1>6 DEF TypeOK
        <3> QED
            BY <1>4, <2>1, <3>1 DEF Connected
    <2>4. /\ conn'[s].transcript = u /\ conn'[s].secret = x /\ conn'[s].early = conn[s].early
          /\ conn'[s].group = conn[s].group /\ conn'[s].suite = conn[s].suite
          /\ conn'[s].cipher["application"] = w
        BY <1>4, <2>3 DEF Fields, Level
    <2>5. /\ u \in Seq(net) /\ Front(u) = Append(t, f) /\ IsPrefix(Append(t, f), u)
          /\ Len(u) = Len(t) + 2 /\ Len(t) \in Nat /\ DOMAIN t = 1 .. Len(t) /\ DOMAIN u = 1 .. Len(t) + 2
          /\ u[Len(t) + 1] = f /\ u[Len(t) + 2] = m
        <3>1. u \in Seq(net) /\ Front(u) = Append(t, f) /\ IsPrefix(Append(t, f), u)
            BY <1>3, <2>1, Fronts
        <3>2. /\ Len(u) = Len(t) + 2 /\ Len(t) \in Nat /\ DOMAIN t = 1 .. Len(t) /\ DOMAIN u = 1 .. Len(t) + 2
              /\ u[Len(t) + 1] = f /\ u[Len(t) + 2] = m
            BY <1>2, <1>3, <2>1
        <3> QED
            BY <3>1, <3>2
    <2>6. IsPrefix(t, u) /\ IsPrefix(u, u)
        <3>1. PICK v : v = Append(t, f)
            OBVIOUS
        <3>2. IsPrefix(t, u)
            BY <1>3, <2>5, <3>1, PrefixOfPrefix
        <3>3. IsPrefix(u, u)
            BY <2>5, PrefixByPlace
        <3> QED
            BY <3>2, <3>3
    <2>7. Grows(s)
        BY <1>1, <1>2, <2>4, <2>6 DEF Grows, Established
    <2>8. HelloOK(s)'
        BY <1>0, <1>1, <1>2, <2>7, HelloKept
    <2>9. \A i \in DOMAIN u \ DOMAIN t : u[i].type # "server_hello" /\ u[i].type # "certificate_verify"
        <3>1. \A i \in DOMAIN u \ DOMAIN t : i = Len(t) + 1 \/ i = Len(t) + 2
            BY <2>5
        <3> QED
            BY <1>2, <2>5, <3>1
    <2>10. ServerHellos(s)' /\ CertificatesSent(s)' /\ LastFinished(s)'
        BY <1>0, <1>1, <1>2, <2>4, <2>7, <2>9, ServerGoesOn
    <2>11. ServerConcludes(s)'
        <3>1. m.verifyData = FinishedData(HandshakeKey("client", x), Front(u))
            BY <1>4, <1>6, <2>5 DEF Accepts
        <3>2. Sent("client", x, Front(u))'
            BY <1>2, <3>1 DEF Sent
        <3>3. Concluded(s)' = u
            BY <2>2, <2>4 DEF Concluded
        <3>4. x # None /\ u \in Seq(net') /\ Len(u) > 1
            BY <1>2, <2>5
        <3> QED
            BY <2>4, <2>6, <3>2, <3>3, <3>4 DEF ServerConcludes, Sent
    <2>12. finished'[s].verifyData.transcript \in Seq(net')
        BY <1>1, <1>2, <2>10 DEF LastFinished
    <2> QED
        BY <1>0, <1>1, <1>2, <2>7, <2>8, <2>10, <2>11, <2>12, HandshakeFrame DEF ServerOK
<1> QED
    BY <1>5, <1>6

-----------------------------------------------------------------------------
(* What is agreed on.                                                      *)

\* The invariant holds at first, and every step keeps it.
LEMMA HandshakeInductive ==
    ASSUME Assumed
    PROVE  /\ Init => HandshakeInv
           /\ HandshakeInv /\ [Next]_vars => HandshakeInv'
<1>1. Init => HandshakeInv
    <2> SUFFICES ASSUME Init PROVE HandshakeInv
        OBVIOUS
    <2>1. KeyInv
        BY KeyInvFirst
    <2>2. /\ \A e \in Endpoint : conn[e].transcript = << >> /\ conn[e].secret = None /\ ~Established(e)
                                 /\ conn[e].state = "initial"
          /\ \A s \in Server : finished[s] = None
          /\ net = {}
          /\ Client \subseteq Endpoint /\ Server \subseteq Endpoint
        BY DEF Init, Established, Level, Endpoint
    <2>3. \A e \in Endpoint : HelloOK(e)
        BY <2>2 DEF HelloOK
    <2>4. \A s \in Server : ServerOK(s)
        BY <2>2 DEF ServerOK, ServerHellos, CertificatesSent, LastFinished, ServerConcludes
    <2>5. \A c \in Client : ClientOK(c)
        BY <2>2 DEF ClientOK
    <2> QED
        BY <2>1, <2>2, <2>3, <2>4, <2>5 DEF HandshakeInv
<1>2. HandshakeInv /\ [Next]_vars => HandshakeInv'
    <2> SUFFICES ASSUME HandshakeInv, [Next]_vars PROVE HandshakeInv'
        OBVIOUS
    <2>1. KeyInv'
        BY KeyInvKept DEF HandshakeInv
    <2>2. Client \subseteq Endpoint /\ Server \subseteq Endpoint
        BY DEF Endpoint
    <2>3. CASE Next
        BY <2>1, <2>2, <2>3, ClientHelloStep, ServerHelloStep, NoKeyShareStep, ProcessServerHelloStep,
           ProcessCertificateStep, ClientFinishedStep, GenerateAuthStep, ServerFinishedStep, RecordSteps
        DEF Next, Receive
    <2>4. CASE UNCHANGED vars
        <3>1. \A e \in Endpoint : HelloOK(e)'
            BY <2>4 DEF vars, HandshakeInv, HelloOK
        <3>2. ASSUME NEW s \in Server PROVE ServerOK(s)'
            <4>1. ServerOK(s)
                BY DEF HandshakeInv
            <4> QED
                BY <2>4, <4>1 DEF vars, ServerOK, ServerHellos, CertificatesSent, LastFinished,
                                  ServerConcludes, Established, Concluded, Sent
        <3>3. \A c \in Client : ClientOK(c)'
            BY <2>4 DEF vars, HandshakeInv, ClientOK, Established, Concluded, Sent
        <3>4. \A m \in net' : m.type = "finished" => FinishedOK(m)'
            BY <2>4 DEF vars, HandshakeInv, FinishedOK, OfServer, OfClient, Established, Concluded
        <3> QED
            BY <2>1, <3>1, <3>2, <3>3, <3>4 DEF HandshakeInv
    <2> QED
        BY <2>3, <2>4
<1> QED
    BY <1>1, <1>2

\* A server's Finished that a client with a secret accepts names the server that has the
\* secret, too.
LEMMA FromServer ==
    ASSUME HandshakeInv, NEW m \in net, m.type = "finished", NEW x, x # None, NEW t,
           m.verifyData = FinishedData(HandshakeKey("server", x), t)
    PROVE  \E s \in Server : OfServer(m, s) /\ conn[s].secret = x
<1>1. m.verifyData.key.role = "server" /\ m.verifyData.key.secret = x
    BY DEF FinishedData, HandshakeKey
<1>2. FinishedOK(m)
    BY DEF HandshakeInv
<1>3. PICK s \in Server : OfServer(m, s)
    BY <1>1, <1>2 DEF FinishedOK
<1> QED
    BY <1>1, <1>3 DEF OfServer

LEMMA FromClient ==
    ASSUME HandshakeInv, NEW x, NEW t, Sent("client", x, t)
    PROVE  \E c \in Client : Established(c) /\ conn[c].secret = x /\ Concluded(c) = t
<1>1. PICK m \in net : m.type = "finished" /\ m.verifyData = FinishedData(HandshakeKey("client", x), t)
    BY DEF Sent
<1>2. m.verifyData.key.role = "client" /\ m.verifyData.key.secret = x /\ m.verifyData.transcript = t
    BY <1>1 DEF FinishedData, HandshakeKey
<1>3. FinishedOK(m)
    BY <1>1 DEF HandshakeInv
<1> QED
    BY <1>2, <1>3 DEF FinishedOK, OfClient

\* A client that has finished shares its secrets, group, suite and the server's certificate
\* with a server, and a server that has, with a client: for any number of connections, and
\* whatever messages are delayed, repeated or given to others.
LEMMA Agreement == ASSUME Assumed PROVE HandshakeInv => HandshakeAgreement
<1>1. HandshakeInv => HandshakeAgreement
    <2> SUFFICES ASSUME HandshakeInv PROVE HandshakeAgreement
        OBVIOUS
    <2>0. Client \subseteq Endpoint /\ Server \subseteq Endpoint /\ \A e \in Endpoint : HelloOK(e) /\ conn[e].transcript \in Seq(net)
        BY DEF Endpoint, HandshakeInv, KeyInv, TypeOK, IsConnection
    <2>1. ASSUME NEW c \in Client, NEW s \in Server, conn[c].secret # None, conn[s].secret = conn[c].secret
          PROVE  conn[s].group = conn[c].group /\ conn[s].suite = conn[c].suite
        BY <2>0, <2>1 DEF HelloOK
    <2>2. ASSUME NEW c \in Client, Established(c)
          PROVE  \E s \in Server : /\ conn[s].secret = conn[c].secret
                                   /\ conn[s].group = conn[c].group
                                   /\ conn[s].suite = conn[c].suite
                                   /\ IsPrefix(Front(Concluded(c)), conn[s].transcript)
        <3>1. PICK t, m, x : t = conn[c].transcript /\ m = Last(t) /\ x = conn[c].secret
            OBVIOUS
        <3>2. /\ x # None /\ Concluded(c) = t /\ t # << >> /\ m.type = "finished"
              /\ m.verifyData = FinishedData(HandshakeKey("server", x), Front(t))
            BY <2>2, <3>1 DEF HandshakeInv, ClientOK
        <3>3. m \in net
            BY <2>0, <3>1, <3>2, Ends
        <3>4. PICK s \in Server : OfServer(m, s) /\ conn[s].secret = x
            BY <3>2, <3>3, FromServer
        <3>5. IsPrefix(Front(t), conn[s].transcript)
            BY <3>2, <3>4 DEF OfServer, FinishedData
        <3> QED
            BY <2>1, <3>1, <3>2, <3>4, <3>5
    <2>3. ASSUME NEW s \in Server, Established(s)
          PROVE  \E c \in Client : /\ Established(c)
                                   /\ conn[s].secret = conn[c].secret
                                   /\ conn[s].group = conn[c].group
                                   /\ conn[s].suite = conn[c].suite
                                   /\ IsPrefix(Front(Concluded(c)), conn[s].transcript)
                                   /\ Front(Concluded(s)) = Concluded(c)
        <3>1. PICK t, v, x : t = conn[s].transcript /\ v = Concluded(s) /\ x = conn[s].secret
            OBVIOUS
        <3>2. /\ x # None /\ v \in Seq(net) /\ Len(v) > 1 /\ IsPrefix(v, t)
              /\ Sent("client", x, Front(v))
            BY <2>3, <3>1 DEF HandshakeInv, ServerOK, ServerConcludes
        <3>3. PICK c \in Client : Established(c) /\ conn[c].secret = x /\ Concluded(c) = Front(v)
            BY <3>2, FromClient
        <3>4. PICK w : w = Front(v)
            OBVIOUS
        <3>5. w \in Seq(net) /\ IsPrefix(w, v) /\ w # << >>
            <4>1. v # << >> /\ Len(v) \in Nat
                BY <3>2
            <4>2. w \in Seq(net) /\ IsPrefix(w, v) /\ Len(w) = Len(v) - 1
                BY <3>2, <3>4, <4>1, Ends
            <4> QED
                BY <3>2, <4>1, <4>2
        <3>6. Front(w) \in Seq(net) /\ IsPrefix(Front(w), w)
            BY <3>5, Ends
        <3>7. PICK y : y = Front(w)
            OBVIOUS
        <3>8. t \in Seq(net)
            BY <2>0, <3>1
        <3>9. IsPrefix(y, v)
            BY <3>2, <3>5, <3>6, <3>7, PrefixOfPrefix
        <3>10. IsPrefix(y, t)
            BY <3>2, <3>6, <3>7, <3>8, <3>9, PrefixOfPrefix
        <3> QED
            BY <2>1, <3>1, <3>2, <3>3, <3>4, <3>7, <3>10
    <2> QED
        BY <2>2, <2>3 DEF HandshakeAgreement
<1> QED
    BY <1>1

\* A transcript that begins a server's, and a secret derived from its beginning: the
\* ServerHello in it is the server's one, so the server has a secret of the same transcript.
LEMMA OneServerHello ==
    ASSUME HandshakeInv, NEW e \in Endpoint, NEW s \in Server, conn[e].secret # None,
           NEW t \in Seq(net), IsPrefix(conn[e].secret.transcript, t), IsPrefix(t, conn[s].transcript)
    PROVE  LET hello == Last(conn[e].secret.transcript)
               p == Len(conn[e].secret.transcript)
           IN  /\ conn[s].secret # None
               /\ conn[s].secret.transcript = conn[e].secret.transcript
               /\ hello.server = s
               /\ p > 1 /\ p - 1 \in DOMAIN t
               /\ t[p - 1].type = "client_hello" /\ t[p - 1].client = hello.client
<1>1. PICK u, x, y, p, h : /\ u = conn[s].transcript /\ x = conn[e].secret.transcript
                           /\ y = conn[s].secret.transcript /\ p = Len(x) /\ h = Last(x)
    OBVIOUS
<1>2. s \in Endpoint /\ HelloOK(e) /\ HelloOK(s) /\ ServerHellos(s)
    BY DEF HandshakeInv, ServerOK, Endpoint
<1>3. u \in Seq(net) /\ x \in Seq(net) /\ x # << >> /\ h.type = "server_hello"
    BY <1>1, <1>2 DEF HandshakeInv, KeyInv, TypeOK, IsConnection, HelloOK
<1>4. p \in Nat /\ p >= 1 /\ h = x[p]
    <2>1. Len(x) \in Nat /\ Len(x) >= 1
        BY <1>3
    <2>2. Last(x) = x[Len(x)]
        BY <1>3, Ends
    <2> QED
        BY <1>1, <2>1, <2>2
<1>5. IsPrefix(x, t) /\ IsPrefix(t, u)
    BY <1>1
<1>6. p <= Len(t) /\ t[p] = h /\ \A i \in 1 .. p : t[i] = x[i]
    BY <1>1, <1>3, <1>4, <1>5, Pieces
<1>7. Len(t) <= Len(u) /\ (\A i \in 1 .. Len(t) : u[i] = t[i]) /\ SubSeq(u, 1, p) = SubSeq(t, 1, p)
    BY <1>3, <1>4, <1>5, <1>6, Pieces
<1>8. SubSeq(t, 1, p) = x
    BY <1>1, <1>3, <1>5, Pieces
<1>9. Len(t) \in Nat /\ Len(u) \in Nat /\ DOMAIN t = 1 .. Len(t) /\ DOMAIN u = 1 .. Len(u)
    BY <1>3
<1>10. p \in DOMAIN u /\ u[p].type = "server_hello" /\ u[p] = h
    BY <1>3, <1>4, <1>6, <1>7, <1>9
<1>11. /\ conn[s].secret # None /\ p = Len(y) /\ p > 1
       /\ u[p - 1].type = "client_hello" /\ u[p - 1].client = h.client
    BY <1>1, <1>2, <1>10 DEF ServerHellos
<1>12. y \in Seq(net) /\ IsPrefix(y, u) /\ Last(y).server = s
    BY <1>1, <1>2, <1>11 DEF HelloOK
<1>13. y = x
    <2>1. SubSeq(u, 1, p) = y
        BY <1>3, <1>11, <1>12, Pieces
    <2> QED
        BY <1>7, <1>8, <2>1
<1>14. p - 1 \in 1 .. Len(t) /\ t[p - 1] = u[p - 1]
    BY <1>4, <1>6, <1>7, <1>9, <1>11
<1> QED
    BY <1>1, <1>9, <1>11, <1>12, <1>13, <1>14

\* Nothing but the pre-shared key can keep a client and a server from finishing whose
\* messages came in order: some Finished that was sent is the one the other side expects.
LEMMA CanFinish == ASSUME Assumed PROVE HandshakeInv => HandshakeCanFinish
<1>1. HandshakeInv => HandshakeCanFinish
    <2> SUFFICES ASSUME HandshakeInv, NEW c \in Client, NEW s \in Server
                 PROVE  /\ /\ conn[c].state = "wait_finished"
                           /\ conn[c].early = conn[s].early
                           /\ IsPrefix(conn[c].transcript, conn[s].transcript)
                           => \E m \in net : m.type = "finished" /\ Accepts(conn[c], "server", m)
                        /\ /\ Established(c)
                           /\ conn[s].state = "wait_finished"
                           /\ conn[s].transcript = Front(conn[c].transcript)
                           => \E m \in net :
                                 /\ m.type = "finished"
                                 /\ Accepts([conn[s] EXCEPT !.transcript = Append(@, finished[s])], "client", m)
        BY DEF HandshakeCanFinish
    <2> DEFINE t == conn[c].transcript
               u == conn[s].transcript
    <2>0. /\ c \in Endpoint /\ s \in Endpoint /\ c \notin Server /\ TypeOK /\ SecretOK(c) /\ SecretOK(s)
          /\ HelloOK(c) /\ HelloOK(s) /\ ClientOK(c) /\ ServerOK(s)
          /\ t \in Seq(net) /\ u \in Seq(net)
        BY DEF Assumed, Endpoint, HandshakeInv, KeyInv, TypeOK, IsConnection
    <2>1. ASSUME conn[c].state = "wait_finished", conn[c].early = conn[s].early, IsPrefix(t, u)
          PROVE  \E m \in net : m.type = "finished" /\ Accepts(conn[c], "server", m)
        <3>1. PICK x, y, h, p : /\ x = conn[c].secret /\ y = conn[s].secret
                                /\ h = Last(x.transcript) /\ p = Len(x.transcript)
            OBVIOUS
        <3>2. /\ x # None /\ IsPrefix(x.transcript, t)
              /\ x = HandshakeSecret(conn[c].early, Shared(h.group, h.server, c), x.transcript)
            BY <2>0, <2>1, <3>1 DEF SecretOK, Keyed, HelloOK
        <3>3. /\ y # None /\ y.transcript = x.transcript /\ h.server = s
              /\ p - 1 \in DOMAIN t /\ t[p - 1].type = "client_hello" /\ t[p - 1].client = h.client
            BY <2>0, <2>1, <3>1, <3>2, OneServerHello, SMTT(30)
        <3>4. h.client = c
            BY <2>0, <3>3 DEF ClientOK
        <3>5. y = x
            BY <2>0, <2>1, <3>1, <3>2, <3>3, <3>4 DEF HelloOK
        <3>6. t # << >> /\ Last(t).type = "certificate_verify" /\ Len(x.transcript) < Len(t)
            BY <2>0, <2>1, <3>1 DEF ClientOK
        <3>7. Last(t) = t[Len(t)] /\ Len(t) \in 1 .. Len(t)
            <4>1. Len(t) \in Nat /\ Len(t) >= 1
                BY <2>0, <3>6
            <4>2. Last(t) = t[Len(t)]
                BY <2>0, <3>6, Ends
            <4> QED
                BY <4>1, <4>2
        <3>8. u[Len(t)] = t[Len(t)] /\ SubSeq(u, 1, Len(t)) = t /\ Len(t) \in DOMAIN u
            <4>1. Len(t) <= Len(u) /\ SubSeq(u, 1, Len(t)) = t /\ \A i \in 1 .. Len(t) : u[i] = t[i]
                BY <2>0, <2>1, Pieces
            <4>2. DOMAIN u = 1 .. Len(u) /\ Len(u) \in Nat
                BY <2>0
            <4> QED
                BY <3>7, <4>1, <4>2
        <3>9. Sent("server", x, SubSeq(u, 1, Len(t)))
            BY <2>0, <3>1, <3>3, <3>5, <3>6, <3>7, <3>8 DEF ServerOK, CertificatesSent
        <3>10. Sent("server", x, t)
            BY <3>8, <3>9
        <3> QED
            BY <3>1, <3>10 DEF Sent, Accepts
    <2>2. ASSUME Established(c), conn[s].state = "wait_finished", u = Front(t)
          PROVE  \E m \in net :
                    /\ m.type = "finished"
                    /\ Accepts([conn[s] EXCEPT !.transcript = Append(@, finished[s])], "client", m)
        <3>1. PICK x, m, h : x = conn[c].secret /\ m = Last(t) /\ h = Last(x.transcript)
            OBVIOUS
        <3>2. /\ x # None /\ t # << >> /\ Len(x.transcript) < Len(t)
              /\ m.type = "finished"
              /\ m.verifyData = FinishedData(HandshakeKey("server", x), u)
              /\ Sent("client", x, t)
            BY <2>0, <2>2, <3>1 DEF ClientOK
        <3>3. /\ m \in net /\ t = Append(u, m) /\ Len(u) = Len(t) - 1 /\ IsPrefix(u, t)
            BY <2>0, <2>2, <3>1, <3>2, Ends
        <3>4. PICK o \in Server : OfServer(m, o) /\ conn[o].secret = x
            BY <3>2, <3>3, FromServer
        <3>5. x.transcript \in Seq(net) /\ IsPrefix(x.transcript, t) /\ x.shared.server = h.server
            BY <2>0, <3>1, <3>2 DEF HelloOK, HandshakeSecret, Shared
        <3>6. h.server = o
            <4>1. HelloOK(o) /\ o \in Endpoint
                BY DEF HandshakeInv, Endpoint
            <4> QED
                BY <3>1, <3>2, <3>4, <4>1 DEF HelloOK
        <3>7. IsPrefix(x.transcript, u)
            <4>1. PICK v : v = x.transcript
                OBVIOUS
            <4>2. Len(v) <= Len(t) /\ \A i \in 1 .. Len(v) : v[i] = t[i]
                BY <2>0, <3>5, <4>1, PrefixByPlace
            <4>3. \A i \in 1 .. Len(u) : u[i] = t[i]
                BY <2>0, <3>3, PrefixByPlace
            <4>4. Len(v) \in Nat /\ Len(t) \in Nat /\ Len(u) \in Nat /\ Len(v) <= Len(u)
                BY <2>0, <3>2, <3>3, <3>5, <4>1
            <4>5. \A i \in 1 .. Len(v) : v[i] = u[i]
                BY <4>2, <4>3, <4>4
            <4> QED
                BY <2>0, <3>5, <4>1, <4>4, <4>5, PrefixByPlace
        <3>8. IsPrefix(u, u)
            BY <2>0, PrefixByPlace
        <3>9. h.server = s
            BY <2>0, <3>1, <3>2, <3>7, <3>8, OneServerHello
        <3>10. conn[s].secret = x /\ OfServer(m, s)
            BY <3>4, <3>6, <3>9
        <3>11. m = finished[s]
            <4>1. PICK v : v = finished[s].verifyData.transcript
                OBVIOUS
            <4>2. finished[s] # None /\ (m = finished[s] \/ Len(u) < Len(v))
                BY <3>2, <3>10, <4>1 DEF OfServer, FinishedData, HandshakeKey
            <4>3. v \in Seq(net) /\ Len(v) <= Len(u)
                BY <2>0, <4>1, <4>2 DEF ServerOK, LastFinished
            <4>4. Len(v) \in Nat /\ Len(u) \in Nat
                BY <2>0, <4>3
            <4> QED
                BY <4>2, <4>3, <4>4
        <3>12. PICK a : a = [conn[s] EXCEPT !.transcript = Append(@, finished[s])]
            OBVIOUS
        <3>13. a.transcript = t /\ a.secret = x
            BY <2>0, <3>3, <3>10, <3>11, <3>12 DEF TypeOK, IsConnection, Fields
        <3>14. \E n \in net : n.type = "finished" /\ Accepts(a, "client", n)
            BY <3>2, <3>13 DEF Sent, Accepts
        <3> QED
            BY <3>12, <3>14
    <2> QED
        BY <2>1, <2>2
<1> QED
    BY <1>1

\* All of it, for any number of clients and servers (PQTLSConnection): who has finished
\* agrees with the other side, what came in order can be finished, and records keep their
\* order.
THEOREM HandshakesSafe ==
    ASSUME Assumed
    PROVE  Spec => [](HandshakeAgreement /\ HandshakeCanFinish /\ RecordsInOrder)
<1>1. HandshakeInv => HandshakeAgreement /\ HandshakeCanFinish /\ RecordsInOrder
    BY Agreement, CanFinish, RecordsKeepOrder DEF HandshakeInv
<1> QED
    BY <1>1, HandshakeInductive, PTL DEF Spec

=============================================================================
