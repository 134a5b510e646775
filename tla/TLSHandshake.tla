---------------------------- MODULE TLSHandshake ----------------------------
(***************************************************************************)
(* The TLS handshake of src/src/algorithms/pq-tls-handshake.ts: objects of *)
(* PQTLSConnection on both sides, the key schedule, and the record cipher. *)
(* The application carries the messages: it may delay or repeat them, and  *)
(* give a message to a connection that it was not meant for.               *)
(*                                                                         *)
(* Hashes, HMAC and HKDF are injective: a secret is the record of what it  *)
(* was derived from.  A transcript is the sequence of its messages.        *)
(***************************************************************************)
EXTENDS Naturals, Sequences, FiniteSets, SequencesExt

CONSTANTS
    Client, Server,  \* connections with isServer = false and true
    Groups, Suites,  \* namedGroups and cipherSuites of each, in its order
    Psk, NoPsk,      \* the pre-shared key of each, or none
    Chained,         \* the servers whose certificate comes with its issuer's
    MaxAuth,         \* bound: calls of serverGenerateAuth() on a connection
    MaxTranscript,   \* bound: messages in a server's transcript
    MaxRecord,       \* bound: records
    MaxUpdate        \* bound: key updates of a connection

Endpoint == Client \cup Server

Group == {"kyber768", "x25519", "x25519_kyber768"}
Suite == {"aes_256_gcm", "chacha20_poly1305"}
Level == {"handshake", "application"}

\* What is assumed of the constants.
Assumed ==
    /\ Client \cap Server = {} /\ Chained \subseteq Server
    /\ Groups \in [Endpoint -> Seq(Group)]
    /\ Suites \in [Endpoint -> Seq(Suite)]
    /\ DOMAIN Psk = Endpoint
    /\ {MaxAuth, MaxTranscript, MaxRecord, MaxUpdate} \subseteq Nat

VARIABLES
    conn,     \* the connections
    net,      \* the handshake messages that were sent
    finished, \* the Finished message each server sent last
    records,  \* the records that were encrypted
    opened    \* what properties remember: the records each connection decrypted

vars == <<conn, net, finished, records, opened>>

\* An array of length 0, and null.
None == << >>

Init ==
    /\ conn = [e \in Endpoint |->
         [state |-> "initial", transcript |-> << >>, early |-> NoPsk, secret |-> None,
          group |-> "x25519_kyber768", suite |-> "aes_256_gcm",
          cipher |-> [l \in Level |-> None], auths |-> 0, updates |-> 0]]
    /\ net = {}
    /\ finished = [s \in Server |-> None]
    /\ records = {}
    /\ opened = [e \in Endpoint |-> << >>]

Role(e) == IF e \in Server THEN "server" ELSE "client"
Peer(e) == IF e \in Server THEN "client" ELSE "server"

-----------------------------------------------------------------------------
(* The key schedule.                                                       *)

HandshakeSecret(early, shared, transcript) ==
    [early |-> early, shared |-> shared, transcript |-> transcript]

HandshakeKey(role, secret) == [role |-> role, secret |-> secret]

\* The master secret comes from the handshake secret without its transcript.
ApplicationKey(role, secret, transcript) ==
    [role |-> role, early |-> secret.early, shared |-> secret.shared,
     transcript |-> transcript, update |-> 0]

UpdateTrafficSecret(key) == [key EXCEPT !.update = @ + 1]

\* One counter serves both directions.
AEADCipher(write, read) == [write |-> write, read |-> read, seq |-> 0]

CipherOf(e, key(_)) == AEADCipher(key(Role(e)), key(Peer(e)))

HandshakeCipher(e, secret) ==
    CipherOf(e, LAMBDA role : HandshakeKey(role, secret))

\* Faulty variant: the data does not depend on the transcript.
FinishedDataUnbound(key, transcript) == [key |-> key, transcript |-> << >>]

FinishedData(key, transcript) == [key |-> key, transcript |-> transcript]

Finished(key, transcript) ==
    [type |-> "finished", verifyData |-> FinishedData(key, transcript)]

-----------------------------------------------------------------------------
(* The hellos.                                                             *)

ClientHello(c) ==
    LET hello == [type |-> "client_hello", client |-> c, suites |-> ToSet(Suites[c]),
                  keyShares |-> ToSet(Groups[c]), psk |-> Psk[c] # NoPsk]
    IN  /\ conn[c].state = "initial"
        /\ conn' = [conn EXCEPT ![c].state = "wait_server_hello",
                                ![c].early = Psk[c],
                                ![c].transcript = Append(@, hello)]
        /\ net' = net \cup {hello}
        /\ UNCHANGED <<finished, records, opened>>

\* The server's order decides.
Select(preferences, offered, default) ==
    LET common == SelectSeq(preferences, LAMBDA x : x \in offered)
    IN  IF common = << >> THEN default ELSE common[1]

ServerHello(s, m, group, suite) ==
    [type |-> "server_hello", server |-> s, client |-> m.client,
     group |-> group, suite |-> suite]

Shared(group, s, c) == [group |-> group, server |-> s, client |-> c]

\* The connection after a ClientHello, up to the choice of the group.
Greeted(s, m) ==
    [conn[s] EXCEPT
       !.early = IF m.psk THEN Psk[s] ELSE NoPsk,
       !.transcript = Append(@, m),
       !.suite = Select(Suites[s], m.suites, "aes_256_gcm"),
       !.group = Select(Groups[s], m.keyShares, "kyber768")]

\* Faulty variant: the secrets are derived before the ServerHello is in the
\* transcript.
ServerProcessClientHelloEarly(s, m) ==
    LET greeted == Greeted(s, m)
        hello == ServerHello(s, m, greeted.group, greeted.suite)
        secret == HandshakeSecret(greeted.early, Shared(greeted.group, s, m.client),
                                  greeted.transcript)
    IN  /\ m.type = "client_hello"
        /\ conn[s].state = "initial"
        /\ greeted.group \in m.keyShares
        /\ conn' = [conn EXCEPT ![s] =
             [greeted EXCEPT !.state = "wait_finished", !.transcript = Append(@, hello),
                !.secret = secret, !.cipher["handshake"] = HandshakeCipher(s, secret)]]
        /\ net' = net \cup {hello}
        /\ UNCHANGED <<finished, records, opened>>

ServerProcessClientHello(s, m) ==
    LET greeted == Greeted(s, m)
        hello == ServerHello(s, m, greeted.group, greeted.suite)
        transcript == Append(greeted.transcript, hello)
        secret == HandshakeSecret(greeted.early, Shared(greeted.group, s, m.client), transcript)
    IN  /\ m.type = "client_hello"
        /\ conn[s].state = "initial"
        /\ greeted.group \in m.keyShares
        /\ conn' = [conn EXCEPT ![s] =
             [greeted EXCEPT !.state = "wait_finished", !.transcript = transcript,
                !.secret = secret, !.cipher["handshake"] = HandshakeCipher(s, secret)]]
        /\ net' = net \cup {hello}
        /\ UNCHANGED <<finished, records, opened>>

\* Without a common group it throws, the ClientHello being in the transcript.
NoMatchingKeyShare(s, m) ==
    /\ m.type = "client_hello"
    /\ conn[s].state = "initial"
    /\ Greeted(s, m).group \notin m.keyShares
    /\ Len(conn[s].transcript) < MaxTranscript
    /\ conn' = [conn EXCEPT ![s] = Greeted(s, m)]
    /\ UNCHANGED <<net, finished, records, opened>>

\* The key pairs that key shares for a group are made of.
KeyPairs(group) ==
    IF group = "x25519_kyber768" THEN {"x25519", "kyber768"} ELSE {group}

HasKeyPairs(c, group) == KeyPairs(group) \subseteq UNION {KeyPairs(g) : g \in ToSet(Groups[c])}

\* The client does not ask which client the answer is for: its own key pair
\* makes it another shared secret.  Without the key pairs it throws, the
\* ServerHello being in the transcript.
ProcessServerHello(c, m) ==
    LET transcript == Append(conn[c].transcript, m)
        secret == HandshakeSecret(conn[c].early, Shared(m.group, m.server, c), transcript)
        heard == [conn[c] EXCEPT !.transcript = transcript, !.suite = m.suite,
                                 !.group = m.group]
    IN  /\ m.type = "server_hello"
        /\ conn[c].state = "wait_server_hello"
        /\ Len(transcript) <= MaxTranscript
        /\ conn' = [conn EXCEPT ![c] =
             IF HasKeyPairs(c, m.group)
               THEN [heard EXCEPT !.state = "wait_encrypted_extensions", !.secret = secret,
                                  !.cipher["handshake"] = HandshakeCipher(c, secret)]
               ELSE heard]
        /\ UNCHANGED <<net, finished, records, opened>>

-----------------------------------------------------------------------------
(* Authentication.  The signatures of this file verify whatever they sign. *)

\* No state is asked for.  A server without a configured certificate makes one
\* up in every call.
ServerGenerateAuth(s) ==
    LET n == conn[s].auths + 1
        certificate == [type |-> "certificate", server |-> s,
                        n |-> IF s \in Chained THEN 0 ELSE n]
        verify == [type |-> "certificate_verify", server |-> s, n |-> n]
        transcript == conn[s].transcript \o <<certificate, verify>>
        last == Finished(HandshakeKey("server", conn[s].secret), transcript)
    IN  /\ conn[s].auths < MaxAuth
        /\ conn' = [conn EXCEPT ![s].auths = n, ![s].transcript = transcript]
        /\ finished' = [finished EXCEPT ![s] = last]
        /\ net' = net \cup {certificate, verify, last}
        /\ UNCHANGED <<records, opened>>

\* ok: whether the clock is within the validity period.  A certificate that
\* comes alone is not checked; one that is refused stays in the transcript.
ProcessCertificate(c, m, ok) ==
    /\ m.type = "certificate"
    /\ conn[c].state = "wait_encrypted_extensions"
    /\ ok \/ m.server \in Chained
    /\ Len(conn[c].transcript) < MaxTranscript
    /\ conn' = [conn EXCEPT ![c].transcript = Append(@, m),
                            ![c].state = IF ok THEN "wait_certificate_verify" ELSE @]
    /\ UNCHANGED <<net, finished, records, opened>>

ProcessCertificateVerify(c, m) ==
    /\ m.type = "certificate_verify"
    /\ conn[c].state = "wait_certificate_verify"
    /\ conn' = [conn EXCEPT ![c].transcript = Append(@, m), ![c].state = "wait_finished"]
    /\ UNCHANGED <<net, finished, records, opened>>

-----------------------------------------------------------------------------
(* Finished.                                                               *)

Accepts(connection, role, m) ==
    m.verifyData = FinishedData(HandshakeKey(role, connection.secret), connection.transcript)

\* processFinished() on a connection: what it is after m, given that it accepts.
Connected(e, connection, m) ==
    LET transcript == Append(connection.transcript, m)
    IN  [connection EXCEPT
           !.state = "connected", !.transcript = transcript,
           !.cipher["application"] = CipherOf(e, LAMBDA role :
               ApplicationKey(role, connection.secret, transcript))]

\* A Finished that is refused changes nothing.  The application answers an
\* accepted one with the client's.
ClientProcessFinished(c, m) ==
    /\ m.type = "finished"
    /\ conn[c].state = "wait_finished"
    /\ Accepts(conn[c], "server", m)
    /\ LET connection == Connected(c, conn[c], m)
       IN  /\ conn' = [conn EXCEPT ![c] = connection]
           /\ net' = net \cup {Finished(HandshakeKey("client", connection.secret),
                                        connection.transcript)}
    /\ UNCHANGED <<finished, records, opened>>

\* The application first puts the server's own Finished into its transcript,
\* and it stays there if the client's is refused.
ServerProcessFinished(s, m) ==
    LET connection == [conn[s] EXCEPT !.transcript = Append(@, finished[s])]
    IN  /\ m.type = "finished"
        /\ conn[s].state = "wait_finished"
        /\ finished[s] # None
        /\ Len(connection.transcript) <= MaxTranscript
        /\ conn' = [conn EXCEPT ![s] = IF Accepts(connection, "client", m)
                                         THEN Connected(s, connection, m)
                                         ELSE connection]
        /\ UNCHANGED <<net, finished, records, opened>>

-----------------------------------------------------------------------------
(* Records.  handshakeCipher is a public field; the application's cipher is *)
(* used in the connected state only.                                       *)

Usable(e, l) ==
    /\ conn[e].cipher[l] # None
    /\ l = "application" => conn[e].state = "connected"

Sealed(e, l) ==
    [key |-> conn[e].cipher[l].write, seq |-> conn[e].cipher[l].seq,
     n |-> Cardinality(records)]

Encrypt(e, l) ==
    /\ Usable(e, l)
    /\ Cardinality(records) < MaxRecord
    /\ records' = records \cup {Sealed(e, l)}
    /\ conn' = [conn EXCEPT ![e].cipher[l].seq = @ + 1]
    /\ UNCHANGED <<net, finished, opened>>

\* Faulty variant: decrypting does not count.
DecryptUncounted(e, l, r) ==
    /\ Usable(e, l)
    /\ r.key = conn[e].cipher[l].read
    /\ r.seq = conn[e].cipher[l].seq
    /\ opened' = [opened EXCEPT ![e] = Append(@, r)]
    /\ Len(opened[e]) < MaxRecord
    /\ UNCHANGED <<conn, net, finished, records>>

\* A record that does not open changes nothing.
Decrypt(e, l, r) ==
    /\ Usable(e, l)
    /\ r.key = conn[e].cipher[l].read
    /\ r.seq = conn[e].cipher[l].seq
    /\ opened' = [opened EXCEPT ![e] = Append(@, r)]
    /\ conn' = [conn EXCEPT ![e].cipher[l].seq = @ + 1]
    /\ UNCHANGED <<net, finished, records>>

\* Faulty variant: the cipher is made again with the secret it had.
KeyUpdateSameSecret(e) ==
    /\ conn[e].state = "connected"
    /\ conn[e].updates < MaxUpdate
    /\ conn' = [conn EXCEPT ![e].updates = @ + 1,
                            ![e].cipher["application"] = AEADCipher(@.write, @.read)]
    /\ UNCHANGED <<net, finished, records, opened>>

\* The own direction only; the other side is not told.
KeyUpdate(e) ==
    /\ conn[e].state = "connected"
    /\ conn[e].updates < MaxUpdate
    /\ conn' = [conn EXCEPT ![e].updates = @ + 1,
                            ![e].cipher["application"] =
                                AEADCipher(UpdateTrafficSecret(@.write), @.read)]
    /\ UNCHANGED <<net, finished, records, opened>>

\* In every state, again and again; the alert is encrypted if there is a cipher.
Close(e) ==
    /\ Cardinality(records) < MaxRecord
    /\ IF conn[e].cipher["application"] = None
         THEN /\ conn' = [conn EXCEPT ![e].state = "closed"]
              /\ UNCHANGED records
         ELSE /\ conn' = [conn EXCEPT ![e].state = "closed",
                                      ![e].cipher["application"].seq = @ + 1]
              /\ records' = records \cup {Sealed(e, "application")}
    /\ UNCHANGED <<net, finished, opened>>

-----------------------------------------------------------------------------

Receive(e, m) ==
    \/ /\ e \in Client
       /\ \/ ProcessServerHello(e, m)
          \/ \E ok \in BOOLEAN : ProcessCertificate(e, m, ok)
          \/ ProcessCertificateVerify(e, m)
          \/ ClientProcessFinished(e, m)
    \/ /\ e \in Server
       /\ \/ ServerProcessClientHello(e, m)
          \/ NoMatchingKeyShare(e, m)
          \/ ServerProcessFinished(e, m)

Next ==
    \/ \E c \in Client : ClientHello(c)
    \/ \E s \in Server : ServerGenerateAuth(s)
    \/ \E e \in Endpoint, m \in net : Receive(e, m)
    \/ \E e \in Endpoint, l \in Level :
         Encrypt(e, l) \/ \E r \in records : Decrypt(e, l, r)
    \/ \E e \in Endpoint : KeyUpdate(e) \/ Close(e)

Spec == Init /\ [][Next]_vars
-----------------------------------------------------------------------------
(* Properties.                                                             *)

Established(e) == conn[e].cipher["application"] # None

\* The transcript with which a connection finished: its keys for data come of it.
Concluded(e) == conn[e].cipher["application"].write.transcript

\* Whatever the messages went through, a client that has finished shares its
\* secrets, group, suite and the server's certificate with some server, and a
\* server that has finished shares them with some client that has, too.
HandshakeAgreement ==
    LET Same(c, s) == /\ conn[s].secret = conn[c].secret
                      /\ conn[s].group = conn[c].group
                      /\ conn[s].suite = conn[c].suite
                      /\ IsPrefix(Front(Concluded(c)), conn[s].transcript)
    IN  /\ \A c \in Client : Established(c) => \E s \in Server : Same(c, s)
        /\ \A s \in Server : Established(s) =>
              \E c \in Client :
                 /\ Established(c)
                 /\ Same(c, s)
                 /\ Front(Concluded(s)) = Concluded(c)

\* A client that was given one server's messages in order can be finished, if
\* both have the same pre-shared key or none; and then so can the server, if
\* nothing else was done to it.
HandshakeCanFinish ==
    \A c \in Client, s \in Server :
        /\ /\ conn[c].state = "wait_finished"
           /\ conn[c].early = conn[s].early
           /\ IsPrefix(conn[c].transcript, conn[s].transcript)
           => \E m \in net : m.type = "finished" /\ Accepts(conn[c], "server", m)
        /\ /\ Established(c)
           /\ conn[s].state = "wait_finished"
           /\ conn[s].transcript = Front(conn[c].transcript)
           => \E m \in net :
                 /\ m.type = "finished"
                 /\ Accepts([conn[s] EXCEPT !.transcript = Append(@, finished[s])], "client", m)

\* No two records are encrypted with the same key and nonce, over key updates,
\* the closing alert and the counter that reading advances as well.
NonceUnique ==
    \A r1, r2 \in records : r1.key = r2.key /\ r1.seq = r2.seq => r1 = r2

\* A record is opened once, and never after a later one.
OpenedInOrder ==
    \A e \in Endpoint : \A i, j \in DOMAIN opened[e] :
        i < j /\ opened[e][i].key = opened[e][j].key =>
            opened[e][i].seq < opened[e][j].seq

\* Both: records are sealed with nonces of their own, and opened in order.
RecordsInOrder == NonceUnique /\ OpenedInOrder

\* "client can encrypt data and server can decrypt it after handshake"
ApplicationKeysAgree ==
    \A c \in Client, s \in Server :
        /\ Established(c) /\ Established(s)
        /\ conn[c].secret = conn[s].secret
        /\ conn[c].updates = 0 /\ conn[s].updates = 0
        => conn[c].cipher["application"].write = conn[s].cipher["application"].read

=============================================================================
