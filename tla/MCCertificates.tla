--------------------------- MODULE MCCertificates ---------------------------
(***************************************************************************)
(* The certificate authority: certificates with their stores and chains,   *)
(* and beside them the transparency log, key rotation, the hardware module *)
(* and algorithm agility; and TLSHandshake, between two clients and two    *)
(* servers that have every kind of relation.  A behaviour is one of the    *)
(* six; the variables of the others keep their first values.  Then the     *)
(* proofs; those of the handshake rest on what is proved in TLSProofs.     *)
(***************************************************************************)
EXTENDS Certificates, TLC, FiniteSetTheorems, WellFoundedInduction, TLAPS

CONSTANTS
    Logged, MaxLog,                             \* for TransparencyLog
    Interval, Overlap, MaxLineKeys,             \* for KeyRotation
    MaxSlots, MaxSlotKeys, MaxUses, MaxEntries, \* for HardwareModule
    Preferences, Supported, Deadline,           \* for CryptoAgility
    MaxHours,                                   \* bound: time of these parts
    Client1, Client2, Server1, Server2, SharedKey, NoPsk,  \* for TLSHandshake
    MaxAuth, MaxTranscript, MaxRecord, MaxUpdate           \* for TLSHandshake

ASSUME RotationAssumption ==
    MaxLineKeys \in Nat /\ Interval \subseteq Int /\ Overlap \subseteq Int
ASSUME ModuleAssumption == MaxSlotKeys \in Nat
ASSUME AgilityAssumption ==
    \A p \in Preferences : p \in Seq(STRING) /\ \A i \in DOMAIN p : p[i] # "null"

VARIABLES
    part,
    treeHashes,
    schedule, order, givenUp, promised,
    authenticated, slots, generated, auditLog,
    algorithmPreferences, deprecatedAlgorithms, migrationDeadlines,
    conn, net, finished, records, opened

\* Time (`now') is that of whichever part a behaviour is.
certificateVars == <<certs, store, moves>>
rotationVars == <<schedule, order, givenUp, promised>>
moduleVars == <<authenticated, slots, generated, auditLog>>
agilityVars == <<algorithmPreferences, deprecatedAlgorithms, migrationDeadlines>>
authorityVars == <<vars, treeHashes, rotationVars, moduleVars, agilityVars>>
handshakeVars == <<conn, net, finished, records, opened>>

Log == INSTANCE TransparencyLog
Rotation == INSTANCE KeyRotation WITH MaxKeys <- MaxLineKeys, MaxTime <- MaxHours
Hardware == INSTANCE HardwareModule WITH MaxKeys <- MaxSlotKeys, MaxLog <- MaxEntries
Agility == INSTANCE CryptoAgility WITH MaxTime <- MaxHours

\* The first client and the first server have a pre-shared key, the first client and the
\* second server a group but not the key, the second client and the second server a group
\* and no key, the second client and the first server no group.
Peers == {Client1, Client2, Server1, Server2}
MCGroups == [e \in Peers |->
    CASE e = Client1 -> <<"x25519_kyber768", "kyber768">>
      [] e = Client2 -> <<"x25519">>
      [] e = Server1 -> <<"kyber768">>
      [] e = Server2 -> <<"x25519", "kyber768">>]
MCSuites == [e \in Peers |->
    CASE e = Client1 -> <<"aes_256_gcm">>
      [] e = Server1 -> <<"aes_256_gcm", "chacha20_poly1305">>
      [] OTHER -> <<"chacha20_poly1305">>]
MCPsk == [e \in Peers |-> IF e \in {Client1, Server1} THEN SharedKey ELSE NoPsk]

TLS == INSTANCE TLSProofs
    WITH Client <- {Client1, Client2}, Server <- {Server1, Server2}, Chained <- {Server1},
         Groups <- MCGroups, Suites <- MCSuites, Psk <- MCPsk
ASSUME HandshakeAssumption == TLS!Assumed

\* Bounds: three of the four connections are used in a behaviour, and nobody asks a
\* server to authenticate before its ServerHello.
MCBounds ==
    /\ Cardinality({e \in Peers : conn[e].transcript # << >>}) <= 3
    /\ \A s \in {Server1, Server2} : conn[s].secret = TLS!None => conn[s].auths = 0
    /\ (\E s \in {Server1, Server2} : conn[s].auths > 1) => records = {}

MCPreferences == {<<"ML-DSA-87", "ML-DSA-65", "ML-DSA-44">>, <<"ML-DSA-65", "ML-DSA-44">>}

\* Names are alike.
Symmetry == Permutations(Name)

MCInit ==
    /\ part \in {"certificates", "log", "rotation", "hardware", "agility", "handshake"}
    /\ Init
    /\ Log!Init
    /\ Rotation!Init
    /\ Hardware!Init
    /\ Agility!Init
    /\ TLS!Init
    /\ part # "agility" => Len(algorithmPreferences) = 2

MCNext ==
    /\ part' = part
    /\ \/ /\ part = "certificates"
          /\ Next
          /\ UNCHANGED <<treeHashes, rotationVars, moduleVars, agilityVars, handshakeVars>>
       \/ /\ part = "log"
          /\ Log!Next
          /\ UNCHANGED <<vars, rotationVars, moduleVars, agilityVars, handshakeVars>>
       \/ /\ part = "rotation"
          /\ Rotation!Next
          /\ UNCHANGED <<certificateVars, treeHashes, moduleVars, agilityVars, handshakeVars>>
       \/ /\ part = "hardware"
          /\ Hardware!Next
          /\ UNCHANGED <<vars, treeHashes, rotationVars, agilityVars, handshakeVars>>
       \/ /\ part = "agility"
          /\ Agility!Next
          /\ UNCHANGED <<certificateVars, treeHashes, rotationVars, moduleVars, handshakeVars>>
       \/ /\ part = "handshake"
          /\ TLS!Next
          /\ UNCHANGED authorityVars

MCSpec == MCInit /\ [][MCNext]_<<part, authorityVars, handshakeVars>>

-----------------------------------------------------------------------------

\* Of TransparencyLog: the proofs of the log prove nothing else.
ProofsMatchLog == Log!ProofsMatchLog

\* Of KeyRotation: the overlap lasts exactly as long as was promised.
OverlapAsPromised == Rotation!OverlapAsPromised

\* Of HardwareModule: the audit log explains which keys there are.
AuditExplainsState == Hardware!AuditExplainsState

\* Of CryptoAgility: who follows the plan can negotiate.
PlanCanBeFollowed == Agility!PlanCanBeFollowed

\* Of TLSHandshake: who has finished agrees with the other side, an honest handshake can
\* always be finished, and records are opened in order; and application keys are agreed on,
\* says a test.
HandshakeAgreement == TLS!HandshakeAgreement
HandshakeCanFinish == TLS!HandshakeCanFinish
RecordsInOrder == TLS!RecordsInOrder
ApplicationKeysAgree == TLS!ApplicationKeysAgree

-----------------------------------------------------------------------------
(* KeyRotation. *)

\* Every nonempty set of natural numbers has a least one.
LEMMA LeastNumber ==
    ASSUME NEW S, S \subseteq Nat, S # {}
    PROVE  \E x \in S : \A y \in S : x <= y
<1> DEFINE R == {ss \in Nat \X Nat : ss[1] < ss[2]}
<1>1. IsWellFoundedOn(R, Nat)
    BY NatLessThanWellFounded, Zenon DEF OpToRel
<1>2. \A x, y \in Nat : x < y => <<x, y>> \in R
    OBVIOUS
<1> HIDE DEF R
<1>3. PICK x \in S : \A y \in S : ~ (<<y, x>> \in R)
    BY <1>1, WFMin, Zenon
<1>4. \A y \in S : ~ (y < x)
    BY <1>2, <1>3, Zenon
<1>5. \A y \in S : x <= y
    BY <1>4
<1> QED
    BY <1>5


\* Registering and rotating keep the schedules' agreement with what was promised.
LEMMA OverlapInductive ==
    /\ Rotation!Init => Rotation!OverlapInv
    /\ Rotation!OverlapInv /\ [Rotation!Next]_(Rotation!vars) => Rotation!OverlapInv'
<1> USE RotationAssumption
<1>1. Rotation!Init => Rotation!OverlapInv
    <2> SUFFICES ASSUME Rotation!Init PROVE Rotation!OverlapInv
        OBVIOUS
    <2>1. order = << >> /\ Rotation!Keys = {}
        BY DEF Rotation!Init, Rotation!Keys
    <2>2. schedule \in [Rotation!Keys -> Rotation!Schedules]
        BY <2>1 DEF Rotation!Init
    <2>3. \A k \in Rotation!Key : promised[k] = << >>
        BY DEF Rotation!Init
    <2>4. promised \in [Rotation!Key -> Seq(Int)]
        BY DEF Rotation!Init
    <2> QED
        <3>1. order \in Seq(Int) /\ Len(order) = 0 /\ DOMAIN order = {}
            BY <2>1
        <3>2. now \in Int /\ givenUp \in BOOLEAN
            <4>1. now \in Int
                BY DEF Rotation!Init
            <4>2. givenUp \in BOOLEAN
                BY Zenon DEF Rotation!Init
            <4> QED
                BY <4>1, <4>2
        <3>3. Rotation!TypeOK
            BY <2>2, <2>4, <3>1, <3>2 DEF Rotation!TypeOK
        <3> QED
            BY <2>1, <2>3, <3>3 DEF Rotation!OverlapInv, Rotation!Promised
<1>2. Rotation!OverlapInv /\ [Rotation!Next]_(Rotation!vars) => Rotation!OverlapInv'
    <2> SUFFICES ASSUME Rotation!OverlapInv, [Rotation!Next]_(Rotation!vars) PROVE Rotation!OverlapInv'
        OBVIOUS
    <2>0. Rotation!Keys = 1 .. Len(order) /\ Len(order) \in Nat /\ Rotation!Keys \subseteq Rotation!Key /\ Rotation!NoKey \notin Rotation!Key
        BY DEF Rotation!OverlapInv, Rotation!TypeOK, Rotation!Keys, Rotation!Key, Rotation!NoKey
    <2>1. ASSUME NEW key \in DOMAIN schedule \cup {Rotation!NewKey}, NEW interval \in Interval,
                 NEW overlap \in Overlap, Rotation!RegisterKey(key, interval, overlap)
          PROVE  Rotation!OverlapInv'
        <3> DEFINE new == [current |-> key, previous |-> Rotation!NoKey,
                           nextRotation |-> now + interval, overlap |-> overlap,
                           interval |-> interval, generation |-> 1]
        <3>1. /\ key \in Rotation!Keys \/ key = Len(order) + 1
              /\ key <= MaxLineKeys
            BY <2>1 DEF Rotation!OverlapInv, Rotation!TypeOK, Rotation!NewKey, Rotation!RegisterKey
        <3>2. /\ Rotation!Keys' = Rotation!Keys \cup {key}
              /\ order' \in Seq(Int)
              /\ Len(order') <= MaxLineKeys
              /\ \A i \in DOMAIN order' : order'[i] = i
            BY <2>1, <3>1, <2>0 DEF Rotation!OverlapInv, Rotation!TypeOK, Rotation!NewKey, Rotation!RegisterKey, Rotation!Keys
        <3>3. schedule' = [x \in Rotation!Keys' |-> IF x = key THEN new ELSE schedule[x]]
            <4>1. DOMAIN schedule = Rotation!Keys
                BY DEF Rotation!OverlapInv, Rotation!TypeOK
            <4>2. Rotation!SetSchedule({key}, new)
                BY <2>1 DEF Rotation!RegisterKey
            <4> HIDE DEF new
            <4> QED
                BY <4>1, <4>2, <3>2 DEF Rotation!SetSchedule
        <3>4. new \in Rotation!Schedules' /\ \A x \in Rotation!Keys : schedule[x] \in Rotation!Schedules'
            <4>1. /\ key \in Rotation!Keys' /\ Rotation!Keys \subseteq Rotation!Keys'
                  /\ now + interval \in Int /\ overlap \in Int /\ interval \in Int
                <5>1. now \in Int /\ interval \in Int /\ overlap \in Int
                    BY <2>1 DEF Rotation!OverlapInv, Rotation!TypeOK
                <5> QED
                    BY <3>2, <5>1
            <4>2. new \in Rotation!Schedules'
                BY <4>1 DEF Rotation!Schedules
            <4>3. Rotation!Schedules \subseteq Rotation!Schedules'
                BY <4>1 DEF Rotation!Schedules
            <4> QED
                BY <4>2, <4>3 DEF Rotation!OverlapInv, Rotation!TypeOK
        <3>5. Rotation!TypeOK'
            BY <2>1, <3>2, <3>3, <3>4 DEF Rotation!OverlapInv, Rotation!TypeOK, Rotation!RegisterKey
        <3>6. promised' = promised /\ new.previous = Rotation!NoKey
            BY <2>1 DEF Rotation!RegisterKey
        <3>7. Rotation!Single' => Rotation!Single /\ (key \in Rotation!Keys => schedule[key].previous = Rotation!NoKey)
            <4>1. promised' = promised /\ givenUp' = (givenUp \/ (key # Rotation!NewKey /\ schedule[key].previous # Rotation!NoKey))
                BY <2>1 DEF Rotation!RegisterKey
            <4>2. key \in Rotation!Keys => key # Rotation!NewKey
                BY <2>0 DEF Rotation!NewKey
            <4>3. Rotation!Single' => ~givenUp' /\ \A k \in Rotation!Key : Len(promised[k]) <= 1
                BY <4>1 DEF Rotation!Single
            <4> QED
                BY <4>1, <4>2, <4>3 DEF Rotation!Single
        <3> HIDE DEF new
        <3>8. Rotation!Promised'
            BY <2>0, <3>2, <3>3, <3>6 DEF Rotation!OverlapInv, Rotation!Promised
        <3>9. ASSUME Rotation!Single', NEW k \in Rotation!Key, promised[k] # << >>
              PROVE  /\ \A x \in Rotation!Keys' : schedule'[x].previous = k => Rotation!OverlapEnd(schedule'[x]) = promised[k][1]
                     /\ \E x \in Rotation!Keys' : Rotation!Kept(k, x)'
            <4>1. \A x \in Rotation!Keys' : schedule'[x].previous = k => x \in Rotation!Keys /\ schedule'[x] = schedule[x]
                BY <2>0, <3>2, <3>3, <3>6, <3>9
            <4>2. \A x \in Rotation!Keys : schedule[x].previous = k => x \in Rotation!Keys' /\ schedule'[x] = schedule[x]
                BY <2>0, <3>2, <3>3, <3>7, <3>9
            <4>3. PICK x \in Rotation!Keys : Rotation!Kept(k, x)
                BY <3>7, <3>9 DEF Rotation!OverlapInv
            <4>4. Rotation!Kept(k, x)'
                BY <4>2, <4>3, <3>6, <3>2 DEF Rotation!Kept
            <4>5. \A z \in Rotation!Keys' : schedule'[z].previous = k => Rotation!OverlapEnd(schedule'[z]) = promised[k][1]
                BY <4>1, <3>7, <3>9 DEF Rotation!OverlapInv
            <4> QED
                BY <4>2, <4>3, <4>4, <4>5 DEF Rotation!Kept
        <3> QED
            BY <3>5, <3>6, <3>8, <3>9 DEF Rotation!OverlapInv, Rotation!OverlapEnd
    <2>2. ASSUME NEW key \in DOMAIN schedule, Rotation!Rotate(key) PROVE Rotation!OverlapInv'
        <3>0. PICK n \in Int : n = Rotation!NewKey
            BY <2>0 DEF Rotation!NewKey
        <3> DEFINE s == schedule[key]
                   c == s.current
                   new == [s EXCEPT !.previous = c, !.current = n,
                                    !.nextRotation = now + s.interval, !.generation = @ + 1]
        <3>1. /\ key \in Rotation!Keys /\ s \in Rotation!Schedules /\ c \in Rotation!Keys
              /\ n \notin Rotation!Keys /\ n \in Rotation!Key /\ n <= MaxLineKeys
            <4>1. key \in Rotation!Keys /\ s \in Rotation!Schedules
                BY <2>2 DEF Rotation!OverlapInv, Rotation!TypeOK
            <4>2. c \in Rotation!Keys
                BY <4>1 DEF Rotation!Schedules
            <4>3. n = Len(order) + 1 /\ n <= MaxLineKeys
                BY <2>2, <3>0 DEF Rotation!Rotate, Rotation!NewKey
            <4> QED
                BY <4>1, <4>2, <4>3, <2>0 DEF Rotation!Key
        <3>2. /\ Rotation!Keys' = Rotation!Keys \cup {n}
              /\ order' \in Seq(Int)
              /\ Len(order') <= MaxLineKeys
              /\ \A i \in DOMAIN order' : order'[i] = i
            <4>1. order \in Seq(Int) /\ n = Len(order) + 1 /\ order' = Append(order, n)
                BY <2>2, <3>0 DEF Rotation!OverlapInv, Rotation!TypeOK, Rotation!NewKey, Rotation!Rotate
            <4>2. order' \in Seq(Int) /\ Len(order') = n /\ order'[n] = n
                BY <4>1
            <4>3. \A i \in 1 .. Len(order) : order'[i] = i
                BY <4>1 DEF Rotation!OverlapInv, Rotation!TypeOK
            <4> QED
                BY <2>0, <3>1, <4>1, <4>2, <4>3 DEF Rotation!Keys
        <3>3. schedule' = [x \in Rotation!Keys' |-> IF x \in {key, n} THEN new ELSE schedule[x]]
            <4>1. DOMAIN schedule = Rotation!Keys
                BY DEF Rotation!OverlapInv, Rotation!TypeOK
            <4>2. new = Rotation!Rotated(s)
                BY <3>0 DEF Rotation!Rotated
            <4>3. Rotation!SetSchedule({key, n}, new)
                BY <2>2, <3>0, <4>2 DEF Rotation!Rotate
            <4> HIDE DEF new
            <4>4. Rotation!Keys \cup {key, n} = Rotation!Keys'
                BY <3>1, <3>2
            <4> QED
                BY <4>1, <4>3, <4>4 DEF Rotation!SetSchedule
        <3>4. new \in Rotation!Schedules' /\ \A x \in Rotation!Keys : schedule[x] \in Rotation!Schedules'
            <4>1. /\ n \in Rotation!Keys' /\ Rotation!Keys \subseteq Rotation!Keys'
                  /\ now + s.interval \in Int /\ s.generation + 1 \in Int
                BY <3>1, <3>2 DEF Rotation!OverlapInv, Rotation!TypeOK, Rotation!Schedules
            <4>2. new \in Rotation!Schedules'
                BY <3>1, <4>1 DEF Rotation!Schedules
            <4>3. Rotation!Schedules \subseteq Rotation!Schedules'
                BY <4>1 DEF Rotation!Schedules
            <4> QED
                BY <4>2, <4>3 DEF Rotation!OverlapInv, Rotation!TypeOK
        <3>5. promised' = [promised EXCEPT ![c] = Append(@, now + s.overlap)] /\ givenUp' = givenUp /\ now' = now
            BY <2>2 DEF Rotation!Rotate
        <3>6. now + s.overlap \in Int /\ promised[c] \in Seq(Int) /\ c \in Rotation!Key
            BY <2>0, <3>1, SMTT(30) DEF Rotation!OverlapInv, Rotation!TypeOK, Rotation!Schedules
        <3>7. Rotation!TypeOK'
            BY <3>2, <3>3, <3>4, <3>5, <3>6 DEF Rotation!OverlapInv, Rotation!TypeOK
        <3>8. new.previous = c /\ new.current = n /\ Rotation!OverlapEnd(new) = now + s.overlap
            BY <3>1, <3>6 DEF Rotation!Schedules, Rotation!OverlapEnd, Rotation!OverlapInv, Rotation!TypeOK
        <3>9. /\ promised'[c] = Append(promised[c], now + s.overlap)
              /\ promised'[c] # << >>
              /\ \A k \in Rotation!Key \ {c} : promised'[k] = promised[k]
            BY <3>5, <3>6 DEF Rotation!OverlapInv, Rotation!TypeOK
        <3> HIDE DEF new, c
        <3>10. Rotation!Promised'
            <4>1. ASSUME NEW x \in Rotation!Keys', schedule'[x].previous # Rotation!NoKey
                  PROVE  promised'[schedule'[x].previous] # << >>
                <5>1. CASE x \in {key, n}
                    BY <3>3, <3>8, <3>9, <5>1, <4>1
                <5>2. CASE x \notin {key, n}
                    <6>1. x \in Rotation!Keys /\ schedule'[x] = schedule[x]
                        BY <3>2, <3>3, <4>1, <5>2
                    <6>2. schedule[x].previous \in Rotation!Key
                        BY <6>1, <4>1, <2>0 DEF Rotation!OverlapInv, Rotation!TypeOK, Rotation!Schedules
                    <6> QED
                        BY <4>1, <6>1, <6>2, <3>9 DEF Rotation!OverlapInv, Rotation!Promised
                <5> QED
                    BY <5>1, <5>2
            <4> QED
                BY <4>1 DEF Rotation!Promised
        <3>11. Rotation!Single' => Rotation!Single /\ promised[c] = << >>
            <4>1. ASSUME Rotation!Single' PROVE promised[c] = << >>
                BY <4>1, <3>6, <3>9 DEF Rotation!Single
            <4>2. ASSUME Rotation!Single' PROVE Rotation!Single
                BY <4>1, <4>2, <3>5, <3>6, <3>9 DEF Rotation!Single
            <4> QED
                BY <4>1, <4>2
        <3>12. ASSUME Rotation!Single', NEW k \in Rotation!Key, promised'[k] # << >>
               PROVE  /\ \A x \in Rotation!Keys' : schedule'[x].previous = k => Rotation!OverlapEnd(schedule'[x]) = promised'[k][1]
                      /\ \E x \in Rotation!Keys' : Rotation!Kept(k, x)'
            <4>1. CASE k = c
                <5>1. promised'[k][1] = now + s.overlap
                    BY <4>1, <3>6, <3>9, <3>11, <3>12
                <5>2. \A x \in Rotation!Keys : schedule[x].previous # k
                    BY <4>1, <3>11, <3>12, <2>0, <3>6 DEF Rotation!OverlapInv, Rotation!Promised
                <5>3. \A x \in Rotation!Keys' : schedule'[x].previous = k => Rotation!OverlapEnd(schedule'[x]) = promised'[k][1]
                    BY <5>1, <5>2, <3>2, <3>3, <3>8
                <5>4. Rotation!Kept(k, n)'
                    BY <4>1, <3>1, <3>2, <3>3, <3>8 DEF Rotation!Kept
                <5> QED
                    BY <5>3, <5>4, <3>2
            <4>2. CASE k # c
                <5>1. promised'[k] = promised[k]
                    BY <4>2, <3>9
                <5>2. \A x \in Rotation!Keys' : schedule'[x].previous = k => x \in Rotation!Keys /\ schedule'[x] = schedule[x]
                    BY <4>2, <3>2, <3>3, <3>8
                <5>3. \A x \in Rotation!Keys \ {key} : x \in Rotation!Keys' /\ schedule'[x] = schedule[x]
                    BY <3>1, <3>2, <3>3
                <5>4. \A x \in Rotation!Keys' : schedule'[x].previous = k => Rotation!OverlapEnd(schedule'[x]) = promised'[k][1]
                    BY <5>1, <5>2, <3>11, <3>12 DEF Rotation!OverlapInv
                <5>5. PICK x \in Rotation!Keys : Rotation!Kept(k, x)
                    BY <5>1, <3>11, <3>12 DEF Rotation!OverlapInv
                <5>6. \A z \in Rotation!Keys : promised[schedule[z].current] # << >> => promised'[schedule[z].current] # << >>
                    <6>1. \A z \in Rotation!Keys : schedule[z].current \in Rotation!Key
                        BY <2>0 DEF Rotation!OverlapInv, Rotation!TypeOK, Rotation!Schedules
                    <6> QED
                        BY <6>1, <3>9
                <5>7. CASE x # key
                    <6>1. promised[schedule[x].current] # << >> => Rotation!Kept(k, x)'
                        BY <5>3, <5>5, <5>6, <5>7 DEF Rotation!Kept
                    <6>2. ASSUME NEW y \in Rotation!Keys \ {x}, schedule[y].previous = k,
                                 schedule[y].current = schedule[x].current
                          PROVE  Rotation!Kept(k, x)'
                        <7>1. CASE y = key
                            <8>1. schedule[x].current = c
                                BY <6>2, <7>1 DEF c
                            <8> QED
                                BY <8>1, <3>9, <5>3, <5>5, <5>7 DEF Rotation!Kept
                        <7>2. CASE y # key
                            BY <6>2, <7>2, <5>3, <5>5, <5>7 DEF Rotation!Kept
                        <7> QED
                            BY <7>1, <7>2
                    <6>3. Rotation!Kept(k, x)'
                        BY <5>5, <6>1, <6>2 DEF Rotation!Kept
                    <6> QED
                        BY <5>3, <5>4, <5>7, <6>3
                <5>8. CASE x = key
                    <6>1. schedule[x].current = c
                        BY <5>8 DEF c
                    <6>2. PICK y \in Rotation!Keys \ {x} : schedule[y].previous = k /\ schedule[y].current = c
                        BY <5>5, <6>1, <3>11, <3>12 DEF Rotation!Kept
                    <6>3. Rotation!Kept(k, y)'
                        BY <6>2, <5>3, <5>8, <3>9 DEF Rotation!Kept
                    <6> QED
                        BY <5>3, <5>4, <5>8, <6>2, <6>3
                <5> QED
                    BY <5>7, <5>8
            <4> QED
                BY <4>1, <4>2
        <3> QED
            BY <3>7, <3>10, <3>12 DEF Rotation!OverlapInv, Rotation!OverlapEnd
    <2>3. CASE Rotation!Tick
        <3>1. now' \in Int
            BY <2>3 DEF Rotation!Tick, Rotation!OverlapInv, Rotation!TypeOK
        <3> QED
            BY <2>3, <3>1 DEF Rotation!Tick, Rotation!OverlapInv, Rotation!TypeOK, Rotation!Promised, Rotation!Single, Rotation!Kept, Rotation!Keys, Rotation!Schedules, Rotation!OverlapEnd
    <2>4. CASE UNCHANGED Rotation!vars
        BY <2>4 DEF Rotation!vars, Rotation!OverlapInv, Rotation!TypeOK, Rotation!Promised, Rotation!Single, Rotation!Kept, Rotation!Keys, Rotation!Schedules, Rotation!OverlapEnd
    <2> QED
        BY <2>1, <2>2, <2>3, <2>4 DEF Rotation!Next
<1> QED
    BY <1>1, <1>2

\* What was promised is kept: OverlapAsPromised follows.
LEMMA OverlapKept == Rotation!OverlapInv => OverlapAsPromised
<1> SUFFICES ASSUME Rotation!OverlapInv, Rotation!Single, NEW k \in Rotation!Key, promised[k] # << >>
                 PROVE  Rotation!IsInOverlapPeriod(k) <=> now < promised[k][1]
    BY DEF OverlapAsPromised, Rotation!OverlapAsPromised, Rotation!Single
<1> DEFINE replaced == {i \in DOMAIN order : schedule[order[i]].previous = k}
<1>1. DOMAIN order = Rotation!Keys /\ Rotation!Keys \subseteq Nat
    BY DEF Rotation!OverlapInv, Rotation!TypeOK, Rotation!Keys
<1>2. \A i \in replaced : Rotation!OverlapEnd(schedule[order[i]]) = promised[k][1]
    BY <1>1 DEF Rotation!OverlapInv, Rotation!TypeOK
<1>3. replaced # {} /\ replaced \subseteq Nat
    BY <1>1 DEF Rotation!OverlapInv, Rotation!TypeOK, Rotation!Kept
<1>4. \E i \in replaced : \A j \in replaced : i <= j
    BY <1>3, LeastNumber
<1> QED
    BY <1>2, <1>3, <1>4 DEF Rotation!IsInOverlapPeriod

-----------------------------------------------------------------------------
(* HardwareModule. *)

\* What one more entry adds.
LEMMA EntryLogged ==
    ASSUME Hardware!TypeOK, NEW e \in Hardware!Entry, auditLog' = Append(auditLog, e)
    PROVE  LET n == Len(auditLog) + 1
           IN  /\ auditLog' \in Seq(Hardware!Entry)
               /\ n \in Nat /\ n \notin DOMAIN auditLog /\ DOMAIN auditLog' = DOMAIN auditLog \cup {n}
               /\ \A m \in DOMAIN auditLog : auditLog'[m] = auditLog[m] /\ m < n
               /\ auditLog'[n] = e
BY DEF Hardware!TypeOK

\* It is one of the entries about its operation and its slot, and of no others.
LEMMA EntriesAfter ==
    ASSUME Hardware!TypeOK, NEW e \in Hardware!Entry, auditLog' = Append(auditLog, e), NEW o, NEW s
    PROVE  /\ o = e.operation /\ s = e.slot => Hardware!Entries(o, s)' = Hardware!Entries(o, s) \cup {Len(auditLog) + 1}
           /\ o # e.operation \/ s # e.slot => Hardware!Entries(o, s)' = Hardware!Entries(o, s)
<1> DEFINE n == Len(auditLog) + 1
<1>1. /\ DOMAIN auditLog' = DOMAIN auditLog \cup {n}
      /\ \A m \in DOMAIN auditLog : auditLog'[m] = auditLog[m] /\ m # n
      /\ auditLog'[n] = e
    BY EntryLogged
<1> HIDE DEF n
<1>2. o = e.operation /\ s = e.slot => Hardware!Entries(o, s)' = Hardware!Entries(o, s) \cup {n}
    BY <1>1 DEF Hardware!Entries
<1>3. o # e.operation \/ s # e.slot => Hardware!Entries(o, s)' = Hardware!Entries(o, s)
    BY <1>1 DEF Hardware!Entries
<1> QED
    BY <1>2, <1>3 DEF n

\* An entry about the session leaves the keys as they were told.
LEMMA SessionEntry ==
    ASSUME Hardware!AuditInv, NEW e \in Hardware!Entry, auditLog' = Append(auditLog, e),
           e.operation \in {"LOGIN", "LOGOUT"}, e.slot = Hardware!NoSlot, UNCHANGED <<slots, generated>>,
           authenticated' \in BOOLEAN,
           authenticated' => e.operation = "LOGIN" /\ e.success
    PROVE  Hardware!AuditInv'
<1>0. Hardware!TypeOK
    BY DEF Hardware!AuditInv
<1>00. PICK n : n = Len(auditLog) + 1
    OBVIOUS
<1>1. /\ auditLog' \in Seq(Hardware!Entry)
      /\ n \in Nat /\ n \notin DOMAIN auditLog /\ DOMAIN auditLog' = DOMAIN auditLog \cup {n}
      /\ \A m \in DOMAIN auditLog : auditLog'[m] = auditLog[m] /\ m < n
      /\ auditLog'[n] = e
    BY <1>0, <1>00, EntryLogged
<1>2. Hardware!TypeOK'
    <2>1. slots' = slots /\ generated' = generated
        OBVIOUS
    <2> QED
        BY <1>0, <1>1, <2>1 DEF Hardware!TypeOK
<1>3. ASSUME NEW s \in Hardware!Slot, NEW o \in {"GENERATE_KEYPAIR", "DESTROY_KEY"}
      PROVE  Hardware!Entries(o, s)' = Hardware!Entries(o, s)
    <2>1. o # e.operation
        OBVIOUS
    <2> QED
        BY <1>0, <2>1, EntriesAfter
<1>4. \A s \in Hardware!Slot : s \in Hardware!Occupied' <=> Hardware!Told(s)'
    <2>1. Hardware!Occupied' = Hardware!Occupied
        BY DEF Hardware!Occupied
    <2> QED
        BY <1>3, <2>1 DEF Hardware!Told, Hardware!AuditInv, Hardware!AuditExplainsState
<1>5. Hardware!Sessions' = Hardware!Sessions \cup {n}
    BY <1>1 DEF Hardware!Sessions
<1>6. \A m \in DOMAIN auditLog : Hardware!Opened(m)' <=> Hardware!Opened(m)
    BY <1>1 DEF Hardware!Opened
<1>7. \A m \in DOMAIN auditLog' : auditLog'[m].slot <= generated'
    BY <1>0, <1>1 DEF Hardware!AuditInv, Hardware!TypeOK, Hardware!NoSlot
<1>8. authenticated' => Hardware!Opened(n)'
    <2>1. auditLog'[n].operation = e.operation /\ auditLog'[n].success = e.success
        BY <1>1
    <2> QED
        BY <2>1, Zenon DEF Hardware!Opened
<1>9. \A k \in Hardware!Sessions' : k <= n
    <2>1. DOMAIN auditLog \subseteq Nat
        BY <1>0 DEF Hardware!TypeOK
    <2> QED
        BY <1>1, <1>5, <2>1 DEF Hardware!Sessions
<1>10. ASSUME NEW m \in DOMAIN auditLog' \ Hardware!Sessions'
       PROVE  \E o \in Hardware!Sessions' : o < m /\ Hardware!Opened(o)' /\ \A k \in Hardware!Sessions' : k <= o \/ m < k
    <2>1. m \in DOMAIN auditLog \ Hardware!Sessions /\ m < n
        BY <1>1, <1>5
    <2>2. PICK o \in Hardware!Sessions : o < m /\ Hardware!Opened(o) /\ \A k \in Hardware!Sessions : k <= o \/ m < k
        BY <2>1 DEF Hardware!AuditInv, Hardware!AuditExplainsState
    <2>3. o \in Hardware!Sessions' /\ Hardware!Opened(o)'
        BY <1>5, <1>6, <2>2 DEF Hardware!Sessions
    <2> QED
        BY <1>5, <2>1, <2>2, <2>3
<1>11. Hardware!AuditExplainsState'
    BY <1>4, <1>10 DEF Hardware!AuditExplainsState
<1>12. authenticated' => \E m \in Hardware!Sessions' : Hardware!Opened(m)' /\ \A k \in Hardware!Sessions' : k <= m
    BY <1>5, <1>8, <1>9, Zenon
<1> QED
    BY <1>2, <1>7, <1>11, <1>12 DEF Hardware!AuditInv

\* An entry about a key, within a session.
LEMMA KeyEntry ==
    ASSUME Hardware!AuditInv, NEW e \in Hardware!Entry, auditLog' = Append(auditLog, e),
           e.operation \notin {"LOGIN", "LOGOUT"}, authenticated, UNCHANGED authenticated,
           generated' \in 0 .. MaxSlotKeys, generated <= generated', e.slot <= generated',
           slots' \in [Hardware!Slot -> Int],
           \A s \in Hardware!Slot : s \in Hardware!Occupied' <=> Hardware!Told(s)'
    PROVE  Hardware!AuditInv'
<1> DEFINE n == Len(auditLog) + 1
<1>0. Hardware!TypeOK
    BY DEF Hardware!AuditInv
<1>1. /\ auditLog' \in Seq(Hardware!Entry)
      /\ n \in Nat /\ n \notin DOMAIN auditLog /\ DOMAIN auditLog' = DOMAIN auditLog \cup {n}
      /\ \A m \in DOMAIN auditLog : auditLog'[m] = auditLog[m] /\ m < n
      /\ auditLog'[n] = e
    BY <1>0, EntryLogged
<1>2. Hardware!TypeOK'
    BY <1>0, <1>1 DEF Hardware!TypeOK
<1> HIDE DEF n
<1>4. Hardware!Sessions' = Hardware!Sessions
    BY <1>1 DEF Hardware!Sessions
<1>5. \A m \in DOMAIN auditLog : Hardware!Opened(m)' <=> Hardware!Opened(m)
    BY <1>1 DEF Hardware!Opened
<1>6. \A m \in DOMAIN auditLog' : auditLog'[m].slot <= generated'
    <2>1. \A m \in DOMAIN auditLog : auditLog[m] \in Hardware!Entry
        BY <1>0 DEF Hardware!TypeOK
    <2>2. \A m \in DOMAIN auditLog : auditLog[m].slot \in Int /\ auditLog[m].slot <= generated
        BY <2>1 DEF Hardware!Entry, Hardware!AuditInv
    <2>3. generated \in Int /\ generated' \in Int
        BY <1>0 DEF Hardware!TypeOK
    <2> QED
        BY <1>1, <2>2, <2>3
<1>7. PICK m \in Hardware!Sessions : Hardware!Opened(m) /\ \A k \in Hardware!Sessions : k <= m
    BY DEF Hardware!AuditInv
<1>8. m \in DOMAIN auditLog /\ m \in Hardware!Sessions' /\ Hardware!Opened(m)'
    BY <1>4, <1>5, <1>7 DEF Hardware!Sessions
<1>9. ASSUME NEW i \in DOMAIN auditLog' \ Hardware!Sessions'
      PROVE  \E o \in Hardware!Sessions' : o < i /\ Hardware!Opened(o)' /\ \A k \in Hardware!Sessions' : k <= o \/ i < k
    <2>1. CASE i = n
        BY <1>1, <1>4, <1>7, <1>8, <2>1
    <2>2. CASE i # n
        <3>1. PICK o \in Hardware!Sessions : o < i /\ Hardware!Opened(o) /\ \A k \in Hardware!Sessions : k <= o \/ i < k
            BY <1>1, <1>4, <2>2 DEF Hardware!AuditInv, Hardware!AuditExplainsState
        <3>2. o \in Hardware!Sessions' /\ Hardware!Opened(o)'
            BY <1>4, <1>5, <3>1 DEF Hardware!Sessions
        <3> QED
            BY <1>4, <3>1, <3>2
    <2> QED
        BY <2>1, <2>2
<1>10. Hardware!AuditExplainsState'
    BY <1>9 DEF Hardware!AuditExplainsState
<1>11. \E o \in Hardware!Sessions' : Hardware!Opened(o)' /\ \A k \in Hardware!Sessions' : k <= o
    BY <1>4, <1>7, <1>8
<1> QED
    BY <1>2, <1>6, <1>10, <1>11 DEF Hardware!AuditInv

\* Every operation of the module keeps what the log explains.
LEMMA AuditInductive ==
    /\ Hardware!Init => Hardware!AuditInv
    /\ Hardware!AuditInv /\ [Hardware!Next]_(Hardware!vars) => Hardware!AuditInv'
<1> USE ModuleAssumption
<1>1. Hardware!Init => Hardware!AuditInv
    <2> SUFFICES ASSUME Hardware!Init PROVE Hardware!AuditInv
        OBVIOUS
    <2>1. Hardware!TypeOK /\ DOMAIN auditLog = {} /\ ~authenticated
        <3>1. authenticated = FALSE
            BY Zenon DEF Hardware!Init
        <3>2. generated \in 0 .. MaxSlotKeys /\ slots \in [Hardware!Slot -> Int] /\ DOMAIN auditLog = {}
            BY DEF Hardware!Init
        <3>3. auditLog \in Seq(Hardware!Entry)
            BY DEF Hardware!Init
        <3> QED
            BY <3>1, <3>2, <3>3 DEF Hardware!TypeOK
    <2>2. \A s \in Hardware!Slot : s \in Hardware!Occupied <=> Hardware!Told(s)
        BY <2>1 DEF Hardware!Init, Hardware!Occupied, Hardware!Told, Hardware!Entries
    <2> QED
        BY <2>1, <2>2 DEF Hardware!AuditInv, Hardware!AuditExplainsState
<1>2. Hardware!AuditInv /\ [Hardware!Next]_(Hardware!vars) => Hardware!AuditInv'
    <2> SUFFICES ASSUME Hardware!AuditInv, [Hardware!Next]_(Hardware!vars) PROVE Hardware!AuditInv'
        OBVIOUS
    <2>0. Hardware!TypeOK /\ \A s \in Hardware!Slot : s \in Hardware!Occupied <=> Hardware!Told(s)
        BY DEF Hardware!AuditInv, Hardware!AuditExplainsState
    <2> DEFINE Made(operation, slot, success) ==
                 [operation |-> operation, slot |-> slot, success |-> success]
    <2>1. ASSUME NEW correct \in BOOLEAN, Hardware!Login(correct) PROVE Hardware!AuditInv'
        <3> DEFINE e == Made("LOGIN", Hardware!NoSlot, correct)
        <3>1. authenticated' = correct /\ UNCHANGED <<slots, generated>> /\ auditLog' = Append(auditLog, e)
            BY <2>1 DEF Hardware!Login, Hardware!LogOperation
        <3>2. e \in Hardware!Entry
            BY DEF Hardware!Entry, Hardware!Operation, Hardware!NoSlot
        <3>3. e.operation = "LOGIN" /\ e.slot = Hardware!NoSlot /\ e.success = correct
            OBVIOUS
        <3>4. authenticated' \in BOOLEAN /\ (authenticated' => e.success)
            BY <3>1, <3>3, Zenon
        <3> HIDE DEF e
        <3> QED
            BY <3>1, <3>2, <3>3, <3>4, SessionEntry
    <2>2. CASE Hardware!Logout
        <3> DEFINE e == Made("LOGOUT", Hardware!NoSlot, TRUE)
        <3>1. authenticated' = FALSE /\ UNCHANGED <<slots, generated>> /\ auditLog' = Append(auditLog, e)
            BY <2>2 DEF Hardware!Logout, Hardware!LogOperation
        <3>2. e \in Hardware!Entry
            BY DEF Hardware!Entry, Hardware!Operation, Hardware!NoSlot
        <3>3. e.operation = "LOGOUT" /\ e.slot = Hardware!NoSlot
            OBVIOUS
        <3>4. authenticated' \in BOOLEAN /\ ~authenticated'
            BY <3>1, Zenon
        <3> HIDE DEF e
        <3> QED
            BY <3>1, <3>2, <3>3, <3>4, SessionEntry
    <2>3. CASE Hardware!GenerateKeyPair
        <3>0. PICK new : new = generated + 1
            OBVIOUS
        <3> DEFINE e == Made("GENERATE_KEYPAIR", new, TRUE)
        <3>1. /\ authenticated /\ UNCHANGED authenticated /\ generated' = new
              /\ slots' = [slots EXCEPT ![new] = 0]
              /\ auditLog' = Append(auditLog, e)
              /\ generated < MaxSlotKeys
            BY <2>3, <3>0 DEF Hardware!GenerateKeyPair, Hardware!LogOperation
        <3>2. /\ new \in Hardware!Slot /\ new \in Int /\ generated \in Int /\ generated' \in 0 .. MaxSlotKeys
              /\ generated <= generated' /\ new <= generated'
            BY <2>0, <3>0, <3>1 DEF Hardware!TypeOK, Hardware!Slot
        <3>2a. e \in Hardware!Entry /\ e.operation = "GENERATE_KEYPAIR" /\ e.slot = new
            BY <3>2 DEF Hardware!Entry, Hardware!Operation
        <3> HIDE DEF e
        <3>3. \A o : Hardware!Entries(o, new) = {}
            <4>1. \A n \in DOMAIN auditLog : auditLog[n].slot # new
                BY <3>0, <3>2 DEF Hardware!AuditInv
            <4> QED
                BY <4>1 DEF Hardware!Entries
        <3>4. /\ Hardware!Entries("GENERATE_KEYPAIR", new)' # {}
              /\ Hardware!Entries("DESTROY_KEY", new)' = {}
            <4>1. Hardware!Entries("GENERATE_KEYPAIR", new)' = {} \cup {Len(auditLog) + 1}
                BY <2>0, <3>1, <3>2a, <3>3, EntriesAfter
            <4>2. Hardware!Entries("DESTROY_KEY", new)' = {}
                BY <2>0, <3>1, <3>2a, <3>3, EntriesAfter
            <4> QED
                BY <4>1, <4>2
        <3>5. \A o : \A s \in Hardware!Slot \ {new} : Hardware!Entries(o, s)' = Hardware!Entries(o, s)
            BY <2>0, <3>1, <3>2a, EntriesAfter
        <3>6. slots' \in [Hardware!Slot -> Int] /\ slots'[new] = 0 /\ \A s \in Hardware!Slot \ {new} : slots'[s] = slots[s]
            BY <2>0, <3>1, <3>2 DEF Hardware!TypeOK
        <3>7. \A s \in Hardware!Slot : s \in Hardware!Occupied' <=> Hardware!Told(s)'
            <4>1. new \in Hardware!Occupied' /\ Hardware!Told(new)'
                BY <3>2, <3>4, <3>6 DEF Hardware!Told, Hardware!Occupied
            <4>2. \A s \in Hardware!Slot \ {new} : s \in Hardware!Occupied' <=> s \in Hardware!Occupied
                BY <3>6 DEF Hardware!Occupied
            <4>3. \A s \in Hardware!Slot \ {new} : Hardware!Told(s)' <=> Hardware!Told(s)
                BY <3>5 DEF Hardware!Told
            <4> QED
                BY <2>0, <4>1, <4>2, <4>3
        <3> QED
            BY <3>1, <3>2, <3>6, <3>7, <3>2a, KeyEntry
    <2>4. ASSUME NEW slot \in Hardware!Slot, Hardware!Sign(slot) PROVE Hardware!AuditInv'
        <3>1. /\ UNCHANGED <<authenticated, generated, auditLog>>
              /\ slot \in Hardware!Occupied
              /\ slots' = [slots EXCEPT ![slot] = slots[slot] + 1]
            BY <2>4 DEF Hardware!Sign
        <3>2. slots \in [Hardware!Slot -> Int] /\ slots[slot] \in Int /\ slots[slot] >= 0
            BY <2>0, <3>1 DEF Hardware!TypeOK, Hardware!Occupied
        <3>3. /\ slots' \in [Hardware!Slot -> Int] /\ slots'[slot] >= 0
              /\ \A s \in Hardware!Slot \ {slot} : slots'[s] = slots[s]
            BY <3>1, <3>2
        <3>4. Hardware!TypeOK'
            BY <2>0, <3>1, <3>3 DEF Hardware!TypeOK
        <3>5. \A s \in Hardware!Slot : s \in Hardware!Occupied' <=> s \in Hardware!Occupied
            BY <3>1, <3>3 DEF Hardware!Occupied
        <3>6. /\ Hardware!Sessions' = Hardware!Sessions
              /\ \A n : Hardware!Opened(n)' <=> Hardware!Opened(n)
              /\ \A s : Hardware!Told(s)' <=> Hardware!Told(s)
            BY <3>1 DEF Hardware!Sessions, Hardware!Opened, Hardware!Told, Hardware!Entries
        <3>7. Hardware!AuditExplainsState'
            BY <3>1, <3>5, <3>6 DEF Hardware!AuditInv, Hardware!AuditExplainsState
        <3> QED
            BY <3>1, <3>4, <3>6, <3>7 DEF Hardware!AuditInv
    <2>5. ASSUME NEW slot \in Hardware!Slot, Hardware!DestroyKey(slot) PROVE Hardware!AuditInv'
        <3> DEFINE e == Made("DESTROY_KEY", slot, TRUE)
        <3>1. /\ authenticated /\ UNCHANGED <<authenticated, generated>>
              /\ slot \in Hardware!Occupied
              /\ slots' = [slots EXCEPT ![slot] = -1]
              /\ auditLog' = Append(auditLog, e)
            BY <2>5 DEF Hardware!DestroyKey, Hardware!LogOperation
        <3>2. /\ slot \in Int /\ slots[slot] \in Int /\ slots[slot] >= 0
              /\ generated' \in 0 .. MaxSlotKeys /\ generated <= generated'
            BY <2>0, <3>1 DEF Hardware!TypeOK, Hardware!Slot, Hardware!Occupied
        <3>2a. e \in Hardware!Entry /\ e.operation = "DESTROY_KEY" /\ e.slot = slot
            BY <3>2 DEF Hardware!Entry, Hardware!Operation
        <3> HIDE DEF e
        <3>3. Hardware!Entries("GENERATE_KEYPAIR", slot) # {}
            BY <2>0, <3>1 DEF Hardware!Told
        <3>4. slot <= generated'
            BY <3>1, <3>3 DEF Hardware!AuditInv, Hardware!Entries
        <3>5. Hardware!Entries("DESTROY_KEY", slot)' # {}
            BY <2>0, <3>1, <3>2a, EntriesAfter, SMTT(30)
        <3>6. \A o : \A s \in Hardware!Slot \ {slot} : Hardware!Entries(o, s)' = Hardware!Entries(o, s)
            BY <2>0, <3>1, <3>2a, EntriesAfter
        <3>7. /\ slots' \in [Hardware!Slot -> Int] /\ slots'[slot] = -1
              /\ \A s \in Hardware!Slot \ {slot} : slots'[s] = slots[s]
            BY <2>0, <3>1, <3>2 DEF Hardware!TypeOK
        <3>8. \A s \in Hardware!Slot : s \in Hardware!Occupied' <=> Hardware!Told(s)'
            <4>1. slot \notin Hardware!Occupied' /\ ~Hardware!Told(slot)'
                BY <3>5, <3>7 DEF Hardware!Told, Hardware!Occupied
            <4>2. \A s \in Hardware!Slot \ {slot} : s \in Hardware!Occupied' <=> s \in Hardware!Occupied
                BY <3>7 DEF Hardware!Occupied
            <4>3. \A s \in Hardware!Slot \ {slot} : Hardware!Told(s)' <=> Hardware!Told(s)
                BY <3>6 DEF Hardware!Told
            <4> QED
                BY <2>0, <4>1, <4>2, <4>3
        <3> QED
            BY <3>1, <3>2, <3>4, <3>7, <3>8, <3>2a, KeyEntry
    <2>6. CASE UNCHANGED Hardware!vars
        BY <2>6 DEF Hardware!vars, Hardware!AuditInv, Hardware!TypeOK, Hardware!Sessions, Hardware!Opened, Hardware!AuditExplainsState, Hardware!Told, Hardware!Entries, Hardware!Occupied
    <2> QED
        BY <2>1, <2>2, <2>3, <2>4, <2>5, <2>6 DEF Hardware!Next
<1> QED
    BY <1>1, <1>2

-----------------------------------------------------------------------------
(* Certificates. *)

\* What every certificate has.
LEMMA CertificateTyped ==
    ASSUME StoreInv, NEW s \in Serial
    PROVE  /\ s \in Nat /\ s > 0 /\ s <= Len(certs) /\ Len(certs) \in Nat
           /\ certs[s].subject \in Name /\ certs[s].issuer \in Name
           /\ certs[s].key \in Nat
           /\ certs[s].signed \in BOOLEAN
<1>1. /\ s \in Nat /\ s > 0 /\ s <= Len(certs) /\ Len(certs) \in Nat
      /\ certs[s] \in CertificateType
    BY DEF StoreInv, Serial
<1>2. PICK c \in CertificateType : c = certs[s]
    BY <1>1
<1>3. c.subject \in Name /\ c.issuer \in Name /\ c.key \in Nat
    BY DEF CertificateType
<1>4. c.signed \in BOOLEAN
    BY DEF CertificateType
<1> QED
    BY <1>1, <1>2, <1>3, <1>4

\* A certificate that is made leaves the stores as they were.
LEMMA CertificateMade ==
    ASSUME StoreInv, NEW c \in CertificateType, certs' = Append(certs, c),
           UNCHANGED <<now, store>>
    PROVE  StoreInv'
<1>1. /\ certs' \in Seq(CertificateType)
      /\ \A s \in Serial : s \in Serial' /\ certs'[s] = certs[s]
    BY DEF StoreInv, Serial
<1>2. store \in [Store -> [held : SUBSET Serial, index : [Name -> Nat]]]
    BY DEF StoreInv
<1>3. \A st \in Store : /\ store[st] \in [held : SUBSET Serial, index : [Name -> Nat]]
                        /\ store[st].held \subseteq Serial
    BY <1>2
<1>4. ASSUME NEW st \in Store
      PROVE  store[st] \in [held : SUBSET Serial', index : [Name -> Nat]]
    <2>1. PICK x \in [held : SUBSET Serial, index : [Name -> Nat]] : x = store[st]
        BY <1>3
    <2>2. x.held \in SUBSET Serial'
        BY <1>1
    <2>3. x = [held |-> x.held, index |-> x.index] /\ x.index \in [Name -> Nat]
        OBVIOUS
    <2> QED
        BY <2>1, <2>2, <2>3
<1>5. store' \in [Store -> [held : SUBSET Serial', index : [Name -> Nat]]]
    <2>1. store = [st \in Store |-> store[st]] /\ store' = store
        BY <1>2
    <2> QED
        BY <1>4, <2>1
<1>6. ASSUME NEW st \in Store, NEW n \in Name, store[st].index[n] # 0
      PROVE  store[st].index[n] \in store[st].held /\ certs'[store[st].index[n]].subject = n
    <2>1. store[st].index[n] \in store[st].held /\ certs[store[st].index[n]].subject = n
        BY <1>6 DEF StoreInv
    <2> QED
        BY <1>1, <1>3, <2>1
<1> QED
    BY <1>1, <1>5, <1>6 DEF StoreInv

\* Stores change: what is left of a name leads to a certificate of that name.
LEMMA StoreChanged ==
    ASSUME StoreInv, NEW st \in Store, NEW serial \in Serial,
           AddCertificate(st, serial) \/ RemoveCertificate(st, serial)
    PROVE  StoreInv'
<1>1. PICK name \in Name : name = certs[serial].subject
    BY CertificateTyped
<1>2. serial \in Nat \ {0} /\ serial \in Serial
    BY CertificateTyped
<1>3. store[st].held \in SUBSET Serial /\ store[st].index \in [Name -> Nat]
    BY DEF StoreInv
<1>4. PICK s \in [held : SUBSET Serial, index : [Name -> Nat]] :
          /\ store' = [store EXCEPT ![st] = s]
          /\ \/ /\ s.held = store[st].held \cup {serial}
                /\ s.index = [store[st].index EXCEPT ![name] = serial]
             \/ /\ s.held = store[st].held \ {serial}
                /\ s.index = [store[st].index EXCEPT ![name] = 0]
    <2>1. CASE AddCertificate(st, serial)
        <3> DEFINE s == [held |-> store[st].held \cup {serial},
                         index |-> [store[st].index EXCEPT ![name] = serial]]
        <3>1. store' = [store EXCEPT ![st] = s]
            BY <1>1, <2>1 DEF AddCertificate
        <3>2. s \in [held : SUBSET Serial, index : [Name -> Nat]]
            BY <1>2, <1>3
        <3> QED
            BY <3>1, <3>2
    <2>2. CASE RemoveCertificate(st, serial)
        <3> DEFINE s == [held |-> store[st].held \ {serial},
                         index |-> [store[st].index EXCEPT ![name] = 0]]
        <3>1. store' = [store EXCEPT ![st] = s]
            BY <1>1, <2>2 DEF RemoveCertificate
        <3>2. s \in [held : SUBSET Serial, index : [Name -> Nat]]
            BY <1>2, <1>3
        <3> QED
            BY <3>1, <3>2
    <2> QED
        BY <2>1, <2>2
<1>5. /\ store' \in [Store -> [held : SUBSET Serial, index : [Name -> Nat]]]
      /\ store'[st] = s
      /\ \A st2 \in Store \ {st} : store'[st2] = store[st2]
    BY <1>4 DEF StoreInv
<1>6. UNCHANGED <<now, certs>> /\ Serial' = Serial
    BY DEF AddCertificate, RemoveCertificate, Serial
<1>7. ASSUME NEW n \in Name, s.index[n] # 0
      PROVE  s.index[n] \in s.held /\ certs[s.index[n]].subject = n
    <2>0. \A x \in Name : store[st].index[x] # 0 =>
             store[st].index[x] \in store[st].held /\ certs[store[st].index[x]].subject = x
        BY DEF StoreInv
    <2>1. CASE /\ s.held = store[st].held \cup {serial}
               /\ s.index = [store[st].index EXCEPT ![name] = serial]
        <3>1. s.index[n] = IF n = name THEN serial ELSE store[st].index[n]
            BY <1>3, <2>1
        <3> QED
            BY <1>1, <1>7, <2>0, <2>1, <3>1
    <2>2. CASE /\ s.held = store[st].held \ {serial}
               /\ s.index = [store[st].index EXCEPT ![name] = 0]
        <3>1. s.index[n] = IF n = name THEN 0 ELSE store[st].index[n]
            BY <1>3, <2>2
        <3>2. n # name /\ s.index[n] = store[st].index[n] /\ store[st].index[n] # 0
            BY <1>7, <3>1
        <3>3. store[st].index[n] \in store[st].held /\ certs[store[st].index[n]].subject = n
            BY <2>0, <3>2
        <3>4. store[st].index[n] # serial
            BY <1>1, <3>2, <3>3
        <3> QED
            BY <2>2, <3>2, <3>3, <3>4
    <2> QED
        BY <1>4, <2>1, <2>2
<1>8. ASSUME NEW st2 \in Store, NEW n \in Name, store'[st2].index[n] # 0
      PROVE  /\ store'[st2].index[n] \in store'[st2].held
             /\ certs[store'[st2].index[n]].subject = n
    <2>1. CASE st2 = st
        BY <1>5, <1>7, <1>8, <2>1
    <2>2. CASE st2 # st
        BY <1>5, <1>8, <2>2 DEF StoreInv
    <2> QED
        BY <2>1, <2>2
<1> QED
    BY <1>5, <1>6, <1>8 DEF StoreInv

\* What is made from what may be asked for is a certificate.
LEMMA MadeTyped ==
    ASSUME StoreInv, NEW subject \in Name, NEW issuer \in Name, NEW start \in Int,
           NEW days \in Int, NEW isCA \in BOOLEAN, NEW pathLength \in Int, NEW key \in Nat,
           NEW signed \in BOOLEAN,
           Make(subject, issuer, start, days, isCA, pathLength, key, signed)
    PROVE  StoreInv'
<1>1. PICK from \in Int, to \in Int : from = now + start /\ to = now + start + days
    BY DEF StoreInv
<1> DEFINE c == [subject |-> subject, issuer |-> issuer, notBefore |-> from, notAfter |-> to,
                 isCA |-> isCA, pathLength |-> pathLength, key |-> key, signed |-> signed]
<1>2. c \in CertificateType
    BY Zenon DEF CertificateType
<1>3. certs' = Append(certs, c) /\ UNCHANGED <<now, store>>
    BY <1>1 DEF Make
<1> HIDE DEF c
<1> QED
    BY <1>2, <1>3, CertificateMade

\* Every step keeps it.
LEMMA StoreInductive ==
    /\ Init => StoreInv
    /\ StoreInv /\ [Next]_vars => StoreInv'
<1> USE CertificateAssumption
<1>1. Init => StoreInv
    <2> SUFFICES ASSUME Init PROVE StoreInv
        OBVIOUS
    <2>1. certs \in Seq(CertificateType) /\ now \in Int
        BY DEF Init
    <2>2. \A st \in Store : store[st] = [held |-> {}, index |-> [n \in Name |-> 0]]
        BY DEF Init
    <2>3. store = [st \in Store |-> [held |-> {}, index |-> [n \in Name |-> 0]]]
        BY DEF Init
    <2>4. [held |-> {}, index |-> [n \in Name |-> 0]] \in [held : SUBSET Serial, index : [Name -> Nat]]
        OBVIOUS
    <2>5. store \in [Store -> [held : SUBSET Serial, index : [Name -> Nat]]]
        BY <2>3, <2>4
    <2> QED
        BY <2>1, <2>2, <2>5 DEF StoreInv
<1>2. ASSUME StoreInv, [Next]_vars PROVE StoreInv'
    <2>0. /\ PathLengths \subseteq Int /\ NewSerial \in Nat /\ NoKey \in Nat
        BY <1>2 DEF PathLengths, NoLimit, NewSerial, NoKey, StoreInv
    <2>1. ASSUME NEW subject \in Name, NEW issuer \in Name, NEW start \in Start, NEW days \in Days,
                 NEW isCA \in AsCA, NEW pathLength \in PathLengths,
                 BuildCertificate(subject, issuer, start, days, isCA, pathLength)
          PROVE  StoreInv'
        <3>1. Make(subject, issuer, start, days, isCA, pathLength, NewSerial, FALSE)
            BY <2>1, Zenon DEF BuildCertificate
        <3> QED
            BY <1>2, <2>0, <3>1, MadeTyped
    <2>2. ASSUME NEW subject \in Name, NEW issuer \in Name, NEW start \in Start, NEW days \in Days,
                 NEW isCA \in AsCA, NEW pathLength \in PathLengths, NEW hasKey \in HasKey,
                 NEW signed \in Signed,
                 ParseCertificate(subject, issuer, start, days, isCA, pathLength, hasKey, signed)
          PROVE  StoreInv'
        <3>1. PICK key : key = IF hasKey THEN NewSerial ELSE NoKey
            OBVIOUS
        <3>2. key \in Nat
            BY <2>0, <3>1
        <3>3. Make(subject, issuer, start, days, isCA, pathLength, key, signed)
            BY <2>2, <3>1, Zenon DEF ParseCertificate
        <3> QED
            BY <1>2, <2>0, <3>2, <3>3, MadeTyped
    <2>3. ASSUME NEW ca \in Serial, NEW foreign \in Serial, NEW days \in Days,
                 NEW pathLength \in PathLengths,
                 IssueBridgeCertificate(ca, foreign, days, pathLength)
          PROVE  StoreInv'
        <3>1. PICK subject \in Name, issuer \in Name, key \in Nat, signed \in BOOLEAN :
                  /\ subject = certs[foreign].subject /\ issuer = certs[ca].subject
                  /\ key = certs[foreign].key /\ signed = certs[foreign].signed
            BY <1>2, CertificateTyped
        <3>2. Make(subject, issuer, 0, days, TRUE, pathLength, key, signed)
            BY <2>3, <3>1, Zenon DEF IssueBridgeCertificate
        <3>3. PICK start \in Int : start = 0
            OBVIOUS
        <3>4. PICK isCA \in BOOLEAN : isCA = TRUE
            BY Zenon
        <3>6. Make(subject, issuer, start, days, isCA, pathLength, key, signed)
            BY <3>2, <3>3, <3>4, Zenon
        <3>5. days \in Int /\ pathLength \in Int
            BY <2>0
        <3> QED
            BY <1>2, <3>5, <3>6, MadeTyped
    <2>4. ASSUME NEW st \in Store, NEW serial \in Serial,
                 AddCertificate(st, serial) \/ RemoveCertificate(st, serial)
          PROVE  StoreInv'
        BY <1>2, <2>4, StoreChanged
    <2>5. CASE Tick
        BY <1>2, <2>5 DEF Tick, StoreInv, Serial
    <2>6. CASE UNCHANGED vars
        BY <1>2, <2>6 DEF vars, StoreInv, Serial
    <2> QED
        BY <1>2, <2>1, <2>2, <2>3, <2>4, <2>5, <2>6, Zenon DEF Next
<1> QED
    BY <1>1, <1>2

\* A function is applied to what it gave, again and again.
Iterates(D, f, base, M) ==
    \E g \in [0 .. M -> D] : g[0] = base /\ \A n \in 1 .. M : g[n] = f[g[n - 1]]

\* It can be, as often as one likes.
LEMMA Iterated ==
    ASSUME NEW D, NEW base \in D, NEW f \in [D -> D], NEW M \in Nat
    PROVE  Iterates(D, f, base, M)
<1> USE DEF Iterates
<1> DEFINE Computes(g, m) == g[0] = base /\ \A n \in 1 .. m : g[n] = f[g[n - 1]]
           T == {m \in Nat : ~ \E g \in [0 .. m -> D] : Computes(g, m)}
<1>1. SUFFICES ASSUME T # {} PROVE FALSE
    OBVIOUS
<1>2. PICK m \in T : \A k \in T : m <= k
    <2>1. T \subseteq Nat
        OBVIOUS
    <2> HIDE DEF T
    <2> QED
        BY <1>1, <2>1, LeastNumber
<1>3. CASE m = 0
    <2> DEFINE g == [n \in 0 .. 0 |-> base]
    <2>1. g \in [0 .. 0 -> D] /\ Computes(g, 0)
        OBVIOUS
    <2> QED
        BY <1>2, <1>3, <2>1
<1>4. CASE m # 0
    <2>1. m \in Nat /\ m - 1 \in Nat /\ m - 1 \notin T
        <3>1. m \in Nat
            OBVIOUS
        <3> HIDE DEF T
        <3> QED
            BY <1>2, <1>4, <3>1
    <2>2. PICK h \in [0 .. m - 1 -> D] : Computes(h, m - 1)
        BY <2>1
    <2> DEFINE g == [n \in 0 .. m |-> IF n = m THEN f[h[m - 1]] ELSE h[n]]
    <2>3. g \in [0 .. m -> D]
        BY <2>1, <2>2
    <2>4. g[0] = base
        BY <1>4, <2>1, <2>2
    <2>5. ASSUME NEW n \in 1 .. m PROVE g[n] = f[g[n - 1]]
        <3>1. CASE n = m
            BY <2>1, <2>2, <3>1
        <3>2. CASE n # m
            BY <2>1, <2>2, <2>5, <3>2
        <3> QED
            BY <3>1, <3>2
    <2> HIDE DEF g
    <2> QED
        BY <1>2, <2>3, <2>4, <2>5
<1> QED
    BY <1>3, <1>4

\* Where the name of an issuer leads to: a certificate of that name, in one of the stores.
LEMMA IssuerFound ==
    ASSUME StoreInv, NEW name \in Name, FindIssuer(name) # 0
    PROVE  /\ FindIssuer(name) \in Serial
           /\ certs[FindIssuer(name)].subject = name
           /\ \E st \in Store : FindIssuer(name) \in store[st].held
<1>1. PICK st \in Store : FindIssuer(name) = FindBySubjectCN(st, name)
    BY DEF FindIssuer, Store
<1>2. /\ store[st].index[name] \in store[st].held
      /\ FindIssuer(name) = store[st].index[name]
    BY <1>1 DEF FindBySubjectCN
<1>3. store[st].held \subseteq Serial
    BY DEF StoreInv
<1> QED
    BY <1>2, <1>3 DEF StoreInv

\* Each certificate is followed by the one its issuer's name leads to.
Follows(chain) ==
    \A i \in 1 .. Len(chain) - 1 : /\ ~SelfSigned(chain[i])
                                   /\ chain[i + 1] = FindIssuer(certs[chain[i]].issuer)

\* The chain that is built begins with the leaf, every link of it is the issuer that was
\* found, and it ends where there is none or the depth is reached.
LEMMA ChainBuilt ==
    ASSUME StoreInv, NEW leaf \in Serial, NEW chain, chain = BuildChain(leaf)
    PROVE  /\ chain \in Seq(Serial) /\ Len(chain) \in 1 .. MaxDepth + 1 /\ chain[1] = leaf
           /\ Follows(chain)
           /\ Len(chain) <= MaxDepth => \/ SelfSigned(chain[Len(chain)])
                                        \/ FindIssuer(certs[chain[Len(chain)]].issuer) = 0
<1> DEFINE D == Seq(Serial) \ {<< >>}
           Links(c) == \A i \in 1 .. Len(c) - 1 : /\ ~SelfSigned(c[i])
                                                  /\ c[i + 1] = FindIssuer(certs[c[i]].issuer)
                                                  /\ c[i + 1] # 0
           Ends(c) == SelfSigned(c[Len(c)]) \/ FindIssuer(certs[c[Len(c)]].issuer) = 0
           Reaches(c, n) == /\ c \in Seq(Serial) /\ Len(c) \in 1 .. n + 1 /\ c[1] = leaf
                            /\ Links(c)
                            /\ Len(c) <= n => Ends(c)
           Body(g) == [n \in 0 .. MaxDepth |-> IF n = 0 THEN <<leaf>> ELSE Followed(g[n - 1])]
           G == CHOOSE g : g = Body(g)
<1>0. MaxDepth \in Nat
    BY DEF MaxDepth
<1>1. chain = G[MaxDepth]
    BY DEF BuildChain, Grown
<1>2. ASSUME NEW c \in D
      PROVE  /\ Ends(c) => Followed(c) = c
             /\ ~Ends(c) => /\ FindIssuer(certs[c[Len(c)]].issuer) \in Serial
                            /\ Followed(c) = Append(c, FindIssuer(certs[c[Len(c)]].issuer))
    <2>1. c[Len(c)] \in Serial
        OBVIOUS
    <2>2. certs[c[Len(c)]].issuer \in Name
        BY <2>1, CertificateTyped
    <2> QED
        BY <2>2, IssuerFound DEF Followed
<1>3. \A c \in D : Followed(c) \in D
    BY <1>2, SMTT(30)
<1>4. PICK g \in [0 .. MaxDepth -> D] :
          g[0] = <<leaf>> /\ \A n \in 1 .. MaxDepth : g[n] = Followed(g[n - 1])
    <2>1. PICK E : E = D
        OBVIOUS
    <2>2. PICK f \in [E -> E] : \A c \in E : f[c] = Followed(c)
        <3> DEFINE f == [c \in E |-> Followed(c)]
        <3>1. f \in [E -> E] /\ \A c \in E : f[c] = Followed(c)
            BY <1>3, <2>1
        <3> QED
            BY <3>1
    <2>3. <<leaf>> \in E
        BY <2>1
    <2> HIDE DEF D
    <2>4. PICK base \in E : base = <<leaf>>
        BY <2>3
    <2>5. PICK M \in Nat : M = MaxDepth
        BY <1>0
    <2>6. Iterates(E, f, base, M)
        BY Iterated
    <2>7. PICK g \in [0 .. M -> E] : g[0] = base /\ \A n \in 1 .. M : g[n] = f[g[n - 1]]
        BY <2>6 DEF Iterates
    <2>8. \A n \in 1 .. M : g[n - 1] \in E
        BY <2>7
    <2> QED
        BY <2>1, <2>2, <2>4, <2>5, <2>7, <2>8
<1>5. G = Body(G)
    <2>1. g = Body(g)
        <3>1. \A n \in 0 .. MaxDepth : n # 0 => n \in 1 .. MaxDepth
            BY <1>0
        <3>2. \A n \in 0 .. MaxDepth : g[n] = Body(g)[n]
            BY <1>4, <3>1
        <3>3. DOMAIN g = 0 .. MaxDepth /\ g = [n \in 0 .. MaxDepth |-> g[n]]
            BY <1>4, Zenon
        <3> QED
            BY <3>2, <3>3, Zenon
    <2> HIDE DEF Body
    <2> QED
        BY <2>1
<1>6. \A n \in 0 .. MaxDepth : G[n] = IF n = 0 THEN <<leaf>> ELSE Followed(G[n - 1])
    BY <1>5
<1> HIDE DEF G, Body
<1>7. \A n \in 0 .. MaxDepth : Reaches(G[n], n)
    <2> DEFINE T == {n \in 0 .. MaxDepth : ~Reaches(G[n], n)}
    <2>1. SUFFICES ASSUME T # {} PROVE FALSE
        OBVIOUS
    <2>0. T \subseteq 0 .. MaxDepth /\ T \subseteq Nat
        BY <1>0
    <2>2. PICK n \in T : \A k \in T : n <= k
        <3> HIDE DEF T
        <3> QED
            BY <2>0, <2>1, LeastNumber
    <2>3. CASE n = 0
        <3>1. G[0] = <<leaf>>
            BY <1>0, <1>6
        <3>2. Reaches(<<leaf>>, 0)
            OBVIOUS
        <3> QED
            BY <2>2, <2>3, <3>1, <3>2
    <2>4. CASE n # 0
        <3>1. n \in 1 .. MaxDepth /\ n - 1 \in 0 .. MaxDepth /\ n - 1 \notin T
            <4> HIDE DEF T
            <4> QED
                BY <1>0, <2>0, <2>2, <2>4
        <3>2. PICK c : c = G[n - 1]
            OBVIOUS
        <3>3. Reaches(c, n - 1) /\ G[n] = Followed(c)
            BY <1>6, <2>4, <3>1, <3>2
        <3>4. c \in D
            BY <3>3
        <3>5. CASE Ends(c)
            <4>1. Reaches(c, n)
                BY <3>1, <3>3, <3>5
            <4> QED
                BY <1>2, <2>2, <3>3, <3>4, <3>5, <4>1
        <3>6. CASE ~Ends(c)
            <4>1. PICK x \in Serial : x = FindIssuer(certs[c[Len(c)]].issuer)
                BY <1>2, <3>4, <3>6
            <4>2. Followed(c) = Append(c, x) /\ ~SelfSigned(c[Len(c)]) /\ x # 0
                BY <1>2, <3>4, <3>6, <4>1
            <4>3. PICK d : d = Append(c, x)
                OBVIOUS
            <4>4. /\ d \in Seq(Serial) /\ Len(d) = Len(c) + 1
                  /\ \A i \in 1 .. Len(c) : d[i] = c[i]
                  /\ d[Len(c) + 1] = x
                BY <3>3, <4>3
            <4>5. Len(c) = n
                BY <3>1, <3>3, <3>6
            <4>6. ASSUME NEW i \in 1 .. Len(d) - 1
                  PROVE  ~SelfSigned(d[i]) /\ d[i + 1] = FindIssuer(certs[d[i]].issuer) /\ d[i + 1] # 0
                <5>1. CASE i = Len(c)
                    BY <3>1, <4>1, <4>2, <4>4, <4>5, <5>1
                <5>2. CASE i # Len(c)
                    <6>1. i \in 1 .. Len(c) - 1 /\ i + 1 \in 1 .. Len(c) /\ i \in 1 .. Len(c)
                        BY <3>1, <4>4, <4>5, <4>6, <5>2
                    <6>2. ~SelfSigned(c[i]) /\ c[i + 1] = FindIssuer(certs[c[i]].issuer) /\ c[i + 1] # 0
                        BY <3>3, <6>1
                    <6> QED
                        BY <4>4, <6>1, <6>2
                <5> QED
                    BY <5>1, <5>2
            <4>7. d[1] = leaf /\ Len(d) = n + 1
                BY <3>1, <3>3, <4>4, <4>5
            <4>8. Links(d)
                BY <4>6
            <4> HIDE DEF Links, Ends
            <4>9. Reaches(d, n)
                BY <3>1, <4>4, <4>7, <4>8
            <4> QED
                BY <2>2, <3>3, <4>2, <4>3, <4>9
        <3> QED
            BY <3>5, <3>6
    <2> QED
        BY <2>3, <2>4
<1>8. Reaches(chain, MaxDepth)
    <2>1. MaxDepth \in 0 .. MaxDepth
        BY <1>0
    <2> HIDE DEF Reaches
    <2> QED
        BY <1>1, <1>7, <2>1, Zenon
<1> QED
    BY <1>8 DEF Follows

\* A chain that has a certificate twice goes round and never ends.
LEMMA ChainsSafe == StoreInv => ChainsLinkAndEnd
<1> SUFFICES ASSUME StoreInv, NEW leaf \in Serial, NEW chain, chain = BuildChain(leaf)
             PROVE  /\ \A i \in 1 .. Len(chain) - 1 :
                         /\ certs[chain[i + 1]].subject = certs[chain[i]].issuer
                         /\ \E st \in Store : chain[i + 1] \in store[st].held
                    /\ Valid(chain) =>
                         /\ \A i, j \in DOMAIN chain : chain[i] = chain[j] => i = j
                         /\ \/ SelfSigned(chain[Len(chain)])
                            \/ /\ FindIssuer(certs[chain[Len(chain)]].issuer) = 0
                               /\ IsTrusted(chain[Len(chain)])
    BY DEF ChainsLinkAndEnd
<1>b. /\ chain \in Seq(Serial) /\ Len(chain) \in 1 .. MaxDepth + 1 /\ chain[1] = leaf
      /\ Follows(chain)
      /\ Len(chain) <= MaxDepth => \/ SelfSigned(chain[Len(chain)])
                                   \/ FindIssuer(certs[chain[Len(chain)]].issuer) = 0
    BY ChainBuilt, Zenon
<1>0. PICK N \in Nat : N = Len(chain) /\ N \in 1 .. MaxDepth + 1
    <2>1. Len(chain) \in Nat
        BY <1>b
    <2> QED
        BY <1>b, <2>1
<1>1. /\ chain \in Seq(Serial) /\ DOMAIN chain = 1 .. N
      /\ \A i \in 1 .. N : chain[i] \in Serial
      /\ N <= MaxDepth => \/ SelfSigned(chain[N])
                          \/ FindIssuer(certs[chain[N]].issuer) = 0
    BY <1>0, <1>b
<1>2. ASSUME NEW i \in 1 .. N - 1
      PROVE  /\ i \in 1 .. N /\ i + 1 \in 1 .. N
             /\ ~SelfSigned(chain[i])
             /\ chain[i + 1] = FindIssuer(certs[chain[i]].issuer)
             /\ FindIssuer(certs[chain[i]].issuer) # 0
    <2>1. i \in 1 .. N /\ i + 1 \in 1 .. N
        BY <1>0
    <2>2. ~SelfSigned(chain[i]) /\ chain[i + 1] = FindIssuer(certs[chain[i]].issuer)
        BY <1>0, <1>b DEF Follows
    <2>3. chain[i + 1] # 0
        BY <1>1, <2>1, CertificateTyped
    <2> QED
        BY <2>1, <2>2, <2>3
<1>3. ASSUME NEW i \in 1 .. N - 1
      PROVE  /\ certs[chain[i + 1]].subject = certs[chain[i]].issuer
             /\ \E st \in Store : chain[i + 1] \in store[st].held
    <2>1. certs[chain[i]].issuer \in Name
        BY <1>1, <1>2, CertificateTyped
    <2> QED
        BY <1>2, <2>1, IssuerFound
<1>4. ASSUME Valid(chain)
      PROVE  /\ \A i, j \in 1 .. N : chain[i] = chain[j] => i = j
             /\ \/ SelfSigned(chain[N])
                \/ FindIssuer(certs[chain[N]].issuer) = 0 /\ IsTrusted(chain[N])
    <2>1. N <= MaxDepth /\ (IsTrusted(chain[N]) \/ SelfSigned(chain[N]))
        BY <1>0, <1>4 DEF Valid
    <2>2. SelfSigned(chain[N]) \/ FindIssuer(certs[chain[N]].issuer) = 0
        BY <1>1, <2>1
    <2>3. ASSUME NEW i \in 1 .. N, NEW j \in 1 .. N, i < j, chain[i] = chain[j]
          PROVE  FALSE
        <3> DEFINE T == {k \in 0 .. N - j : chain[i + k] # chain[j + k]}
        <3>1. T = {}
            <4> SUFFICES ASSUME T # {} PROVE FALSE
                OBVIOUS
            <4>1. T \subseteq Nat /\ T \subseteq 0 .. N - j
                OBVIOUS
            <4>2. PICK k \in T : \A m \in T : k <= m
                <5> HIDE DEF T
                <5> QED
                    BY <4>1, LeastNumber
            <4>3. k \in 0 .. N - j /\ k # 0
                <5>1. 0 \notin T
                    BY <2>3
                <5>2. k \in 0 .. N - j /\ k \in T
                    BY <4>1
                <5> HIDE DEF T
                <5> QED
                    BY <5>1, <5>2
            <4>4. k - 1 \in 0 .. N - j /\ k - 1 \notin T
                <5> HIDE DEF T
                <5> QED
                    BY <4>1, <4>2, <4>3
            <4>5. chain[i + (k - 1)] = chain[j + (k - 1)]
                BY <4>4
            <4>6. i + (k - 1) \in 1 .. N - 1 /\ j + (k - 1) \in 1 .. N - 1
                BY <2>3, <4>3
            <4>7. chain[i + (k - 1) + 1] = chain[j + (k - 1) + 1]
                BY <1>2, <4>5, <4>6
            <4>8. i + (k - 1) + 1 = i + k /\ j + (k - 1) + 1 = j + k
                BY <4>3
            <4> QED
                BY <4>7, <4>8
        <3>2. N - j \in 0 .. N - j /\ i + (N - j) \in 1 .. N - 1 /\ j + (N - j) = N
            BY <2>3
        <3>3. chain[i + (N - j)] = chain[N]
            BY <3>1, <3>2
        <3> QED
            BY <1>2, <2>2, <3>2, <3>3
    <2>4. \A i, j \in 1 .. N : chain[i] = chain[j] => i = j
        <3> SUFFICES ASSUME NEW i \in 1 .. N, NEW j \in 1 .. N, chain[i] = chain[j] PROVE i = j
            OBVIOUS
        <3>1. i < j \/ j < i \/ i = j
            OBVIOUS
        <3> QED
            BY <2>3, <3>1
    <2> QED
        BY <2>1, <2>2, <2>4
<1> QED
    BY <1>0, <1>1, <1>3, <1>4

-----------------------------------------------------------------------------
(* TransparencyLog. *)

\* What holds at 0, and at each number if at the one before, holds up to M.
LEMMA UpTo ==
    ASSUME NEW M \in Nat, NEW P, 0 \in P, \A n \in 1 .. M : n - 1 \in P => n \in P
    PROVE  \A n \in 0 .. M : n \in P
<1> DEFINE Odd == {n \in 0 .. M : n \notin P}
<1>1. SUFFICES ASSUME Odd # {} PROVE FALSE
    OBVIOUS
<1>2. Odd \subseteq Nat
    OBVIOUS
<1>3. PICK m \in Odd : \A n \in Odd : m <= n
    <2> HIDE DEF Odd
    <2> QED
        BY <1>1, <1>2, LeastNumber
<1>4. m \in 1 .. M /\ m \notin P /\ m - 1 \in 0 .. M /\ ~ m <= m - 1
    OBVIOUS
<1>5. m - 1 \notin Odd
    <2> HIDE DEF Odd
    <2> QED
        BY <1>3, <1>4
<1> QED
    BY <1>4, <1>5

\* idx halves from round to round.
LEMMA PlacesHalve ==
    ASSUME NEW index \in Nat, NEW M \in Nat
    PROVE  /\ Log!Places(index, M) \in [0 .. M -> Nat]
           /\ Log!Places(index, M)[0] = index
           /\ \A n \in 1 .. M : Log!Places(index, M)[n] = Log!Places(index, M)[n - 1] \div 2
<1> DEFINE Body(f) == [n \in 0 .. M |-> IF n = 0 THEN index ELSE f[n - 1] \div 2]
           half == [x \in Nat |-> x \div 2]
<1>1. half \in [Nat -> Nat]
    OBVIOUS
<1>2. PICK g \in [0 .. M -> Nat] : g[0] = index /\ \A n \in 1 .. M : g[n] = half[g[n - 1]]
    <2> HIDE DEF half
    <2>1. Iterates(Nat, half, index, M)
        BY <1>1, Iterated
    <2> QED
        BY <2>1 DEF Iterates
<1>3. g = Body(g)
    <2>1. ASSUME NEW n \in 0 .. M PROVE g[n] = IF n = 0 THEN index ELSE g[n - 1] \div 2
        <3>1. CASE n = 0
            BY <1>2, <3>1
        <3>2. CASE n # 0
            <4>1. n \in 1 .. M /\ n - 1 \in 0 .. M
                BY <3>2
            <4>2. g[n - 1] \in Nat
                BY <4>1
            <4> QED
                BY <1>2, <3>2, <4>1, <4>2
        <3> QED
            BY <3>1, <3>2
    <2> QED
        BY <2>1
<1> DEFINE idx == Log!Places(index, M)
<1>4. idx = Body(idx)
    <2>1. idx = CHOOSE f : f = Body(f)
        BY DEF Log!Places
    <2> HIDE DEF Body, idx
    <2> QED
        BY <1>3, <2>1
<1> HIDE DEF idx
<1>5. idx[0] = index /\ \A n \in 1 .. M : idx[n] = idx[n - 1] \div 2
    <2>1. 0 \in 0 .. M /\ \A n \in 1 .. M : n \in 0 .. M /\ n # 0
        OBVIOUS
    <2> QED
        BY <1>4, <2>1
<1>6. \A n \in 0 .. M : idx[n] \in Nat
    <2> DEFINE P == {n \in 0 .. M : idx[n] \in Nat}
    <2>1. 0 \in P /\ \A n \in 1 .. M : n - 1 \in P => n \in P
        BY <1>5
    <2>2. \A n \in 0 .. M : n \in P
        <3> HIDE DEF P
        <3> QED
            BY <2>1, UpTo
    <2> QED
        BY <2>2
<1>7. idx = [n \in 0 .. M |-> idx[n]]
    BY <1>4
<1>8. idx \in [0 .. M -> Nat]
    BY <1>6, <1>7
<1> QED
    BY <1>5, <1>8 DEF idx

\* Fewer rounds are the first of more rounds.
LEMMA PlacesAgree ==
    ASSUME NEW index \in Nat, NEW K \in Nat, NEW M \in Nat, K <= M
    PROVE  \A n \in 0 .. K : Log!Places(index, K)[n] = Log!Places(index, M)[n]
<1> DEFINE f == Log!Places(index, K)
           g == Log!Places(index, M)
           P == {n \in 0 .. K : f[n] = g[n]}
<1>1. f[0] = index /\ \A n \in 1 .. K : f[n] = f[n - 1] \div 2
    BY PlacesHalve
<1>2. g[0] = index /\ \A n \in 1 .. M : g[n] = g[n - 1] \div 2
    BY PlacesHalve
<1> HIDE DEF f, g
<1>3. 0 \in P /\ \A n \in 1 .. K : n - 1 \in P => n \in P
    BY <1>1, <1>2
<1>4. \A n \in 0 .. K : n \in P
    <2> HIDE DEF P
    <2> QED
        BY <1>3, UpTo
<1> QED
    BY <1>4 DEF f, g

\* The level above has a hash for every two.
LEMMA AboveHalves ==
    ASSUME NEW level, Len(level) \in Nat
    PROVE  /\ Len(Log!Above(level)) = (Len(level) + 1) \div 2
           /\ \A n \in 1 .. (Len(level) + 1) \div 2 :
                 Log!Above(level)[n] = IF 2 * n <= Len(level)
                                       THEN Log!NodeHash(level[2 * n - 1], level[2 * n])
                                       ELSE level[2 * n - 1]
<1>1. (Len(level) + 1) \div 2 \in Nat
    OBVIOUS
<1> QED
    BY <1>1 DEF Log!Above

\* Every level is above the one before.
LEMMA LevelsClimb ==
    ASSUME NEW S, NEW leaves \in Seq(S)
    PROVE  /\ Log!Levels(leaves)[0] = leaves
           /\ \A n \in 1 .. Len(leaves) : Log!Levels(leaves)[n] = Log!Above(Log!Levels(leaves)[n - 1])
           /\ DOMAIN Log!Levels(leaves) = 0 .. Len(leaves)
<1> DEFINE N == Len(leaves)
           Body(f) == [n \in 0 .. N |-> IF n = 0 THEN leaves ELSE Log!Above(f[n - 1])]
           Rises(u, m) == u[0] = leaves /\ \A n \in 1 .. m : u[n] = Log!Above(u[n - 1])
           P == {m \in 0 .. N : \E u : Rises(u, m)}
<1>0. N \in Nat
    OBVIOUS
<1> HIDE DEF N
<1>1. 0 \in P
    <2>1. Rises([n \in 0 .. 0 |-> leaves], 0)
        OBVIOUS
    <2>2. 0 \in 0 .. N
        BY <1>0
    <2> HIDE DEF Rises
    <2> QED
        BY <2>1, <2>2
<1>2. ASSUME NEW m \in 1 .. N, m - 1 \in P PROVE m \in P
    <2>1. PICK u : Rises(u, m - 1)
        BY <1>2
    <2> DEFINE v == [n \in 0 .. m |-> IF n = m THEN Log!Above(u[m - 1]) ELSE u[n]]
    <2>2. v[0] = leaves
        BY <1>0, <2>1
    <2>3. ASSUME NEW n \in 1 .. m PROVE v[n] = Log!Above(v[n - 1])
        <3>1. n - 1 \in 0 .. m /\ n - 1 # m /\ n \in 0 .. m
            BY <1>0
        <3>2. CASE n = m
            BY <3>1, <3>2
        <3>3. CASE n # m
            <4>1. n \in 1 .. m - 1
                BY <1>0, <3>3
            <4> QED
                BY <2>1, <3>1, <3>3, <4>1
        <3> QED
            BY <3>2, <3>3
    <2>4. Rises(v, m)
        BY <2>2, <2>3
    <2> QED
        BY <2>4
<1>3. PICK u : Rises(u, N)
    <2>1. N \in P
        <3> HIDE DEF P
        <3>1. \A m \in 0 .. N : m \in P
            BY <1>0, <1>1, <1>2, UpTo
        <3> QED
            BY <1>0, <3>1
    <2> HIDE DEF Rises
    <2> QED
        BY <2>1
<1>4. [n \in 0 .. N |-> u[n]] = Body([n \in 0 .. N |-> u[n]])
    <2> DEFINE e == [n \in 0 .. N |-> u[n]]
    <2>1. ASSUME NEW n \in 0 .. N PROVE u[n] = IF n = 0 THEN leaves ELSE Log!Above(e[n - 1])
        <3>1. n = 0 \/ (n \in 1 .. N /\ n - 1 \in 0 .. N)
            BY <1>0
        <3> QED
            BY <1>3, <3>1
    <2> QED
        BY <2>1
<1> DEFINE up == Log!Levels(leaves)
<1>5. up = Body(up)
    <2>1. up = CHOOSE f : f = Body(f)
        BY DEF Log!Levels, N
    <2>2. \E f : f = Body(f)
        BY <1>4
    <2> HIDE DEF Body, up
    <2> QED
        BY <2>1, <2>2
<1> HIDE DEF up
<1>6. up[0] = leaves /\ \A n \in 1 .. N : up[n] = Log!Above(up[n - 1])
    <2>1. 0 \in 0 .. N /\ \A n \in 1 .. N : n \in 0 .. N /\ n # 0
        BY <1>0
    <2> QED
        BY <1>5, <2>1
<1>7. DOMAIN up = 0 .. N
    BY <1>5
<1> QED
    BY <1>6, <1>7 DEF up, N

\* Half of a level, and half of a place in it.
LEMMA Halved ==
    ASSUME NEW k \in Nat \ {0}
    PROVE  /\ (k + 1) \div 2 \in Nat \ {0}
           /\ k = 1 => (k + 1) \div 2 = 1
           /\ k # 1 => (k + 1) \div 2 <= k - 1
           /\ \A at \in Nat : at < k => at \div 2 \in Nat /\ at \div 2 < (k + 1) \div 2
OBVIOUS

\* A place is the left or the right one of a pair.
LEMMA Paired ==
    ASSUME NEW at \in Nat
    PROVE  /\ at \div 2 \in Nat
           /\ at % 2 = 0 => at = 2 * (at \div 2)
           /\ at % 2 # 0 => at = 2 * (at \div 2) + 1
           /\ at % 2 = 0 => (at + 1) % 2 # 0
OBVIOUS

\* The levels get shorter, down to one hash.
LEMMA LevelsNarrow ==
    ASSUME NEW S, NEW leaves \in Seq(S), leaves # << >>
    PROVE  \A n \in 0 .. Len(leaves) :
              /\ Len(Log!Levels(leaves)[n]) \in Nat \ {0}
              /\ Len(Log!Levels(leaves)[n]) = 1 \/ Len(Log!Levels(leaves)[n]) + n <= Len(leaves)
<1> DEFINE N == Len(leaves)
           up == Log!Levels(leaves)
           Narrow(n) == /\ Len(up[n]) \in Nat \ {0}
                        /\ Len(up[n]) = 1 \/ Len(up[n]) + n <= N
           P == {n \in 0 .. N : Narrow(n)}
<1>1. N \in Nat \ {0}
    OBVIOUS
<1>2. up[0] = leaves /\ \A n \in 1 .. N : up[n] = Log!Above(up[n - 1])
    BY LevelsClimb
<1>3. Narrow(0)
    BY <1>1, <1>2
<1> HIDE DEF N, up
<1>4. ASSUME NEW n \in 1 .. N, n - 1 \in P PROVE n \in P
    <2>1. Narrow(n - 1)
        BY <1>4
    <2>2. Len(up[n]) = (Len(up[n - 1]) + 1) \div 2
        BY <1>2, <2>1, AboveHalves
    <2> DEFINE k == Len(up[n - 1])
               l == Len(up[n])
    <2>3. /\ k \in Nat \ {0} /\ l \in Nat \ {0} /\ (k = 1 \/ k + (n - 1) <= N)
          /\ k = 1 => l = 1
          /\ k # 1 => l <= k - 1
        <3>1. k \in Nat \ {0} /\ (k = 1 \/ k + (n - 1) <= N) /\ l = (k + 1) \div 2
            BY <2>1, <2>2
        <3> HIDE DEF k, l
        <3> QED
            BY <3>1, Halved
    <2>4. l \in Nat \ {0} /\ (l = 1 \/ l + n <= N)
        <3> HIDE DEF k, l
        <3> QED
            BY <1>1, <2>3
    <2> QED
        BY <2>4
<1>5. 0 \in P
    BY <1>1, <1>3
<1>6. \A n \in 0 .. N : n \in P
    <2> HIDE DEF P
    <2> QED
        BY <1>1, <1>4, <1>5, UpTo
<1> QED
    BY <1>6 DEF N, up

\* The hash of a place on the way up: combined with its sibling's, on its own side, or
\* moved up as it is.
LEMMA OnTheWay ==
    ASSUME NEW S, NEW leaves \in Seq(S), NEW index \in 0 .. Len(leaves) - 1
    PROVE  LET up == Log!Levels(leaves)
               idx == Log!Places(index, Len(leaves))
           IN  /\ \A n \in 0 .. Len(leaves) : idx[n] \in 0 .. Len(up[n]) - 1
               /\ \A n \in 1 .. Len(leaves) :
                     LET s == Log!Sibling(idx[n - 1])
                     IN  /\ s \in Nat
                         /\ s < Len(up[n - 1]) =>
                              up[n][idx[n] + 1]
                                  = IF idx[n - 1] % 2 = 0
                                    THEN Log!NodeHash(up[n - 1][idx[n - 1] + 1], up[n - 1][s + 1])
                                    ELSE Log!NodeHash(up[n - 1][s + 1], up[n - 1][idx[n - 1] + 1])
                         /\ ~ s < Len(up[n - 1]) =>
                              /\ up[n][idx[n] + 1] = up[n - 1][idx[n - 1] + 1]
                              /\ Len(up[n - 1]) = idx[n - 1] + 1 /\ idx[n - 1] % 2 = 0
<1> DEFINE N == Len(leaves)
           up == Log!Levels(leaves)
           idx == Log!Places(index, N)
           P == {n \in 0 .. N : idx[n] \in 0 .. Len(up[n]) - 1}
<1>1. N \in Nat \ {0} /\ index \in Nat /\ index < N /\ leaves # << >>
    OBVIOUS
<1>2. up[0] = leaves /\ \A n \in 1 .. N : up[n] = Log!Above(up[n - 1])
    BY LevelsClimb
<1>3. \A n \in 0 .. N : Len(up[n]) \in Nat \ {0}
    BY <1>1, LevelsNarrow
<1>4. /\ idx \in [0 .. N -> Nat] /\ idx[0] = index
      /\ \A n \in 1 .. N : idx[n] = idx[n - 1] \div 2
    BY <1>1, PlacesHalve
<1>5. 0 \in P
    BY <1>1, <1>2, <1>4
<1> HIDE DEF N, up, idx
<1>6. ASSUME NEW n \in 1 .. N PROVE /\ n - 1 \in 0 .. N /\ idx[n - 1] \in Nat /\ idx[n] \in Nat
                                    /\ idx[n] = idx[n - 1] \div 2
                                    /\ Len(up[n - 1]) \in Nat \ {0}
                                    /\ up[n] = Log!Above(up[n - 1])
                                    /\ Len(up[n]) = (Len(up[n - 1]) + 1) \div 2
    <2>1. n - 1 \in 0 .. N /\ n \in 0 .. N
        BY <1>1
    <2>2. idx[n - 1] \in Nat /\ idx[n] \in Nat /\ Len(up[n - 1]) \in Nat \ {0}
        BY <1>3, <1>4, <2>1
    <2> QED
        BY <1>2, <1>4, <2>1, <2>2, AboveHalves
<1>7. ASSUME NEW n \in 1 .. N, n - 1 \in P PROVE n \in P
    <2>1. idx[n - 1] < Len(up[n - 1])
        BY <1>6, <1>7
    <2>2. idx[n - 1] \div 2 < (Len(up[n - 1]) + 1) \div 2
        BY <1>6, <2>1, Halved
    <2>3. idx[n] \in Nat /\ Len(up[n]) \in Nat /\ idx[n] < Len(up[n])
        <3>1. n \in 0 .. N
            BY <1>1
        <3> QED
            BY <1>3, <1>6, <2>2, <3>1
    <2>4. n \in 0 .. N /\ idx[n] \in 0 .. Len(up[n]) - 1
        BY <1>1, <2>3
    <2> QED
        BY <2>4
<1>8. \A n \in 0 .. N : n \in P
    <2> HIDE DEF P
    <2> QED
        BY <1>1, <1>5, <1>7, UpTo
<1>9. ASSUME NEW n \in 1 .. N
      PROVE  LET s == Log!Sibling(idx[n - 1])
             IN  /\ s \in Nat
                 /\ s < Len(up[n - 1]) =>
                      up[n][idx[n] + 1]
                          = IF idx[n - 1] % 2 = 0
                            THEN Log!NodeHash(up[n - 1][idx[n - 1] + 1], up[n - 1][s + 1])
                            ELSE Log!NodeHash(up[n - 1][s + 1], up[n - 1][idx[n - 1] + 1])
                 /\ ~ s < Len(up[n - 1]) =>
                      /\ up[n][idx[n] + 1] = up[n - 1][idx[n - 1] + 1]
                      /\ Len(up[n - 1]) = idx[n - 1] + 1 /\ idx[n - 1] % 2 = 0
    <2> DEFINE below == up[n - 1]
               k == Len(below)
               at == idx[n - 1]
    <2>1. /\ k \in Nat \ {0} /\ at \in Nat /\ idx[n] = at \div 2 /\ up[n] = Log!Above(below)
          /\ at < k
        <3>1. idx[n - 1] \in 0 .. Len(up[n - 1]) - 1
            BY <1>6, <1>8
        <3>2. idx[n - 1] < Len(up[n - 1])
            BY <1>6, <3>1
        <3> QED
            BY <1>6, <3>2
    <2> DEFINE m == at \div 2 + 1
    <2>2. m \in 1 .. (k + 1) \div 2
        <3> HIDE DEF k, at
        <3> QED
            BY <2>1, Halved
    <2>3. up[n][m] = IF 2 * m <= k THEN Log!NodeHash(below[2 * m - 1], below[2 * m])
                     ELSE below[2 * m - 1]
        <3> HIDE DEF k, m, below, at
        <3> QED
            BY <2>1, <2>2, AboveHalves DEF k
    <2> HIDE DEF below, k, at
    <2>4. CASE at % 2 = 0
        <3>1. 2 * m - 1 = at + 1 /\ 2 * m = at + 2 /\ Log!Sibling(at) = at + 1 /\ at + 1 + 1 = at + 2
            BY <2>1, <2>4, Paired DEF Log!Sibling
        <3> HIDE DEF m
        <3>2. 2 * m <= k <=> at + 1 < k
            BY <2>1, <3>1
        <3>3. ~ at + 1 < k => k = at + 1
            BY <2>1
        <3>4. at + 1 \in Nat /\ idx[n] + 1 = m
            BY <2>1 DEF m
        <3>5. up[n][m] = IF at + 1 < k THEN Log!NodeHash(below[at + 1], below[at + 2]) ELSE below[at + 1]
            BY <2>3, <3>1, <3>2
        <3> QED
            BY <2>4, <3>1, <3>3, <3>4, <3>5 DEF below, k, at
    <2>5. CASE at % 2 # 0
        <3>1. /\ 2 * m - 1 = at /\ 2 * m = at + 1 /\ Log!Sibling(at) = at - 1
              /\ at - 1 \in Nat /\ at - 1 + 1 = at
            BY <2>1, <2>5, Paired DEF Log!Sibling
        <3> HIDE DEF m
        <3>2. 2 * m <= k /\ at - 1 < k
            BY <2>1, <3>1
        <3>3. idx[n] + 1 = m
            BY <2>1 DEF m
        <3>4. up[n][m] = Log!NodeHash(below[at], below[at + 1])
            BY <2>3, <3>1, <3>2
        <3> QED
            BY <2>5, <3>1, <3>2, <3>3, <3>4 DEF below, k, at
    <2> QED
        BY <2>4, <2>5
<1> QED
    BY <1>8, <1>9 DEF N, up, idx

\* The hashes of a proof, round after round.
Gathers(leaves, index, pf, m) ==
    /\ pf[0] = << >>
    /\ \A n \in 1 .. m :
          LET below == Log!Levels(leaves)[n - 1]
              s == Log!Sibling(Log!Places(index, Len(leaves))[n - 1])
          IN  pf[n] = IF s < Len(below) THEN Append(pf[n - 1], below[s + 1]) ELSE pf[n - 1]

\* There are such, and they are the proof that getInclusionProof() returns.
LEMMA ProofGathers ==
    ASSUME NEW S, NEW leaves \in Seq(S), NEW index
    PROVE  \E pf : /\ Gathers(leaves, index, pf, Len(leaves))
                   /\ Log!InclusionProof(leaves, index)
                        = [leafIndex |-> index, hashes |-> pf[Len(leaves)],
                           rootHash |-> Log!Levels(leaves)[Len(leaves)][1]]
<1> DEFINE N == Len(leaves)
           levels == Log!Levels(leaves)
           idx == Log!Places(index, N)
           next(n, before) == LET siblingIdx == Log!Sibling(idx[n - 1])
                              IN  IF siblingIdx < Len(levels[n - 1])
                                  THEN Append(before, levels[n - 1][siblingIdx + 1]) ELSE before
           Body(f) == [n \in 0 .. N |-> IF n = 0 THEN << >> ELSE next(n, f[n - 1])]
           Goes(u, m) == u[0] = << >> /\ \A n \in 1 .. m : u[n] = next(n, u[n - 1])
           P == {m \in 0 .. N : \E u : Goes(u, m)}
<1>0. N \in Nat
    OBVIOUS
<1>8. \A u : Goes(u, N) <=> Gathers(leaves, index, u, N)
    BY DEF Gathers
<1> HIDE DEF N, levels, idx, next
<1>1. 0 \in P
    <2>1. Goes([n \in 0 .. 0 |-> << >>], 0)
        OBVIOUS
    <2>2. 0 \in 0 .. N
        BY <1>0
    <2> HIDE DEF Goes
    <2> QED
        BY <2>1, <2>2
<1>2. ASSUME NEW m \in 1 .. N, m - 1 \in P PROVE m \in P
    <2>1. PICK u : Goes(u, m - 1)
        BY <1>2
    <2> DEFINE v == [n \in 0 .. m |-> IF n = m THEN next(m, u[m - 1]) ELSE u[n]]
    <2>2. v[0] = << >>
        BY <1>0, <2>1
    <2>3. ASSUME NEW n \in 1 .. m PROVE v[n] = next(n, v[n - 1])
        <3>1. n - 1 \in 0 .. m /\ n - 1 # m /\ n \in 0 .. m
            BY <1>0
        <3>2. CASE n = m
            BY <3>1, <3>2
        <3>3. CASE n # m
            <4>1. n \in 1 .. m - 1
                BY <1>0, <3>3
            <4> QED
                BY <2>1, <3>1, <3>3, <4>1
        <3> QED
            BY <3>2, <3>3
    <2>4. Goes(v, m)
        BY <2>2, <2>3
    <2>5. m \in 0 .. N
        BY <1>0
    <2> HIDE DEF Goes
    <2> QED
        BY <2>4, <2>5
<1>3. PICK u : Goes(u, N)
    <2>1. N \in P
        <3> HIDE DEF P
        <3>1. \A m \in 0 .. N : m \in P
            BY <1>0, <1>1, <1>2, UpTo
        <3> QED
            BY <1>0, <3>1
    <2> HIDE DEF Goes
    <2> QED
        BY <2>1
<1>4. [n \in 0 .. N |-> u[n]] = Body([n \in 0 .. N |-> u[n]])
    <2> DEFINE e == [n \in 0 .. N |-> u[n]]
    <2>1. ASSUME NEW n \in 0 .. N PROVE u[n] = IF n = 0 THEN << >> ELSE next(n, e[n - 1])
        <3>1. n = 0 \/ (n \in 1 .. N /\ n - 1 \in 0 .. N)
            BY <1>0
        <3> QED
            BY <1>3, <3>1
    <2> QED
        BY <2>1
<1> DEFINE pf == CHOOSE f : f = Body(f)
<1>5. pf = Body(pf)
    <2>1. \E f : f = Body(f)
        BY <1>4
    <2> HIDE DEF Body
    <2> QED
        BY <2>1
<1>6. Log!InclusionProof(leaves, index)
          = [leafIndex |-> index, hashes |-> pf[N], rootHash |-> levels[N][1]]
    BY DEF Log!InclusionProof, N, levels, idx, next
<1> HIDE DEF pf
<1>7. Goes(pf, N)
    <2>1. 0 \in 0 .. N /\ \A n \in 1 .. N : n \in 0 .. N /\ n # 0
        BY <1>0
    <2> QED
        BY <1>5, <2>1
<1> HIDE DEF Goes
<1> QED
    BY <1>8, <1>6, <1>7 DEF N, levels

\* A hash that was put into a proof stays where it is.
LEMMA ProofGrows ==
    ASSUME NEW S, NEW leaves \in Seq(S), NEW index \in Nat, NEW pf,
           Gathers(leaves, index, pf, Len(leaves))
    PROVE  \A n \in 0 .. Len(leaves) :
              /\ Len(pf[n]) \in 0 .. n /\ Len(pf[n]) <= Len(pf[Len(leaves)])
              /\ \A k \in 1 .. Len(pf[n]) : pf[Len(leaves)][k] = pf[n][k]
              /\ n # 0 =>
                   LET below == Log!Levels(leaves)[n - 1]
                       s == Log!Sibling(Log!Places(index, Len(leaves))[n - 1])
                   IN  s < Len(below) => /\ Len(pf[n]) = Len(pf[n - 1]) + 1
                                         /\ pf[n][Len(pf[n])] = below[s + 1]
<1> DEFINE N == Len(leaves)
           up == Log!Levels(leaves)
           idx == Log!Places(index, N)
           T == UNION {{up[n][k] : k \in Nat} : n \in 0 .. N}
           P == {m \in 0 .. N : /\ pf[m] \in Seq(T) /\ Len(pf[m]) <= m
                                /\ \A n \in 0 .. m : /\ Len(pf[n]) <= Len(pf[m])
                                                     /\ \A k \in 1 .. Len(pf[n]) : pf[m][k] = pf[n][k]}
<1>1. N \in Nat
    OBVIOUS
<1> DEFINE s(n) == Log!Sibling(idx[n - 1])
<1>2. /\ pf[0] = << >>
      /\ \A n \in 1 .. N : /\ pf[n] = IF s(n) < Len(up[n - 1]) THEN Append(pf[n - 1], up[n - 1][s(n) + 1])
                                      ELSE pf[n - 1]
                          /\ up[n - 1][s(n) + 1] \in T
    <2>1. ASSUME NEW n \in 1 .. N PROVE up[n - 1][s(n) + 1] \in T
        <3>1. n - 1 \in 0 .. N /\ idx[n - 1] \in Nat
            <4>1. idx \in [0 .. N -> Nat]
                BY <1>1, PlacesHalve
            <4> HIDE DEF idx, N
            <4> QED
                BY <1>1, <4>1
        <3>2. s(n) + 1 \in Nat
            BY <3>1 DEF Log!Sibling
        <3> HIDE DEF s, up, N
        <3> QED
            BY <3>1, <3>2
    <2>2. /\ pf[0] = << >>
          /\ \A n \in 1 .. N : pf[n] = IF s(n) < Len(up[n - 1]) THEN Append(pf[n - 1], up[n - 1][s(n) + 1])
                                       ELSE pf[n - 1]
        BY DEF Gathers
    <2> QED
        BY <2>1, <2>2
<1> HIDE DEF N, T, s, up, idx
<1>3. 0 \in P
    <2>1. pf[0] \in Seq(T) /\ Len(pf[0]) = 0
        BY <1>2
    <2>2. \A n \in 0 .. 0 : n = 0
        OBVIOUS
    <2> QED
        BY <1>1, <2>1, <2>2
<1>4. ASSUME NEW m \in 1 .. N, m - 1 \in P PROVE m \in P
    <2>1. /\ pf[m - 1] \in Seq(T) /\ Len(pf[m - 1]) <= m - 1 /\ Len(pf[m - 1]) \in Nat
          /\ \A n \in 0 .. m - 1 : /\ Len(pf[n]) <= Len(pf[m - 1])
                                   /\ \A k \in 1 .. Len(pf[n]) : pf[m - 1][k] = pf[n][k]
        BY <1>4
    <2>2. /\ pf[m] \in Seq(T) /\ Len(pf[m]) \in Nat /\ Len(pf[m]) <= m
          /\ Len(pf[m - 1]) <= Len(pf[m])
          /\ \A k \in 1 .. Len(pf[m - 1]) : pf[m][k] = pf[m - 1][k]
        <3>1. CASE pf[m] = pf[m - 1]
            BY <1>1, <2>1, <3>1
        <3>2. CASE \E x \in T : pf[m] = Append(pf[m - 1], x)
            <4>1. PICK x \in T : pf[m] = Append(pf[m - 1], x)
                BY <3>2
            <4>2. Len(pf[m]) = Len(pf[m - 1]) + 1 /\ pf[m] \in Seq(T)
                BY <2>1, <4>1
            <4>3. \A k \in 1 .. Len(pf[m - 1]) : pf[m][k] = pf[m - 1][k]
                BY <2>1, <4>1
            <4> QED
                BY <1>1, <2>1, <4>2, <4>3
        <3> QED
            BY <1>2, <3>1, <3>2
    <2>3. ASSUME NEW n \in 0 .. m
          PROVE  /\ Len(pf[n]) <= Len(pf[m])
                 /\ \A k \in 1 .. Len(pf[n]) : pf[m][k] = pf[n][k]
        <3>1. CASE n = m
            BY <2>2, <3>1
        <3>2. CASE n # m
            <4>1. n \in 0 .. m - 1
                BY <1>1, <3>2
            <4>2. Len(pf[n]) <= Len(pf[m - 1]) /\ \A k \in 1 .. Len(pf[n]) : pf[m - 1][k] = pf[n][k]
                BY <2>1, <4>1
            <4> QED
                BY <2>1, <2>2, <4>2
        <3> QED
            BY <3>1, <3>2
    <2> QED
        BY <1>1, <2>2, <2>3
<1>5. \A m \in 0 .. N : m \in P
    <2> HIDE DEF P
    <2> QED
        BY <1>1, <1>3, <1>4, UpTo
<1>6. N \in P
    <2> HIDE DEF P
    <2> QED
        BY <1>1, <1>5
<1>7. \A n \in 0 .. N : /\ Len(pf[n]) <= Len(pf[N])
                        /\ \A k \in 1 .. Len(pf[n]) : pf[N][k] = pf[n][k]
    BY <1>6
<1>8. ASSUME NEW n \in 0 .. N PROVE Len(pf[n]) \in 0 .. n
    <2>1. pf[n] \in Seq(T) /\ Len(pf[n]) <= n
        BY <1>5
    <2> QED
        BY <1>1, <2>1
<1>9. ASSUME NEW n \in 0 .. N, n # 0, s(n) < Len(up[n - 1])
      PROVE  Len(pf[n]) = Len(pf[n - 1]) + 1 /\ pf[n][Len(pf[n])] = up[n - 1][s(n) + 1]
    <2>1. n \in 1 .. N /\ n - 1 \in 0 .. N
        BY <1>1, <1>9
    <2>2. pf[n - 1] \in Seq(T) /\ up[n - 1][s(n) + 1] \in T
        BY <1>2, <1>5, <2>1
    <2>3. pf[n] = Append(pf[n - 1], up[n - 1][s(n) + 1])
        BY <1>2, <1>9, <2>1
    <2> QED
        BY <2>2, <2>3
<1> QED
    BY <1>7, <1>8, <1>9 DEF N, s, up, idx

\* currentHash, round after round.
Hashes(x, proof, cur) ==
    /\ cur[0] = x
    /\ \A n \in 1 .. Len(proof.hashes) :
          cur[n] = IF Log!Places(proof.leafIndex, Len(proof.hashes))[n - 1] % 2 = 0
                   THEN Log!NodeHash(cur[n - 1], proof.hashes[n])
                   ELSE Log!NodeHash(proof.hashes[n], cur[n - 1])

\* There are such, and verifyInclusionProof() compares the last.
LEMMA VerificationHashes ==
    ASSUME NEW x, NEW proof, Len(proof.hashes) \in Nat
    PROVE  \E cur : /\ Hashes(x, proof, cur)
                    /\ Log!VerifyInclusionProof(x, proof)
                            <=> cur[Len(proof.hashes)] = proof.rootHash
<1> DEFINE N == Len(proof.hashes)
           idx == Log!Places(proof.leafIndex, N)
           next(n, before) == IF idx[n - 1] % 2 = 0 THEN Log!NodeHash(before, proof.hashes[n])
                              ELSE Log!NodeHash(proof.hashes[n], before)
           Body(f) == [n \in 0 .. N |-> IF n = 0 THEN x ELSE next(n, f[n - 1])]
           Goes(u, m) == u[0] = x /\ \A n \in 1 .. m : u[n] = next(n, u[n - 1])
           P == {m \in 0 .. N : \E u : Goes(u, m)}
<1>0. N \in Nat
    OBVIOUS
<1>8. \A u : Goes(u, N) <=> Hashes(x, proof, u)
    BY DEF Hashes
<1> HIDE DEF N, idx, next
<1>1. 0 \in P
    <2>1. Goes([n \in 0 .. 0 |-> x], 0)
        OBVIOUS
    <2>2. 0 \in 0 .. N
        BY <1>0
    <2> HIDE DEF Goes
    <2> QED
        BY <2>1, <2>2
<1>2. ASSUME NEW m \in 1 .. N, m - 1 \in P PROVE m \in P
    <2>1. PICK u : Goes(u, m - 1)
        BY <1>2
    <2> DEFINE v == [n \in 0 .. m |-> IF n = m THEN next(m, u[m - 1]) ELSE u[n]]
    <2>2. v[0] = x
        BY <1>0, <2>1
    <2>3. ASSUME NEW n \in 1 .. m PROVE v[n] = next(n, v[n - 1])
        <3>1. n - 1 \in 0 .. m /\ n - 1 # m /\ n \in 0 .. m
            BY <1>0
        <3>2. CASE n = m
            BY <3>1, <3>2
        <3>3. CASE n # m
            <4>1. n \in 1 .. m - 1
                BY <1>0, <3>3
            <4> QED
                BY <2>1, <3>1, <3>3, <4>1
        <3> QED
            BY <3>2, <3>3
    <2>4. Goes(v, m)
        BY <2>2, <2>3
    <2>5. m \in 0 .. N
        BY <1>0
    <2> HIDE DEF Goes
    <2> QED
        BY <2>4, <2>5
<1>3. PICK u : Goes(u, N)
    <2>1. N \in P
        <3> HIDE DEF P
        <3>1. \A m \in 0 .. N : m \in P
            BY <1>0, <1>1, <1>2, UpTo
        <3> QED
            BY <1>0, <3>1
    <2> HIDE DEF Goes
    <2> QED
        BY <2>1
<1>4. [n \in 0 .. N |-> u[n]] = Body([n \in 0 .. N |-> u[n]])
    <2> DEFINE e == [n \in 0 .. N |-> u[n]]
    <2>1. ASSUME NEW n \in 0 .. N PROVE u[n] = IF n = 0 THEN x ELSE next(n, e[n - 1])
        <3>1. n = 0 \/ (n \in 1 .. N /\ n - 1 \in 0 .. N)
            BY <1>0
        <3> QED
            BY <1>3, <3>1
    <2> QED
        BY <2>1
<1> DEFINE cur == CHOOSE f : f = Body(f)
<1>5. cur = Body(cur)
    <2>1. \E f : f = Body(f)
        BY <1>4
    <2> HIDE DEF Body
    <2> QED
        BY <2>1
<1>6. Log!VerifyInclusionProof(x, proof) <=> cur[N] = proof.rootHash
    BY DEF Log!VerifyInclusionProof, N, idx, next
<1> HIDE DEF cur
<1>7. Goes(cur, N)
    <2>1. 0 \in 0 .. N /\ \A n \in 1 .. N : n \in 0 .. N /\ n # 0
        BY <1>0
    <2> QED
        BY <1>5, <2>1
<1> HIDE DEF Goes
<1> QED
    BY <1>8, <1>6, <1>7 DEF N

\* A hash of two tells both.
LEMMA NodeTells ==
    ASSUME NEW a, NEW b, NEW c, NEW d, Log!NodeHash(a, b) = Log!NodeHash(c, d)
    PROVE  a = c /\ b = d
BY DEF Log!NodeHash

\* A proof that verifies is of the leaf it was made for, on whichever side the hashes are
\* taken; and where nothing moved up without a sibling, every proof verifies.
LEMMA ProofsRight ==
    ASSUME NEW S, NEW leaves \in Seq(S), NEW index \in 0 .. Len(leaves) - 1, NEW x
    PROVE  LET up == Log!Levels(leaves)
               proof == Log!InclusionProof(leaves, index)
           IN  /\ Log!VerifyInclusionProof(x, proof) => x = leaves[index + 1]
               /\ (\A n \in 0 .. Len(leaves) : Len(up[n]) = 1 \/ Len(up[n]) % 2 = 0)
                     => (x = leaves[index + 1] => Log!VerifyInclusionProof(x, proof))
<1> DEFINE N == Len(leaves)
           up == Log!Levels(leaves)
           idx == Log!Places(index, N)
           proof == Log!InclusionProof(leaves, index)
           on(n) == up[n][idx[n] + 1]
           s(n) == Log!Sibling(idx[n - 1])
<1>1. N \in Nat \ {0} /\ index \in Nat /\ leaves # << >>
    OBVIOUS
<1>2. PICK pf : /\ Gathers(leaves, index, pf, N)
                /\ proof = [leafIndex |-> index, hashes |-> pf[N], rootHash |-> up[N][1]]
    BY ProofGathers
<1>3. /\ pf[0] = << >>
      /\ \A n \in 1 .. N : pf[n] = IF s(n) < Len(up[n - 1]) THEN Append(pf[n - 1], up[n - 1][s(n) + 1])
                                   ELSE pf[n - 1]
    BY <1>2 DEF Gathers
<1>4. \A n \in 0 .. N : /\ Len(pf[n]) \in 0 .. n /\ Len(pf[n]) <= Len(pf[N])
                        /\ \A k \in 1 .. Len(pf[n]) : pf[N][k] = pf[n][k]
    BY <1>1, <1>2, ProofGrows
<1>5. /\ \A n \in 0 .. N : idx[n] \in 0 .. Len(up[n]) - 1
      /\ \A n \in 1 .. N :
            /\ s(n) < Len(up[n - 1]) =>
                 on(n) = IF idx[n - 1] % 2 = 0 THEN Log!NodeHash(on(n - 1), up[n - 1][s(n) + 1])
                         ELSE Log!NodeHash(up[n - 1][s(n) + 1], on(n - 1))
            /\ ~ s(n) < Len(up[n - 1]) =>
                 on(n) = on(n - 1) /\ Len(up[n - 1]) = idx[n - 1] + 1 /\ idx[n - 1] % 2 = 0
    BY OnTheWay
<1>6. \A n \in 0 .. N : /\ Len(up[n]) \in Nat \ {0}
                        /\ Len(up[n]) = 1 \/ Len(up[n]) + n <= N
    BY <1>1, LevelsNarrow
<1> DEFINE K == Len(proof.hashes)
           at == Log!Places(proof.leafIndex, K)
<1>7. /\ K = Len(pf[N]) /\ K \in 0 .. N /\ proof.leafIndex = index
      /\ proof.hashes = pf[N] /\ proof.rootHash = up[N][1]
    BY <1>1, <1>2, <1>4
<1>8. \A n \in 0 .. K : at[n] = idx[n]
    <2>1. K \in Nat /\ K <= N
        BY <1>1, <1>7
    <2> QED
        BY <1>1, <1>7, <2>1, PlacesAgree
<1>9. PICK cur : Hashes(x, proof, cur) /\ (Log!VerifyInclusionProof(x, proof) <=> cur[K] = up[N][1])
    <2>1. Len(proof.hashes) \in Nat
        BY <1>1, <1>7
    <2> QED
        BY <1>7, <2>1, VerificationHashes
<1>10. /\ cur[0] = x
       /\ \A n \in 1 .. K : cur[n] = IF at[n - 1] % 2 = 0 THEN Log!NodeHash(cur[n - 1], pf[N][n])
                                     ELSE Log!NodeHash(pf[N][n], cur[n - 1])
    BY <1>7, <1>9 DEF Hashes
<1>11. on(0) = leaves[index + 1]
    BY <1>1, PlacesHalve, LevelsClimb
<1>12. on(N) = up[N][1]
    <2>1. N \in 0 .. N /\ idx[N] \in 0 .. Len(up[N]) - 1 /\ Len(up[N]) = 1
        BY <1>1, <1>5, <1>6
    <2>2. idx[N] = 0
        BY <2>1
    <2> QED
        BY <2>2
<1> HIDE DEF N, up, idx, proof, on, s, K, at
<1> DEFINE len(n) == Len(pf[n])
<1>13. ASSUME NEW n \in 1 .. N
       PROVE  /\ n - 1 \in 0 .. N /\ n \in 0 .. N
              /\ \/ /\ s(n) < Len(up[n - 1])
                    /\ len(n) = len(n - 1) + 1 /\ len(n) \in 1 .. K /\ len(n - 1) \in 0 .. K
                    /\ pf[N][len(n)] = up[n - 1][s(n) + 1]
                 \/ ~ s(n) < Len(up[n - 1]) /\ len(n) = len(n - 1) /\ on(n) = on(n - 1)
    <2>1. n - 1 \in 0 .. N /\ n \in 0 .. N /\ n # 0
        BY <1>1
    <2>2. CASE ~ s(n) < Len(up[n - 1])
        BY <1>3, <1>5, <2>1, <2>2
    <2>3. CASE s(n) < Len(up[n - 1])
        <3>1. len(n) = len(n - 1) + 1 /\ pf[n][len(n)] = up[n - 1][s(n) + 1]
            BY <1>1, <1>2, <2>1, <2>3, ProofGrows DEF N, s, up, idx
        <3>2. len(n - 1) \in Nat /\ len(n) \in Nat /\ len(n) <= K /\ K \in Nat
            BY <1>1, <1>4, <1>7, <2>1
        <3> HIDE DEF len
        <3>3. len(n) \in 1 .. K /\ len(n - 1) \in 0 .. K /\ len(n) \in 1 .. len(n)
            BY <3>1, <3>2
        <3>4. pf[N][len(n)] = pf[n][len(n)]
            BY <1>4, <2>1, <3>3 DEF len
        <3> QED
            BY <2>1, <2>3, <3>1, <3>3, <3>4
    <2> QED
        BY <2>2, <2>3
<1>14. len(0) = 0 /\ len(N) = K /\ N \in 0 .. N /\ 0 \in 0 .. N
    BY <1>1, <1>3, <1>7
<1> HIDE DEF len
<1>15. Log!VerifyInclusionProof(x, proof) => x = leaves[index + 1]
    <2> DEFINE P == {n \in 0 .. N : cur[len(n)] = on(n) => x = leaves[index + 1]}
    <2>1. 0 \in P
        BY <1>10, <1>11, <1>14
    <2>2. ASSUME NEW n \in 1 .. N, n - 1 \in P PROVE n \in P
        <3> SUFFICES ASSUME cur[len(n)] = on(n) PROVE x = leaves[index + 1]
            BY <1>13
        <3>1. cur[len(n - 1)] = on(n - 1) => x = leaves[index + 1]
            BY <2>2
        <3>2. CASE ~ s(n) < Len(up[n - 1])
            BY <1>13, <3>1, <3>2
        <3>3. CASE s(n) < Len(up[n - 1])
            <4> DEFINE sibling == up[n - 1][s(n) + 1]
            <4>1. on(n) = IF idx[n - 1] % 2 = 0 THEN Log!NodeHash(on(n - 1), sibling)
                          ELSE Log!NodeHash(sibling, on(n - 1))
                BY <1>5, <3>3
            <4>2. /\ len(n) \in 1 .. K /\ len(n) - 1 = len(n - 1) /\ pf[N][len(n)] = sibling
                BY <1>1, <1>7, <1>13, <3>3
            <4>3. \/ cur[len(n)] = Log!NodeHash(cur[len(n - 1)], sibling)
                  \/ cur[len(n)] = Log!NodeHash(sibling, cur[len(n - 1)])
                BY <1>10, <4>2
            <4> HIDE DEF sibling
            <4>4. cur[len(n - 1)] = on(n - 1)
                BY <4>1, <4>3, NodeTells
            <4> QED
                BY <3>1, <4>4
        <3> QED
            BY <3>2, <3>3
    <2>3. N \in P
        <3> HIDE DEF P
        <3> QED
            BY <1>1, <1>14, <2>1, <2>2, UpTo
    <2> QED
        BY <1>9, <1>12, <1>14, <2>3
<1>16. ASSUME \A n \in 0 .. N : Len(up[n]) = 1 \/ Len(up[n]) % 2 = 0, x = leaves[index + 1]
       PROVE  Log!VerifyInclusionProof(x, proof)
    <2> DEFINE P == {n \in 0 .. N : cur[len(n)] = on(n) /\ (Len(up[n]) # 1 => len(n) = n)}
    <2>1. 0 \in P
        BY <1>10, <1>11, <1>14, <1>16
    <2>2. ASSUME NEW n \in 1 .. N, n - 1 \in P PROVE n \in P
        <3>1. cur[len(n - 1)] = on(n - 1) /\ (Len(up[n - 1]) # 1 => len(n - 1) = n - 1)
            BY <2>2
        <3>2. /\ n - 1 \in 0 .. N /\ n \in 0 .. N /\ Len(up[n - 1]) \in Nat
              /\ idx[n - 1] \in 0 .. Len(up[n - 1]) - 1
            BY <1>5, <1>6, <1>13
        <3>3. Len(up[n - 1]) = 1 => Len(up[n]) = 1 /\ ~ s(n) < Len(up[n - 1])
            <4>1. up[n] = Log!Above(up[n - 1])
                BY LevelsClimb DEF up, N
            <4>2. ASSUME Len(up[n - 1]) = 1 PROVE idx[n - 1] = 0
                BY <3>2, <4>2
            <4>3. Log!Sibling(0) = 1
                BY DEF Log!Sibling
            <4>4. ASSUME Len(up[n - 1]) = 1 PROVE Len(up[n]) = 1
                <5>1. Len(up[n]) = (Len(up[n - 1]) + 1) \div 2
                    BY <3>2, <4>1, AboveHalves
                <5>2. (1 + 1) \div 2 = 1
                    OBVIOUS
                <5> QED
                    BY <4>4, <5>1, <5>2
            <4> QED
                BY <4>2, <4>3, <4>4 DEF s
        <3>4. CASE ~ s(n) < Len(up[n - 1])
            <4>1. Len(up[n - 1]) = idx[n - 1] + 1 /\ idx[n - 1] % 2 = 0
                BY <1>5, <3>4
            <4>2. Len(up[n - 1]) % 2 # 0
                <5>1. idx[n - 1] \in Nat
                    BY <3>2
                <5> QED
                    BY <4>1, <5>1, Paired
            <4>3. Len(up[n]) = 1
                BY <1>16, <3>2, <3>3, <4>2
            <4> QED
                BY <1>13, <3>1, <3>2, <3>4, <4>3
        <3>5. CASE s(n) < Len(up[n - 1])
            <4> DEFINE sibling == up[n - 1][s(n) + 1]
            <4>1. on(n) = IF idx[n - 1] % 2 = 0 THEN Log!NodeHash(on(n - 1), sibling)
                          ELSE Log!NodeHash(sibling, on(n - 1))
                BY <1>5, <3>5
            <4>2. /\ len(n) \in 1 .. K /\ len(n) - 1 = len(n - 1) /\ pf[N][len(n)] = sibling
                  /\ len(n - 1) \in 0 .. K
                BY <1>1, <1>7, <1>13, <3>5
            <4>3. len(n - 1) = n - 1 /\ len(n) = n
                BY <1>1, <3>1, <3>3, <3>5, <4>2
            <4>4. at[len(n - 1)] = idx[n - 1]
                BY <1>8, <4>2, <4>3
            <4>5. cur[len(n)] = IF idx[n - 1] % 2 = 0 THEN Log!NodeHash(cur[len(n - 1)], sibling)
                                ELSE Log!NodeHash(sibling, cur[len(n - 1)])
                BY <1>10, <4>2, <4>4
            <4> QED
                BY <3>1, <3>2, <4>1, <4>3, <4>5
        <3> QED
            BY <3>4, <3>5
    <2>3. N \in P
        <3> HIDE DEF P
        <3> QED
            BY <1>1, <1>14, <2>1, <2>2, UpTo
    <2> QED
        BY <1>9, <1>12, <1>14, <2>3
<1> QED
    BY <1>15, <1>16 DEF N, up, proof

\* The leaves stay hashes of certificates.
LEMMA LogInductive ==
    /\ Log!Init => Log!LogInv
    /\ Log!LogInv /\ [Log!Next]_(Log!vars) => Log!LogInv'
<1> DEFINE S == {Log!LeafHash(cert) : cert \in Logged}
<1>1. Log!Init => Log!LogInv
    BY DEF Log!Init, Log!LogInv
<1>2. ASSUME Log!LogInv, UNCHANGED treeHashes PROVE Log!LogInv'
    BY <1>2 DEF Log!LogInv
<1>3. ASSUME Log!LogInv, NEW cert \in Logged, Log!SubmitCertificate(cert)
      PROVE  Log!LogInv'
    <2>1. treeHashes \in Seq(S) /\ Log!LeafHash(cert) \in S
        BY <1>3 DEF Log!LogInv
    <2>2. treeHashes' \in Seq(S)
        <3> HIDE DEF S
        <3> QED
            BY <1>3, <2>1 DEF Log!SubmitCertificate
    <2> QED
        BY <2>2 DEF Log!LogInv
<1>4. UNCHANGED Log!vars => UNCHANGED treeHashes
    BY DEF Log!vars
<1> QED
    BY <1>1, <1>2, <1>3, <1>4 DEF Log!Next

\* Its proofs are right.
LEMMA LogSafe == Log!LogInv => ProofsMatchLog
<1> SUFFICES ASSUME Log!LogInv PROVE ProofsMatchLog
    OBVIOUS
<1> DEFINE S == {Log!LeafHash(cert) : cert \in Logged}
<1>1. treeHashes \in Seq(S)
    BY DEF Log!LogInv
<1> HIDE DEF S
<1>2. ASSUME NEW i \in Log!Index
      PROVE  LET proof == Log!InclusionProof(treeHashes, i)
             IN  /\ \A j \in Log!Index : Log!VerifyInclusionProof(treeHashes[j + 1], proof)
                                             => treeHashes[j + 1] = treeHashes[i + 1]
                 /\ Log!Complete => Log!VerifyInclusionProof(treeHashes[i + 1], proof)
    <2> DEFINE proof == Log!InclusionProof(treeHashes, i)
    <2>1. i \in 0 .. Len(treeHashes) - 1 /\ treeHashes # << >>
        BY <1>1, <1>2 DEF Log!Index
    <2>3. \A x : Log!VerifyInclusionProof(x, proof) => x = treeHashes[i + 1]
        BY <1>1, <2>1, ProofsRight
    <2>4. ASSUME Log!Complete PROVE Log!VerifyInclusionProof(treeHashes[i + 1], proof)
        <3>1. \A n \in 0 .. Len(treeHashes) : \/ Len(Log!Levels(treeHashes)[n]) = 1
                                              \/ Len(Log!Levels(treeHashes)[n]) % 2 = 0
            BY <1>1, <2>4, LevelsClimb DEF Log!Complete
        <3> QED
            BY <1>1, <2>1, <3>1, ProofsRight
    <2> QED
        BY <2>3, <2>4
<1> QED
    BY <1>2 DEF ProofsMatchLog, Log!ProofsMatchLog

-----------------------------------------------------------------------------
(* CryptoAgility. *)

\* Names stay in an order of preference and among the deprecated.
LEMMA AgilityInductive ==
    /\ Agility!Init => Agility!AgilityInv
    /\ Agility!AgilityInv /\ [Agility!Next]_(Agility!vars) => Agility!AgilityInv'
<1>1. Agility!Init => Agility!AgilityInv
    BY DEF Agility!Init, Agility!AgilityInv
<1>2. ASSUME Agility!AgilityInv, [Agility!Next]_(Agility!vars) PROVE Agility!AgilityInv'
    <2>1. CASE \E alg \in Agility!Algorithm, deadline \in Deadline \cup {Agility!NoDeadline} :
                  Agility!DeprecateAlgorithm(alg, deadline)
        BY <1>2, <2>1 DEF Agility!AgilityInv, Agility!DeprecateAlgorithm
    <2>2. CASE \E prefs \in Preferences : Agility!SetSignaturePreferences(prefs)
        BY <1>2, <2>2 DEF Agility!AgilityInv, Agility!SetSignaturePreferences
    <2>3. CASE Agility!Tick \/ UNCHANGED Agility!vars
        BY <1>2, <2>3 DEF Agility!AgilityInv, Agility!Tick, Agility!vars
    <2> QED
        BY <1>2, <2>1, <2>2, <2>3 DEF Agility!Next
<1> QED
    BY <1>1, <1>2

\* The plan counts as everyone does.
LEMMA PlanCountsAlike == \A S : Agility!Cardinality(S) = Cardinality(S)
BY DEF Agility!Cardinality, Cardinality, Agility!IsFiniteSet, IsFiniteSet

\* Urgencies are ordered.
LEMMA UrgencyBounded == \A alg : Agility!Urgency(alg) \in 0 .. 3
BY DEF Agility!Urgency

\* The plan has every entry at one place, and what is more urgent first.
LEMMA PlanSorted ==
    ASSUME Agility!AgilityInv
    PROVE  LET plan == Agility!MigrationPlan
           IN  /\ \A n \in DOMAIN plan : plan[n].to = Agility!Replacement
               /\ \A m, n \in DOMAIN plan : m < n => plan[m].urgency <= plan[n].urgency
<1> DEFINE all == DOMAIN deprecatedAlgorithms
           before(i) == Agility!Before(i)
           urgency(i) == Agility!Entry(i).urgency
           at(n) == CHOOSE i \in all : Cardinality(before(i)) = n - 1
<1>1. all \subseteq Nat /\ IsFiniteSet(all) /\ Cardinality(all) \in Nat /\ all = 1 .. Cardinality(all)
    <2>1. PICK k \in Nat : all = 1 .. k
        BY DEF Agility!AgilityInv
    <2> QED
        BY <2>1, FS_Interval
<1>2. \A i : urgency(i) \in 0 .. 3 /\ Agility!Entry(i).to = Agility!Replacement
    BY UrgencyBounded DEF Agility!Entry
<1>3. \A i, j : j \in before(i) <=>
              j \in all /\ (urgency(j) < urgency(i) \/ (urgency(j) = urgency(i) /\ j < i))
    BY DEF Agility!Before
<1>4. \A n \in all : Agility!MigrationPlan[n] = Agility!Entry(at(n))
    BY PlanCountsAlike DEF Agility!MigrationPlan
<1>5. DOMAIN Agility!MigrationPlan = all
    BY DEF Agility!MigrationPlan
<1> HIDE DEF all, before, urgency, at
<1>6. \A i \in all : before(i) \subseteq all \ {i}
    BY <1>1, <1>2, <1>3
<1>7. \A i, j \in all : j \in before(i) => before(j) \subseteq before(i) \ {j}
    BY <1>1, <1>2, <1>3
<1>8. \A i, j \in all : i = j \/ j \in before(i) \/ i \in before(j)
    BY <1>1, <1>2, <1>3
<1>9. \A i \in all : /\ IsFiniteSet(before(i)) /\ Cardinality(before(i)) \in Nat
                     /\ Cardinality(before(i)) < Cardinality(all)
    <2> TAKE i \in all
    <2>1. /\ IsFiniteSet(all \ {i})
          /\ Cardinality(all \ {i}) = Cardinality(all) - 1
        BY <1>1, FS_RemoveElement
    <2>2. IsFiniteSet(before(i)) /\ Cardinality(before(i)) <= Cardinality(all \ {i})
        BY <1>6, <2>1, FS_Subset
    <2>3. Cardinality(before(i)) \in Nat
        BY <2>2, FS_CardinalityType
    <2> QED
        BY <1>1, <2>1, <2>2, <2>3
<1>10. ASSUME NEW i \in all, NEW j \in all, j \in before(i)
       PROVE  Cardinality(before(j)) < Cardinality(before(i))
    <2>1. /\ IsFiniteSet(before(i) \ {j})
          /\ Cardinality(before(i) \ {j}) = Cardinality(before(i)) - 1
        BY <1>9, <1>10, FS_RemoveElement
    <2>2. before(j) \subseteq before(i) \ {j}
        BY <1>7, <1>10
    <2>3. Cardinality(before(j)) <= Cardinality(before(i) \ {j})
        BY <2>1, <2>2, FS_Subset
    <2> QED
        BY <1>9, <2>1, <2>3
<1> DEFINE place == [i \in all |-> Cardinality(before(i)) + 1]
<1>11. place \in Injection(all, all)
    <2>1. \A i \in all : place[i] \in 1 .. Cardinality(all)
        BY <1>9, <1>1
    <2>2. place \in [all -> all]
        BY <1>1, <2>1
    <2>3. \A i, j \in all : place[i] = place[j] => i = j
        BY <1>8, <1>9, <1>10
    <2> QED
        BY <2>2, <2>3 DEF Injection, IsInjective
<1>12. place \in Surjection(all, all)
    BY <1>1, <1>11, FS_Injection
<1>13. \A n \in all : at(n) \in all /\ Cardinality(before(at(n))) = n - 1
    <2> TAKE n \in all
    <2>1. PICK i \in all : place[i] = n
        BY <1>12 DEF Surjection
    <2>2. Cardinality(before(i)) = n - 1
        BY <1>1, <1>9, <2>1
    <2> QED
        BY <2>2 DEF at
<1>14. \A m, n \in all : m < n => urgency(at(m)) <= urgency(at(n))
    <2> SUFFICES ASSUME NEW m \in all, NEW n \in all, m < n, ~(urgency(at(m)) <= urgency(at(n)))
                 PROVE  FALSE
        OBVIOUS
    <2>1. at(n) \in before(at(m))
        BY <1>2, <1>3, <1>13
    <2>2. Cardinality(before(at(n))) < Cardinality(before(at(m)))
        BY <1>10, <1>13, <2>1
    <2> QED
        BY <1>1, <1>13, <2>2
<1> QED
    BY <1>2, <1>4, <1>5, <1>14 DEF urgency

\* The first preference among some algorithms.
LEMMA FirstFound ==
    ASSUME Agility!AgilityInv, NEW algs,
           \E i \in DOMAIN algorithmPreferences : algorithmPreferences[i] \in algs
    PROVE  \E i \in DOMAIN algorithmPreferences :
              /\ Agility!FirstOf(algs) = algorithmPreferences[i]
              /\ algorithmPreferences[i] \in algs
              /\ \A j \in DOMAIN algorithmPreferences : algorithmPreferences[j] \in algs => i <= j
<1> DEFINE found == {i \in DOMAIN algorithmPreferences : algorithmPreferences[i] \in algs}
           least == CHOOSE i \in found : \A j \in found : i <= j
<1>1. found # {} /\ found \subseteq Nat
    BY AgilityAssumption DEF Agility!AgilityInv
<1>2. least \in found /\ \A j \in found : least <= j
    BY <1>1, LeastNumber
<1>3. Agility!FirstOf(algs) = algorithmPreferences[least]
    BY <1>1 DEF Agility!FirstOf
<1> HIDE DEF least
<1> QED
    BY <1>2, <1>3

\* Who supports the plan's target besides can negotiate it.
LEMMA PlanFollowed == Agility!AgilityInv => PlanCanBeFollowed
<1> SUFFICES ASSUME Agility!AgilityInv PROVE Agility!PlanCanBeFollowed
    BY DEF PlanCanBeFollowed
<1> DEFINE plan == Agility!MigrationPlan
           prefs == algorithmPreferences
<1>1. ASSUME NEW n \in DOMAIN plan, NEW client \in Supported, NEW server \in Supported
      PROVE  LET got == Agility!NegotiateSignatureAlgorithm(client \cup {plan[n].to},
                                                            server \cup {plan[n].to})
             IN  IF \A j \in DOMAIN prefs : Agility!Deprecated(prefs[j])
                 THEN got = "null" ELSE got = plan[n].to
    <2> DEFINE to == plan[n].to
               common == {a \in (client \cup {to}) \cap (server \cup {to}) : ~Agility!Deprecated(a)}
               kept == {a \in Agility!Algorithm : ~Agility!Deprecated(a)}
    <2>1. Agility!NegotiateSignatureAlgorithm(client \cup {to}, server \cup {to})
              = Agility!FirstOf(common)
        BY DEF Agility!NegotiateSignatureAlgorithm
    <2>2. CASE \A j \in DOMAIN prefs : Agility!Deprecated(prefs[j])
        <3>1. Agility!FirstOf(common) = "null"
            BY <2>2 DEF Agility!FirstOf
        <3> QED
            BY <2>1, <2>2, <3>1
    <2>3. CASE \E j \in DOMAIN prefs : ~Agility!Deprecated(prefs[j])
        <3>1. \A j \in DOMAIN prefs : prefs[j] \in Agility!Algorithm
            BY DEF Agility!AgilityInv, Agility!Algorithm
        <3>2. \E j \in DOMAIN prefs : prefs[j] \in kept
            BY <2>3, <3>1
        <3> HIDE DEF kept
        <3>3. PICK i \in DOMAIN prefs :
                  /\ Agility!FirstOf(kept) = prefs[i] /\ prefs[i] \in kept
                  /\ \A j \in DOMAIN prefs : prefs[j] \in kept => i <= j
            BY <3>2, FirstFound
        <3>4. prefs[i] # "null"
            BY AgilityAssumption DEF Agility!AgilityInv
        <3>5. to = prefs[i]
            BY <3>3, <3>4, PlanSorted DEF Agility!Replacement, kept
        <3>6. prefs[i] \in common
            BY <3>3, <3>5 DEF kept
        <3> HIDE DEF common
        <3>7. PICK k \in DOMAIN prefs :
                  /\ Agility!FirstOf(common) = prefs[k] /\ prefs[k] \in common
                  /\ \A j \in DOMAIN prefs : prefs[j] \in common => k <= j
            BY <3>6, FirstFound
        <3>8. i <= k
            BY <3>1, <3>3, <3>7 DEF common, kept
        <3>9. k <= i
            BY <3>6, <3>7
        <3>10. i \in Nat /\ k \in Nat
            BY AgilityAssumption DEF Agility!AgilityInv
        <3>11. i = k
            BY <3>8, <3>9, <3>10
        <3> QED
            BY <2>1, <2>3, <3>5, <3>7, <3>11
    <2> QED
        BY <2>2, <2>3
<1> QED
    BY <1>1, PlanSorted DEF Agility!PlanCanBeFollowed

-----------------------------------------------------------------------------
(* All of them together, as they are checked. *)

\* The inductive invariant of the whole: that of every part, whichever part runs.
MCInv ==
    /\ StoreInv
    /\ Log!LogInv
    /\ Rotation!OverlapInv
    /\ Hardware!AuditInv
    /\ Agility!AgilityInv

\* Time never goes back, whichever part it passes in.
LEMMA TimePasses ==
    ASSUME now \in Int, Next \/ Rotation!Next \/ Agility!Next \/ UNCHANGED now
    PROVE  now' \in Int /\ now <= now'
<1>1. CASE Next
    <2>1. UNCHANGED now \/ Tick
        BY <1>1, Zenon DEF Next, BuildCertificate, ParseCertificate, IssueBridgeCertificate,
                           Make, AddCertificate, RemoveCertificate
    <2> QED
        BY <2>1 DEF Tick
<1>2. CASE Rotation!Next
    <2>1. CASE \E key \in DOMAIN schedule \cup {Rotation!NewKey}, interval \in Interval, overlap \in Overlap :
                  Rotation!RegisterKey(key, interval, overlap)
        BY <2>1 DEF Rotation!RegisterKey
    <2>2. CASE \E key \in DOMAIN schedule : Rotation!Rotate(key)
        BY <2>2 DEF Rotation!Rotate
    <2>3. CASE Rotation!Tick
        BY <2>3 DEF Rotation!Tick
    <2> QED
        BY <1>2, <2>1, <2>2, <2>3 DEF Rotation!Next
<1>3. CASE Agility!Next
    BY <1>3 DEF Agility!Next, Agility!DeprecateAlgorithm,
                Agility!SetSignaturePreferences, Agility!Tick
<1>4. CASE UNCHANGED now
    BY <1>4
<1> QED
    BY <1>1, <1>2, <1>3, <1>4

\* A part that does not run keeps its invariant, while time passes in another.
LEMMA Beside ==
    ASSUME MCInv, now' \in Int, now <= now'
    PROVE  /\ UNCHANGED certificateVars => StoreInv'
           /\ UNCHANGED treeHashes => Log!LogInv'
           /\ UNCHANGED rotationVars => Rotation!OverlapInv'
           /\ UNCHANGED moduleVars => Hardware!AuditInv'
           /\ UNCHANGED agilityVars => Agility!AgilityInv'
<1>1. ASSUME UNCHANGED certificateVars PROVE StoreInv'
    BY <1>1 DEF MCInv, certificateVars, StoreInv, Serial
<1>2. ASSUME UNCHANGED treeHashes PROVE Log!LogInv'
    BY <1>2 DEF MCInv, Log!LogInv
<1>3. ASSUME UNCHANGED rotationVars PROVE Rotation!OverlapInv'
    BY <1>3 DEF MCInv, rotationVars, Rotation!OverlapInv, Rotation!TypeOK, Rotation!Promised,
                Rotation!Single, Rotation!Kept, Rotation!OverlapEnd, Rotation!Keys, Rotation!Key,
                Rotation!Schedules
<1>4. ASSUME UNCHANGED moduleVars PROVE Hardware!AuditInv'
    BY <1>4, AuditInductive DEF MCInv, moduleVars, Hardware!vars
<1>5. ASSUME UNCHANGED agilityVars PROVE Agility!AgilityInv'
    BY <1>5 DEF MCInv, agilityVars, Agility!AgilityInv
<1> QED
    BY <1>1, <1>2, <1>3, <1>4, <1>5

\* It holds at first.
LEMMA MCInitial == MCInit => MCInv
    BY StoreInductive, LogInductive, OverlapInductive, AuditInductive, AgilityInductive
    DEF MCInit, MCInv

\* Every step of every part keeps it.
LEMMA MCStep ==
    MCInv /\ [MCNext]_<<part, authorityVars, handshakeVars>> => MCInv'
<1> SUFFICES ASSUME MCInv, [MCNext]_<<part, authorityVars, handshakeVars>> PROVE MCInv'
    OBVIOUS
<1>0. /\ StoreInv /\ Log!LogInv /\ Rotation!OverlapInv /\ Hardware!AuditInv
      /\ Agility!AgilityInv /\ now \in Int
    BY DEF MCInv, StoreInv
<1>1. CASE Next /\ UNCHANGED <<treeHashes, rotationVars, moduleVars, agilityVars>>
    <2>1. now' \in Int /\ now <= now'
        BY <1>0, <1>1, TimePasses
    <2>2. StoreInv'
        BY <1>0, <1>1, StoreInductive
    <2> QED
        BY <1>1, <2>1, <2>2, Beside DEF MCInv
<1>2. CASE Log!Next /\ UNCHANGED <<vars, rotationVars, moduleVars, agilityVars>>
    <2>1. UNCHANGED certificateVars /\ UNCHANGED now
        BY <1>2 DEF vars, certificateVars
    <2>2. now' \in Int /\ now <= now'
        BY <1>0, <2>1
    <2>3. Log!LogInv'
        BY <1>0, <1>2, LogInductive
    <2> QED
        BY <1>2, <2>1, <2>2, <2>3, Beside DEF MCInv
<1>3. CASE Rotation!Next /\ UNCHANGED <<certificateVars, treeHashes, moduleVars, agilityVars>>
    <2>1. now' \in Int /\ now <= now'
        BY <1>0, <1>3, TimePasses
    <2>2. Rotation!OverlapInv'
        BY <1>0, <1>3, OverlapInductive
    <2> QED
        BY <1>3, <2>1, <2>2, Beside DEF MCInv
<1>4. CASE Hardware!Next /\ UNCHANGED <<vars, treeHashes, rotationVars, agilityVars>>
    <2>1. UNCHANGED certificateVars /\ UNCHANGED now
        BY <1>4 DEF vars, certificateVars
    <2>2. now' \in Int /\ now <= now'
        BY <1>0, <2>1
    <2>3. Hardware!AuditInv'
        BY <1>0, <1>4, AuditInductive
    <2> QED
        BY <1>4, <2>1, <2>2, <2>3, Beside DEF MCInv
<1>5. CASE Agility!Next /\ UNCHANGED <<certificateVars, treeHashes, rotationVars, moduleVars>>
    <2>1. now' \in Int /\ now <= now'
        BY <1>0, <1>5, TimePasses
    <2>2. Agility!AgilityInv'
        BY <1>0, <1>5, AgilityInductive
    <2> QED
        BY <1>5, <2>1, <2>2, Beside DEF MCInv
<1>6. CASE UNCHANGED authorityVars
    <2>1. UNCHANGED certificateVars /\ UNCHANGED now
        BY <1>6 DEF authorityVars, vars, certificateVars
    <2>2. now' \in Int /\ now <= now'
        BY <1>0, <2>1
    <2> QED
        BY <1>6, <2>1, <2>2, Beside DEF MCInv, authorityVars
<1> QED
    BY <1>1, <1>2, <1>3, <1>4, <1>5, <1>6 DEF MCNext

\* All of it holds at every state.
THEOREM CertificateAuthorityInvariant == MCSpec => []MCInv
<1> QED
    BY MCInitial, MCStep, PTL DEF MCSpec

\* A chain that is built links by the names of issuers, to certificates that the stores
\* hold, and a valid one goes round no circle and is not cut off, whatever names are shared,
\* whatever was bridged and however the stores changed (buildChain(), validate()).
THEOREM ChainsAlwaysEnd == MCSpec => []ChainsLinkAndEnd
<1>1. MCInv => ChainsLinkAndEnd
    BY ChainsSafe DEF MCInv
<1> QED
    BY <1>1, CertificateAuthorityInvariant, PTL

\* A replaced key is in its overlap exactly until the end that rotate() returned.
THEOREM OverlapsAreKept == MCSpec => []OverlapAsPromised
<1>1. MCInv => OverlapAsPromised
    BY OverlapKept DEF MCInv
<1> QED
    BY <1>1, CertificateAuthorityInvariant, PTL

\* The audit log of the hardware module explains which slots hold keys, and that they were
\* generated and destroyed by who was logged in, though signing is counted and not logged.
THEOREM AuditIsSufficient == MCSpec => []AuditExplainsState
<1>1. MCInv => AuditExplainsState
    BY DEF MCInv, Hardware!AuditInv, AuditExplainsState
<1> QED
    BY <1>1, CertificateAuthorityInvariant, PTL

\* Who supports the target of a migration plan besides negotiates it, unless every
\* preference is deprecated; and the plan has what is more urgent first (CryptoAgility).
THEOREM PlansCanBeFollowed == MCSpec => []PlanCanBeFollowed
<1>1. MCInv => PlanCanBeFollowed
    BY PlanFollowed DEF MCInv
<1> QED
    BY <1>1, CertificateAuthorityInvariant, PTL

\* A proof of the log that verifies is of the certificate it was made for, however many
\* certificates there are, though a proof is read at the wrong places when something moved
\* up without a sibling; where nothing did, every proof verifies (getInclusionProof(),
\* verifyInclusionProof()).
THEOREM ProofsAlwaysMatch == MCSpec => []ProofsMatchLog
<1>1. MCInv => ProofsMatchLog
    BY LogSafe DEF MCInv
<1> QED
    BY <1>1, CertificateAuthorityInvariant, PTL

-----------------------------------------------------------------------------
(* TLSHandshake: its invariant and the steps that keep it are in TLSProofs. *)

\* The handshake's invariant holds at first, and the other parts leave it alone.
LEMMA HandshakeInductive ==
    /\ MCInit => TLS!HandshakeInv
    /\ TLS!HandshakeInv /\ [MCNext]_<<part, authorityVars, handshakeVars>> => TLS!HandshakeInv'
<1>1. MCInit => TLS!HandshakeInv
    BY HandshakeAssumption, TLS!HandshakeInductive DEF MCInit
<1>2. UNCHANGED handshakeVars => UNCHANGED TLS!vars
    BY DEF handshakeVars, TLS!vars
<1>3. TLS!HandshakeInv /\ [TLS!Next]_(TLS!vars) => TLS!HandshakeInv'
    BY HandshakeAssumption, TLS!HandshakeInductive
<1>4. ASSUME TLS!HandshakeInv, [MCNext]_<<part, authorityVars, handshakeVars>>
      PROVE  TLS!HandshakeInv'
    <2>1. TLS!Next \/ UNCHANGED handshakeVars
        BY <1>4 DEF MCNext
    <2> QED
        BY <1>2, <1>3, <1>4, <2>1
<1> QED
    BY <1>1, <1>4

\* All of it holds at every state.
THEOREM HandshakeInvariant == MCSpec => []TLS!HandshakeInv
<1> QED
    BY HandshakeInductive, PTL DEF MCSpec

\* Who has finished shares secrets, group, suite and certificate with the other side
\* (PQTLSConnection.processFinished(), processServerHello()).
THEOREM Agreement == MCSpec => []HandshakeAgreement
<1>1. TLS!HandshakeInv => HandshakeAgreement
    BY HandshakeAssumption, TLS!Agreement DEF HandshakeAgreement
<1> QED
    BY <1>1, HandshakeInvariant, PTL

\* Nothing but the pre-shared key can keep a client and a server from finishing whose
\* messages came in order: some Finished that was sent is the one the other side expects.
THEOREM CanFinish == MCSpec => []HandshakeCanFinish
<1>1. TLS!HandshakeInv => HandshakeCanFinish
    BY HandshakeAssumption, TLS!CanFinish DEF HandshakeCanFinish
<1> QED
    BY <1>1, HandshakeInvariant, PTL

\* No key seals two records with one nonce, and a connection opens records in order
\* (AEADCipher, PQTLSConnection.keyUpdate()).
THEOREM RecordsKeepOrder == MCSpec => []RecordsInOrder
<1>1. TLS!HandshakeInv => RecordsInOrder
    BY TLS!RecordsKeepOrder DEF RecordsInOrder, TLS!HandshakeInv
<1> QED
    BY <1>1, HandshakeInvariant, PTL

=============================================================================
