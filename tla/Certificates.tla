---------------------------- MODULE Certificates ----------------------------
(***************************************************************************)
(* The certificates of pq-certificate-authority.ts, the stores they are    *)
(* put in (CertificateStore) and the chains that are built from them and   *)
(* validated (CertificateChain, SignatureVerifier).                        *)
(*                                                                         *)
(* An authority cannot make any: createRootCA(), createIntermediateCA() and *)
(* issueCertificate() throw when they sign, before anything has changed,   *)
(* because the key is given to the library where it wants the message.     *)
(* Certificates come from the builder, which does not sign, from the       *)
(* parser, which takes what another program made, and from                 *)
(* cross-certification, which copies a signature.                          *)
(*                                                                         *)
(* A certificate is a record in `certs'; its place there stands for its    *)
(* serial number, its fingerprint and, unless it is a bridge, its key.     *)
(* Time is counted in days.                                                *)
(***************************************************************************)
EXTENDS Integers, Sequences, FiniteSets

CONSTANTS
    Name,       \* common names
    AsCA,       \* whether a certificate is one of an authority
    PathLength, \* path lengths that are set
    HasKey,     \* whether one that is parsed has a key
    Signed,     \* and whether it is signed
    Start,      \* in how many days a certificate begins to be valid
    Days,       \* and for how many days it then is
    MaxCerts,   \* bound: certificates
    MaxMoves,   \* bound: certificates put in a store or taken out
    MaxTime     \* bound: days

ASSUME CertificateAssumption ==
    /\ AsCA \subseteq BOOLEAN /\ HasKey \subseteq BOOLEAN /\ Signed \subseteq BOOLEAN
    /\ PathLength \subseteq Int /\ Start \subseteq Int /\ Days \subseteq Int

VARIABLES
    now,
    certs,      \* every certificate that was made
    store,      \* the two stores: what they hold, and their index by name
    moves       \* how often a store was changed

vars == <<now, certs, store, moves>>

Store == {"intermediates", "anchors"}
MaxDepth == 10

Serial == DOMAIN certs
NewSerial == Len(certs) + 1
NoKey == 0
NoLimit == -1
PathLengths == PathLength \cup {NoLimit}

Init ==
    /\ now = 0
    /\ certs = << >>
    /\ store = [st \in Store |-> [held |-> {}, index |-> [n \in Name |-> 0]]]
    /\ moves = 0

-----------------------------------------------------------------------------

\* A certificate is made, valid for some days from some day.
Make(subject, issuer, start, days, isCA, pathLength, key, signed) ==
    /\ NewSerial <= MaxCerts
    /\ certs' = Append(certs,
                  [subject |-> subject, issuer |-> issuer, notBefore |-> now + start,
                   notAfter |-> now + start + days, isCA |-> isCA,
                   pathLength |-> pathLength, key |-> key, signed |-> signed])
    /\ UNCHANGED <<now, store, moves>>

\* CertificateBuilder: whatever is set, with a key, and no signature.
BuildCertificate(subject, issuer, start, days, isCA, pathLength) ==
    Make(subject, issuer, start, days, isCA, pathLength, NewSerial, FALSE)

\* fromJSON(), fromDER(): whatever is there; the key may be empty, the signature null.
ParseCertificate(subject, issuer, start, days, isCA, pathLength, hasKey, signed) ==
    Make(subject, issuer, start, days, isCA, pathLength,
         IF hasKey THEN NewSerial ELSE NoKey, signed)

\* issueBridgeCertificate(): names the issuing authority and keeps the signature that the
\* foreign certificate had.  An authority is whatever its constructor is given.
IssueBridgeCertificate(ca, foreign, days, pathLength) ==
    LET f == certs[foreign]
    IN  Make(f.subject, certs[ca].subject, 0, days, TRUE, pathLength, f.key, f.signed)

AddCertificate(st, serial) ==
    /\ moves < MaxMoves
    /\ moves' = moves + 1
    /\ store' = [store EXCEPT ![st] =
                   [held |-> @.held \cup {serial},
                    index |-> [@.index EXCEPT ![certs[serial].subject] = serial]]]
    /\ UNCHANGED <<now, certs>>

\* removeCertificate() takes the name out of the index, whoever it led to.
RemoveCertificate(st, serial) ==
    /\ serial \in store[st].held
    /\ moves < MaxMoves
    /\ moves' = moves + 1
    /\ store' = [store EXCEPT ![st] =
                   [held |-> @.held \ {serial},
                    index |-> [@.index EXCEPT ![certs[serial].subject] = 0]]]
    /\ UNCHANGED <<now, certs>>

Tick ==
    /\ now < MaxTime
    /\ now' = now + 1
    /\ UNCHANGED <<certs, store, moves>>

Next ==
    \/ \E subject, issuer \in Name, start \in Start, days \in Days,
          isCA \in AsCA, pathLength \in PathLengths :
         \/ BuildCertificate(subject, issuer, start, days, isCA, pathLength)
         \/ \E hasKey \in HasKey, signed \in Signed :
              ParseCertificate(subject, issuer, start, days, isCA, pathLength, hasKey, signed)
    \/ \E ca, foreign \in Serial, days \in Days, pathLength \in PathLengths :
         IssueBridgeCertificate(ca, foreign, days, pathLength)
    \/ \E st \in Store, serial \in Serial :
         AddCertificate(st, serial) \/ RemoveCertificate(st, serial)
    \/ Tick

Spec == Init /\ [][Next]_vars

-----------------------------------------------------------------------------
(* Chains. *)

\* findBySubjectCN(); 0 for undefined.
FindBySubjectCN(st, name) ==
    LET s == store[st].index[name] IN IF s \in store[st].held THEN s ELSE 0

\* In the intermediates first.
FindIssuer(name) ==
    IF FindBySubjectCN("intermediates", name) # 0
    THEN FindBySubjectCN("intermediates", name)
    ELSE FindBySubjectCN("anchors", name)

SelfSigned(serial) == certs[serial].subject = certs[serial].issuer

\* A round of buildChain(): who has the name of the issuer comes next.
Followed(chain) ==
    LET last == chain[Len(chain)]
        issuer == FindIssuer(certs[last].issuer)
    IN  IF SelfSigned(last) \/ issuer = 0 THEN chain ELSE Append(chain, issuer)

Grown(leaf) ==
    LET grown[n \in 0 .. MaxDepth] == IF n = 0 THEN <<leaf>> ELSE Followed(grown[n - 1])
    IN  grown

\* Faulty variant: the leaf counts as a round.
BuildShorter(leaf) == Grown(leaf)[MaxDepth - 1]

\* buildChain(): as many rounds as the depth, so that a chain may be one longer.
BuildChain(leaf) == Grown(leaf)[MaxDepth]

TimeValid(serial) == certs[serial].notBefore <= now /\ now <= certs[serial].notAfter

\* verifier.verify(), for a signature and a key that has bytes: the key is given to the
\* library where it wants the signature, and nothing verifies.
Verifies == FALSE

\* isTrusted(): by the fingerprint, or by the hash of the key.
IsTrusted(serial) ==
    \E s \in store["anchors"].held : s = serial \/ certs[s].key = certs[serial].key

\* validate(): the errors it finds.  A self-signed root that nobody trusts is not one of
\* them; a signature is looked at only if there is one, and a key after it.
Valid(chain) ==
    /\ Len(chain) <= MaxDepth
    /\ \A i \in DOMAIN chain :
         LET c == certs[chain[i]]
         IN  /\ TimeValid(chain[i])
             /\ (1 < i /\ i < Len(chain)) => c.isCA
             /\ (c.isCA /\ c.pathLength >= 0) => i - 1 <= c.pathLength
             /\ i < Len(chain) =>
                  LET issuer == certs[chain[i + 1]]
                  IN  /\ c.issuer = issuer.subject
                      /\ (c.signed /\ issuer.key # NoKey) => Verifies
    /\ LET root == chain[Len(chain)] IN IsTrusted(root) \/ SelfSigned(root)

-----------------------------------------------------------------------------

\* A chain leads from a certificate to one that a store holds under the name of its
\* issuer, however often the stores changed and names were used again.  And whatever
\* circles the names make (two authorities that certify each other make one), a valid
\* chain has no certificate twice and comes to an end: it stops at a self-signed
\* certificate, or at a trusted one whose issuer is in neither store, never because the
\* depth was reached.
ChainsLinkAndEnd ==
    \A s \in Serial :
        LET chain == BuildChain(s)
            last == chain[Len(chain)]
        IN  /\ \A i \in 1 .. Len(chain) - 1 :
                 /\ certs[chain[i + 1]].subject = certs[chain[i]].issuer
                 /\ \E st \in Store : chain[i + 1] \in store[st].held
            /\ Valid(chain) =>
                 /\ \A i, j \in DOMAIN chain : chain[i] = chain[j] => i = j
                 /\ \/ SelfSigned(last)
                    \/ FindIssuer(certs[last].issuer) = 0 /\ IsTrusted(last)

\* What a comment in validate() says: the root must be in the trust store.
RootInTrustStore ==
    \A s \in Serial :
        LET chain == BuildChain(s) IN Valid(chain) => IsTrusted(chain[Len(chain)])

\* What findBySubjectCN() says it does: it finds a certificate by its subject's common
\* name, if the store has one of that name.
FindsWhatItHolds ==
    \A st \in Store : \A s \in store[st].held :
        FindBySubjectCN(st, certs[s].subject) # 0

-----------------------------------------------------------------------------

CertificateType ==
    [subject : Name, issuer : Name, notBefore : Int, notAfter : Int, isCA : BOOLEAN,
     pathLength : Int, key : Nat, signed : BOOLEAN]

\* What makes the chains' property inductive: a name leads to a certificate of that name.
StoreInv ==
    /\ now \in Int
    /\ certs \in Seq(CertificateType)
    /\ store \in [Store -> [held : SUBSET Serial, index : [Name -> Nat]]]
    /\ \A st \in Store, n \in Name :
         store[st].index[n] # 0 => /\ store[st].index[n] \in store[st].held
                                   /\ certs[store[st].index[n]].subject = n

=============================================================================
