# post-quantum-mcp: formal models and proofs

This directory holds TLA+ models of post-quantum-mcp, the TLC configurations
that check them on small instances, and proofs that TLAPS checks for every
value of the constants. Paths below start at the repository's parent, so
`src/src/index.ts` is the server's entry point.

## 1. The system

The program is an MCP server (`src/src/index.ts`) that routes tool calls to
handlers, and a set of libraries that the server does not expose but that carry
most of the code's protocol logic. Node runs one event loop: a function without
`await` is atomic, and tool calls interleave only where a handler awaits.

| Component | State it keeps | Operations | What is hard, and what makes it correct |
|---|---|---|---|
| MCP server, `src/src/index.ts` | the shared `NodeCache`, one handler object per family | tool dispatch, HTTP transport with an 8 MiB cap, SIGTERM handler | calls in progress when the process ends; a request is answered once |
| Key management, `utils/keymanagement.ts` | one JSON file per key, the cache entry of each key | `storeKey`, `retrieveKey`, `listKeys`, `deriveKey` | calls interleave at file operations; a key that was acknowledged is on disk, what is handed out was stored |
| Secure channel, `utils/pq-secure-messaging.ts` section 9 | state, two keys, send number, replay window | send, heartbeat, receive, rekey, close, acknowledge | loss, duplication, reordering, rekeys in both directions, teardown; nothing is handed over twice, no nonce is used twice |
| X3KEM, double ratchet and sessions, same file, sections 3-6 | root, chain and header keys, skipped keys, session records, pre-keys | handshake, ratchet steps, encrypt, decrypt, session store | reordered and repeated messages; both sides derive the same keys |
| Groups (ratchet tree), same file, sections 7-8 | tree, epoch, epoch keys, members | create, add, remove, update, encrypt, decrypt | messages that cross an epoch change; a removed member is out |
| Messaging facade, same file, section 13 | the maps of sessions, channels and groups | the calls above by identifier | composition of the parts above |
| Threshold custody, `utils/threshold-custody.ts` | none (the shares are the callers') | split, reconstruct, threshold sign over GF(256) | any t shares reconstruct, whatever subset and order |
| Threshold signatures and DKG, `algorithms/threshold-signatures.ts` | sessions, ceremonies, wallets, beacons, shares, audit trail | sign, aggregate, propose, approve, refresh, DKG rounds | order and repetition of contributions, thresholds, expiry, faulty parties |
| Election, `utils/pq-homomorphic-voting.ts` | phase, voter registry, bulletin board, tally state | register, open, cast, close, tally, verify, audit | one vote per voter, votes only while open, the tally equals the ballots |
| Multi-party computation, `utils/pq-secure-mpc.ts` | session phases, channels, broadcast state, shares | share, compute rounds, lattice channel, broadcast | rounds, missing parties, sequence numbers |
| Certificate authority, `utils/pq-certificate-authority.ts` | certificates and stores, revocation list, transparency log, key schedules, tickets, HSM slots and audit log | build, parse, bridge, store, validate a chain, revoke, log, rotate, resume | signing throws after a record was changed; names that are used again or go in a circle; overlaps at their boundary |
| TLS handshake, `algorithms/pq-tls-handshake.ts` | connection state, key schedule, transcript, record sequence numbers | the handshake messages of both sides, records, key update | messages out of order; both sides end with the same keys |
| Delay functions and beacons, `algorithms/verifiable-delay-functions.ts` | beacon rounds, contributions, elections, checkpoints | contribute, close, evaluate, elect leader | late contributions; a round's output is fixed once |
| Entropy, `utils/entropy/*`, `utils/quantum-random.ts`, `utils/entropy-tools.ts` | the service's sources, the offsets of device buffers, the DRBG's key and value, the pool and its offset | generate, register, ingest, reseed, take, sample | counters and divisions at their boundary, buffers and pools at their end; no byte twice, nothing biased, nothing from a refused device |
| KEM, signature and hybrid handlers, `algorithms/{kyber,dilithium,sphincs,falcon}.ts`, `utils/{hybrid,hybrid-pqc}.ts` | an optional cached key pair | keygen, encapsulate, sign, verify, encrypt | calls into `@noble/post-quantum`; no protocol of their own |
| Applications, `utils/{agent-identity,code-signing,pq-jwt,pq-encrypt,pq-certificate}.ts` | none | sign and verify over canonical JSON | what is verified is what was signed |
| Lattice proofs and IBE, `algorithms/{lattice-zkp,lattice-zk-proofs,identity-based-encryption}.ts`, `utils/lattice/ntt.ts` | none | polynomial arithmetic, prove, verify | numerical; algorithms over large rings |
| Advisors, `utils/{crypto-agility,security-analyzer,benchmark}.ts` | a cached analysis | assess, analyze, benchmark | reports; no behaviour to get wrong over time |

Interactions. The server calls a handler per tool call; key management shares
the server's cache. The messaging facade builds a session from X3KEM and the
double ratchet, and a channel from a ratchet's root key. The threshold system
composes DKG, signing sessions and the audit trail; the certificate handshake
composes key exchange and tickets; the election composes registry, authority shares, ballot proofs and the tally.

## 2. What is here, and the plan

| Module | Models | Checked by | Proved in |
|---|---|---|---|
| `SecureChannel` | both ends of the transport channel, and how two applications end a conversation | `messaging` | `MessagingProofs` |
| `AtMostOnceChannel` | what the channel promises (abstract) | `messaging` | `MessagingProofs` |
| `OutOfOrderBuffer` | the reordering buffer | `messaging` | `MessagingProofs` |
| `Session` | X3KEM, double ratchet, session builder | `messaging`, `session_erased` | itself |
| `Groups` | the ratchet tree's state per member, and the facade's group calls | `messaging` | `MessagingProofs` |
| `AuditTrail` | the hash-chained audit log | `messaging` | `MessagingProofs` |
| `KeyStore` | key management behind the MCP tools | `entropy_safety`, `keystore_stale` | itself, `MCEntropy` |
| `Election` | the election manager | `sharing_safety`, `election_tally` | itself, `SharingProofs` |
| `SecretSharing` | Shamir, DKG, refresh, recovery | `sharing_safety` | |
| `Custody` | key custody by shares over GF(2^8) | `sharing_safety` | |
| `AccessStructures` | span programs, thresholds, weights | `sharing_safety` | |
| `ThresholdSystem` | ceremonies and signing sessions, standard and FROST | `sharing_safety` | `SharingProofs` |
| `ThresholdWallet` | wallet, beacon and refresh over one array of shares | `sharing_safety` | `SharingProofs` |
| `BeaconChain` | the chained random beacon | `sharing_safety` | `SharingProofs` |
| `GarbledCircuit` | the garbled circuits of the threshold file | `sharing_safety` | `SharingProofs` |
| `SharingSchemes` | Shamir, additive, replicated, packed, Feldman of the MPC file | `sharing_safety` | |
| `ArithmeticCircuits` | builder, optimizer, evaluation in the clear and on shares | `sharing_safety` | |
| `BooleanCircuits` | builder, garbling with free XOR, GMW | `sharing_safety` | |
| `AuthenticatedShares` | SPDZ: shares with codes, triples, openings | `sharing_safety` | `SharingProofs` |
| `EchoBroadcast` | broadcast and echoes over lattice channels | `sharing_safety` | `SharingProofs` |
| `MPCSession` | the phases of a session | `sharing_safety` | `SharingProofs` |
| `PrivateApplications` | comparison, auction, aggregation, intersection, bits | `sharing_safety` | |
| `TLSHandshake` | the TLS-like handshake and its records | `certificates`, `tls_data` | `TLSProofs`, `MCCertificates` |
| `PQHandshake` | the certificate authority's handshake objects and tickets | `handshake_secret` | |
| `EntropyService` | sources, device captures, which source serves a draw | `entropy_safety` | `MCEntropy` |
| `HealthTests` | the two continuous tests of SP 800-90B | `entropy_safety` | `MCEntropy` |
| `HmacDrbg` | the DRBG that a capture seeds | `entropy_safety` | `MCEntropy` |
| `SamplingPool` | the pool of random bytes and the unbiased samplers | `entropy_safety` | `MCEntropy` |
| `DelayFunctions` | the four delay functions with proofs, chains, timelock | `entropy_safety`, `delay_walks` | `MCEntropy` |
| `DelayBeacon` | the beacon of delay functions and leader elections | `entropy_safety` | `MCEntropy` |
| `Certificates` | certificates, bridges, stores, chains and their validation | `certificates`, `certificates_trust`, `certificates_store` | `MCCertificates` |
| `TransparencyLog` | the Merkle tree of submitted certificates and its proofs | `certificates` | `MCCertificates` |
| `KeyRotation` | rotation schedules and overlaps | `certificates` | `MCCertificates` |
| `HardwareModule` | the simulated HSM and its log | `certificates` | `MCCertificates` |
| `CryptoAgility` | negotiation and deprecation | `certificates` | `MCCertificates` |

Left, in the order of their weight:

1. Proofs for the circuits of `BooleanCircuits` and `ArithmeticCircuits`.
2. `ThresholdSystem` as an implementation of an abstract one-shot signing session.
3. The hybrid and composite signature formats of the certificate file, the
   mixnet and the verifiable random function of the voting file, inference on
   models and oblivious transfer of the MPC file.

## 3. How the modules correspond to the code

Everywhere: a call that throws before it changes anything is a stuttering step;
a call that throws after a change is an action of its own or a case of one.
Fresh randomness is a new value. Operators whose comment begins with "Faulty
variant" are the definition after them with one plausible mistake put in; no
specification uses them. They show that the properties can fail: with the
variant in place of the definition TLC finds the property violated. A property
that speaks about several components has a variant in each.

**SecureChannel** (section 9 of `pq-secure-messaging.ts`). One object per peer:
`state`, `sendKey`, `recvKey`, `sendSeqNum`, and the window as `window` and
`windowBase`. A key is the sequence of fresh materials it was derived from, the
erased buffer the empty sequence, so a frame opens exactly for a holder of its
key. `net` keeps every frame, and any frame may arrive at any time, again and
again, or never: loss, duplication and reordering in one. `receive` is one
action per frame type with the guards in the code's order folded into
`CanOpen`; `performClose` empties the window in the same step that filled it.
`rekey` and `close` ask for no state, as in the code.

**AtMostOnceChannel** is what an application relies on: numbered payloads that
are taken at most once, and a sender that falls silent when it begins to close.
`SecureChannel` defines the refinement mapping (`Abstract`).

`TeardownNext` is a part of `Next` and says who calls what when a conversation
ends: `Closer` closes, the other answers when it finds its channel CLOSING, over a
transport that delivers in order.

**KeyStore** (`keymanagement.ts`, and the cache and SIGTERM handler of
`index.ts`). Each tool call is a process; `call` holds where it stands and its
local variables, and an action runs from one await to the next. `writeFile` is
two steps, because it truncates before it writes. Of a file's content the model
keeps what interleaved writers can do to it: the shorter text over the longer
one leaves a tail, which does not parse. `Restart` keeps the disk and drops
everything else. `acked`, `raced`, `written`, `stores` and `restarts` are
history or bounds; no action of the code reads them, `stores` and `restarts`
apart.

**Session** (sections 3 to 6). A root key is the sequence of secrets mixed into
it, a chain key its root and a position. `Decrypt` is the whole of `decrypt`:
header, skipped keys, ratchet step, chain, and the ratchet it leaves behind
when the payload is refused. Each end has one active session, since the
identifier depends on the two identities only. There is one signed pre-key and
one one-time pre-key per session. `KeepsRootKey` chooses the path:
the double ratchet's public static calls with a root key that the caller keeps
(TRUE), or through `SessionBuilder`, which erases the buffer it has just handed
over (FALSE). In the repository only `SessionBuilder` calls them, and no test
does; TRUE shows what the ratchet does when it is called as it asks to be.
`ratchetStep` and `destroy` have no caller and are left out.

**OutOfOrderBuffer**. `Insert` stores and then hands on up to the first gap; a
full buffer throws and stutters.

**Election** (`pq-homomorphic-voting.ts`). One `ElectionManager` with registry,
ballots, delegations, audit and results. A nullifier is the secret it is hashed
from; a ciphertext is the integer it encrypts; decryption is off by a member of
`Noise`, either way, and rounds as `combineShares` does, in its message space. The Merkle
root is the set of its leaves. Proofs of ranked and approval ballots do not
verify, as in the code.

**SecretSharing** (`threshold-signatures.ts`). The shares are in the array that
the application passes on, with their indices; refresh goes by place in that
array and recovery by index, as in the code. Field and group share one modulus
(`DEFAULT_FIELD_PRIME`), which makes honest shares fail `verifyShare` when their
sum wraps: complaints come from there and nowhere else. `spoilt` marks that a
refresh was given an array with a gap or that a recovery had more than `T`
helpers; the code notices neither.

**TLSHandshake** (`pq-tls-handshake.ts`). Connections of both roles; hashes are
injective, so a secret is the record of what it came from and a transcript the
sequence of its messages. The application carries messages between connections
as `performHandshake` does, and may delay, repeat or misdirect them. The
signatures of this file verify whatever they sign. `ServerProcessFinished`
includes the `addToTranscript` that `performHandshake` does before it. One
counter numbers both directions of a cipher.

**Custody** (`threshold-custody.ts`). Every byte of a key is shared by itself, so
a key is one byte; a byte is the set of its bits' places, addition the symmetric
difference, multiplication the eight turns of the loop with the reduction by
0x1b, the inverse the unrolled power. The list of shares is whatever the caller
passes: too long, with repetitions, of two keys. `ThresholdSign` asks for no
commitment, as in the code.

**EntropyService** (`sources.ts`, `ingest.ts`, `extractor.ts`). A capture is its
length, what the tests find in it and its measured min-entropy in quarters of a
bit; `NeedBytes` and `SatisfiesLHL` are the code's arithmetic on them. `Chosen`
is the order that `register` and `availableSources` give. A buffer that cannot
serve twice the draw throws and stays where it is.

**HealthTests** (`health.ts`): the counters of both loops. The cutoffs are
constants, since the code computes them from the assessed min-entropy alone.

**HmacDrbg** (`ingest.ts`): a key is the sequence of updates that led to it.

**SamplingPool** (`sampling.ts`): the pool and the rejection loops, one turn a
step. Bytes have few bits, so that a limit needs several of them. `Unbiased`
counts over all values a draw can take.

**Groups** (sections 7 and 8, and the facade's group calls). Every member has a
state: epoch, leaf, which nodes are blank, and the epoch secret as the list of
what was mixed into it. Path updates and welcomes stay in the network and arrive
in any order, repeatedly or never. `RemoveMember` mixes in random bytes that it
sends to nobody, as the code does; `DirectPath` follows the
code's array: the parent of a node is found by a division that is repeated up to the
root, here in one step. Node secrets are computed and never read, so they are left out.

**AuditTrail** (`AuditLog`). `getEntries` hands the list out, so the environment
may change it; `verify` compares every entry and nothing with the last hash.

**AccessStructures, ThresholdSystem, ThresholdWallet, BeaconChain,
GarbledCircuit** (`threshold-signatures.ts`). A key is a number and the version
of its shares; a response is the record of nonce, challenge, weights and share,
so that "adds up" means that they fit. Key generation and initialization await
before they assign; they are two actions, and several may overlap. Wallet and
beacon hold the very array that a refresh writes into. `ContributePartial` takes
a party twice, as the code does. `AccessStructures` does the elimination of the
code over a field of five elements.

**SharingSchemes, ArithmeticCircuits, BooleanCircuits, AuthenticatedShares,
EchoBroadcast, MPCSession, PrivateApplications** (`pq-secure-mpc.ts`). The
builders' calls are actions, so TLC checks every small circuit; the optimizer,
the garbler, GMW, the triples and the interpolations are operators over it.
One party of `AuthenticatedShares` may lie at each opening, and the application
may check it or not. `EchoBroadcast` lets the broadcaster send different
payloads. `PrivateApplications` compares each protocol's modular computation
with the plain one.

**Certificates, TransparencyLog, KeyRotation, HardwareModule, CryptoAgility,
PQHandshake** (`pq-certificate-authority.ts`). The locked `@noble/post-quantum`
has `sign(message, secretKey)` and `verify(signature, message, publicKey)`. This
file passes the key first, everywhere, so `sign` throws (what it is given as a
secret key has not the length of one) and `verify` never accepts. The models say
what that leaves of each operation:

- creating a root or an intermediate, issuing, requests and OCSP answers throw
  before anything has changed, so they are no actions, and no certificate in
  `Certificates` is an authority's work. Certificates are built without a
  signature, parsed from what another program made, or bridged
  (`issueBridgeCertificate` copies the foreign signature);
- `Verifies` is false. A chain may still be valid: `validate` looks at a
  signature only if there is one and the issuer has a key;
- `TransparencyLog`: the leaf of a submitted certificate stays, and there is never a
  signed head. A revocation list stays unsigned in the same way; it is not modelled,
  since nothing reads it;
- `HardwareModule`: `Sign` counts a use that is never logged;
- `PQHandshake`: `CreateServerHello` assigns suite, certificate and secret and
  throws; the client refuses every signature. `createFinished` needs a state that
  is never reached. Tickets are issued all the same, and resuming works. Objects
  take any step of either side, and again after a failure.

A certificate is a record whose place stands for serial number, fingerprint and
key; 0 is the empty key. A store is what it holds and its index by name, which
holds one entry per name, as in the code. `buildChain` is a fold of its loop. A
hash of `TransparencyLog` is the structure it was computed from. `KeyRotation` keeps
the schedules of a `Map` in the order in which they were set.

**DelayFunctions, DelayBeacon** (`verifiable-delay-functions.ts`). Squarings,
quotients, proofs and walks are computed as in the code with small primes and a
small mixing function for SHA-256; the search of `hashToPrime()` is the choice
of one of a few primes by the hash; a lattice vector has one component. Which
checkpoints are compared is random in the code; here all are. The output of a
beacon's round is what went into its challenge.

## 4. Runs and bounds

| Run | Question | Bounds, and why they are enough |
|---|---|---|
| `messaging` | Can the network, rekeying and repeated teardown make a channel hand over twice, reuse a nonce, lose a number early, or leave the abstract channel? Does a teardown end, and does data sealed before it arrive? Does the buffer give the stream in order and to the end? Do sessions agree, and is each message opened once with keys of its own, whatever is repeated or late? Do members of a group agree on epochs, and is a removed one out? Is tampering with the log found? | channel and teardown: window of 2, 3 frames per peer, so a number can slide out, stay inside and be refused, with a rekey before, between and after; buffer: 7 messages for 3 places, one reset; session: MAX_SKIP 2, two sessions, three answers (so an initial message repeats), two messages per end; group: three members, three epochs, two path updates; log: three entries |
| `session_erased` | Does a session that `SessionBuilder` answered work? | one session, one message: already the first one fails |
| `keystore_stale` | Is a cached answer the last stored key? | one key, two calls |
| `election_tally` | Is the tally the sum of the votes? | one voter, two secrets, no noise |
| `sharing_safety` | Does every quorum find the secret, whatever happened to the shares, in every scheme? Do signing sessions, wallet and beacon use fitting shares and fresh nonces? Do circuits compute right, is cheating found, do private and plain applications agree? Is every accepted ballot in the audit, does a final result count them all, does a single-choice election verify? | field of 5, four parties, threshold 2: sums wrap, dealers are disqualified, every pair is a quorum; two refreshes, one recovery. Custody: the field of the code, every list of up to three of six shares. System: three parties, threshold 2, two ceremonies, two overlapping executions, three nonces. Circuits of two inputs and up to four wires; SPDZ with two parties and three wires; two receivers and two sends; three inputs of an application around half of the prime 11. Election: two voters, two secrets (so a secret may be tried by either and again), two questions, two candidates; votes and ranks one beyond the last candidate; one delegation |
| `entropy_safety` | Which source serves a draw, and what may become a source? Do the continuous tests find what they should? Is a byte ever handed out twice, or a result favoured? Do honest proofs of squaring verify? Is a winner chosen after its candidates are committed? What can interleaved calls, expiry and a restart do to stored keys? | captures with just enough bytes and one too few, two registrations, draws of 1, 32 and 40 bytes; every sequence of ten binary samples for windows of three; four calls of the DRBG; a pool of five bytes of two bits, limits up to 9, arrays of four; every element of the group of 7 * 11 as a challenge, 0 to 9 steps (odd, even, powers of two), three schedules of chains; two elections, two rounds, two additions to the beacon; key store: two keys, two calls at a time, two stores, one restart, a short and a long content: two writers of one file, a reader and a writer, a lister and a writer |
| `delay_walks` | Do honest proofs of walks verify? | walks of 0 to 70 steps: intervals of one step and of two |
| `tls_data` | Do the application keys agree? | as `certificates` |
| `handshake_secret` | Is the shared secret that of the established session? | two objects, two suites, two key exchanges, one ticket |
| `certificates` | Do chains link and end, do inclusion proofs match, does an overlap last as promised, does the log explain the module's keys, can a migration plan be followed? Do finished TLS handshakes agree, can they finish, are records' nonces unique and their order kept? | three names and two certificates, in every relation of subject and issuer, so a name may be used twice and names may go in a circle; with and without key, signature and path length; three moves into stores and out of them; a log of eight entries, so levels are odd and even; three keys and both overlaps shorter and longer than the interval; two slots for three keys; two orders of preference and three sets of supported algorithms; handshake: two clients and two servers with every relation (common group and key, group only, none), three of the four in one behaviour; five messages in a transcript, one more than `performHandshake` needs before the Finished; a server that authenticates twice (then without records, which a second Finished does not touch); two records, one key update |
| `certificates_trust` | Is the root of a valid chain trusted? | two certificates: one is enough |
| `certificates_store` | Does a store find what it holds? | two certificates of one name, three moves |

Deadlock is not checked anywhere (`CHECK_DEADLOCK FALSE`): all of these systems
may stop, because every bound is reached or because a channel, an election or a
connection is closed for good. `certificates` and `tls_data` permute names, which no
definition tells apart and no liveness property is about, and have the state constraint
`MCBounds` of the handshake, named in `MCCertificates`. The passing runs have between
three and five hundred thousand distinct states each.

`MCMessaging`, `MCSharing`, `MCEntropy` and `MCCertificates` hold components that do
not interact (one run for many components, each with the question in the table). `part` says which one a behaviour is of, so the
states add up and do not multiply; what each property says is unchanged, since the
variables of the other parts stay at their first values. In `MCSharing` the modules
besides `SecretSharing` share eleven variables (`slot1` to `slot11`), because no two
of them are ever in use at once. A property of such a module is the conjunction
of what the parts' modules state under the same or a similar name.

**Fairness.** The teardown of `SecureChannel`: weak fairness of `Arrive` and `AnswerClose`,
for a transport that delivers and an application that looks at its channel;
nobody has to talk or to close. `OutOfOrderBuffer`: strong fairness of
`Insert(s)`, for a sender that repeats each message until it gets through.
`MCMessaging` states both for the parts they belong to, `MCEntropy` that of its part
`KeyStore`: weak fairness
of `CallStep`, because the event loop resumes every call whose file operation
ended, and of `Expire`, because node-cache has a TTL of ten minutes. The other
modules assume none.

## 5. What is proved

The proofs hold for every value of the constants that the modules' `ASSUME`s
allow. What `KeyStore`, `Election` and `TLSHandshake` ask of their constants is a
definition, `Assumed`, and the premise of their lemmas, because modules that check
them instantiate them; these state `Assumed` of their instance as an `ASSUME`
(`KeyAssumption`, `VotingAssumption`, `HandshakeAssumption`), which TLC evaluates.

- `MessagingProofs`, of `SecureChannel`, from two distinct peers and a window of at least 1:
  `TypeCorrect`; `NoncesUnique`; `TakenOnce`; `WindowStaysBounded`;
  `NoNumberRefusedEarly`; `KeysAgree`; `Refinement`. `SealedFrames` (sequence
  numbers grow, data is never sealed under an erased key) is inductive on its own
  and gives the nonces. `TakenOnce` needs more: performClose empties the window,
  so what keeps a repeated frame out is either the window or the erased key;
  `DeliveryInv` says that an end that can still open data refuses every number it
  took (`RefusesWhatItTook`). `KeyInv` adds that a rekey frame announces the key
  its sender went on to (`RekeysAnnounced`). `Refinement` maps each step to a
  step or a stutter of `AtMostOnceChannel`. `ChannelsAreSafe` carries this over to
  what run `messaging` checks, the orderly teardown included.
- `MessagingProofs`, of `Groups`: `EpochsDoAgree`, which is `GroupEpochsAgree`, for
  any set of members and no bound on epochs, updates or welcomes. `GroupInv` has
  three parts. A member's secret has one entry more than its epoch, so equal secrets
  mean equal epochs. A remover's secret ends with random bytes numbered by the path
  that was renewed with them, and nobody who did not take that very step has them
  (`NeverSince`); so whoever has a remover's secret as the beginning of its own came
  to it through a welcome, whose secret ends with its own addition (`AddedSince`).
  And while nobody was removed, a tree of k nodes has no node above k/2 - 1 that is
  not blank (`Spread`), whence a blank leaf is left as soon as there are two members
  and no two get one leaf (`Tidy`, `Places`). `Spread` is what fails once a path was
  blanked: section 6.
- `MessagingProofs`, of `OutOfOrderBuffer`: `StreamsInSequence`; `InSequence` is
  inductive with its types.
- `KeyStore`: `TypeCorrect` and `ListsEverything`; and, as parts of what
  `entropy_safety` checks, in `MCEntropy` `HandsOutWhatWasStored`
  (`HandedOutWasOnDisk`) and `AcknowledgedIsDurable` (`DurableOnceAcknowledged`). The
  invariant says that a store that has its key to itself finds the file as it left it (`Solitary`), that an acknowledged
  key's file exists for good (`Present`), that what is whole was written
  (`Whole`), and that a listing has found or will find what it owes (`Listed`).
- `Election`: `NoDoubleVote`; `TurnoutExact`; and, as parts of what `sharing_safety`
  checks, in `SharingProofs` `EveryVoteVerifiable` (`EveryBallotIncluded`),
  `ResultsComplete` (`ResultsCountAllBallots`) and `SingleChoiceElectionsVerify`
  (`SingleChoiceVerifies`). The invariant ties the audit's
  leaves to the ballots and both to the registry's nullifiers (`Leaves`), the
  turnout to their number (`Counted`), and fixes all three once voting has closed
  (`Closed`).

- `Session`: `KeysAreUnique`. A sending chain is known by the secret its root key
  was derived from last; secrets are fresh (`Drawn`), so the two ends never send on
  one chain, and each chain is past every key it gave away (`KeyInv`). Nothing is
  assumed about the network, nor whether the responder's root key is erased.
- `Session`: `HandshakesAgree`, `OpensOnce`, `ErasedKeysAreGone`, and with them the
  three properties of `messaging` (`SessionsDoAgree`, `EachMessageIsOpenedOnce`,
  `OpenedStaysShut` in `MessagingProofs`). They assume two distinct ends, `null`
  apart from keys and numbers, and `KeepsRootKey`: with the root key erased, as
  `session_erased` shows the code to do, nothing is opened and there is nothing to
  say. The invariant (`HandshakeInv`) follows what the code allows, which is less than
  a double ratchet promises: the initiator never steps its ratchet and opens nothing,
  and each answer of the responder opens one message at most, since its header key
  is that of one step (`Stepped`); behind it the responder is `Past` the message's
  key, in its chain as in its skipped keys.
- `TLSProofs`, of `TLSHandshake`, for disjoint clients and servers of any number and
  with any preferences: `HandshakesSafe`. `MCCertificates` takes the invariant from
  there for the four connections of its run: `Agreement` (`HandshakeAgreement`),
  `CanFinish` (`HandshakeCanFinish`), and `RecordsKeepOrder` (`RecordsInOrder`).
  `KeyInv` says who writes with a key and that
  its counter is past every record sealed with it, though reading advances the
  counter as well. `HandshakeInv` ties every secret to the transcript it was derived
  with and to the ServerHello at its end (`HelloOK`), every Finished to the
  transcript it is about (`FinishedOK`), and every connection with data keys to the
  transcript that it concluded with. The proof showed that `HandshakeAgreement` as
  first stated, that both transcripts are the same, held only because a server was
  called once: `serverGenerateAuth` appends to the transcript of a connection
  whenever it is called, and a Finished sent before still concludes. It now speaks
  about the transcript that was concluded with, and the run calls it twice.
- `MessagingProofs`, of `AuditTrail`: `ChangesFound`, which is `TamperingFound`
  (`TamperingIsFound`), for a log of any length. Whoever changes the list
  can only copy hashes that were recorded, and each tells all data up to it
  (`ChainInv`); so an entry that verifies is the one recorded at its place. That
  `verify()` finds a first wrong entry rests on the well-foundedness of the
  natural numbers (`LeastNumber`).
- `MCCertificates`, of the system that `certificates` checks, with the modules'
  assumptions on their constants; `CertificateAuthorityInvariant` puts the parts'
  invariants together, since a behaviour is of one part and leaves the others alone
  (`Beside`); the handshake has an invariant of its own (`HandshakeInvariant`).
  `ChainsAlwaysEnd` (`ChainsLinkAndEnd`), for any names, certificates, bridges and
  stores: a name in an index leads to a certificate of that name that the store
  holds (`StoreInv`), so every link of a chain is an issuer by name (`ChainBuilt`).
  A chain that has a certificate twice repeats itself from there on and never comes
  to an end, hence is as long as the depth lets it be, one more than `validate`
  accepts (`ChainsSafe`). The chain is a recursive function. What it computes is
  proved by the smallest number for which a claim would fail (`LeastNumber`), not
  with the library's induction.
  `OverlapsAreKept` (`OverlapAsPromised`), for integer periods: all schedules that
  replaced a key agree on the end of its overlap, and one of them is there for good:
  its key was replaced under another name, or a second schedule is like it (`Kept`).
  `AuditIsSufficient` (`AuditExplainsState`): slots are numbered upwards, and an open
  session was opened by the last entry of the log that tells of one.
  `ProofsAlwaysMatch` (`ProofsMatchLog`), for a log of any length: the hash of a place on
  the way up is that below it, alone or with its sibling's on one of two sides
  (`OnTheWay`). The verifier may take a hash on the wrong side, since it goes by the number
  of hashes and not of levels; but a hash of two tells both, so on either side the root
  comes from one hash of the level below only, and in the end from one leaf
  (`ProofsRight`). Levels, places, proofs and their verification are recursive functions;
  lemma `UpTo` puts the least number once and for all into the form of an induction over
  a set.
  `PlansCanBeFollowed` (`PlanCanBeFollowed`), for any preferences, supported sets and
  deadlines: the place of an entry in a migration plan is the number of entries that come
  before it; no two entries have one place, and a one-to-one function of a finite set
  into itself takes every value, so every place has an entry (`PlanSorted`). What is
  negotiated is found as the first of the preferences that is in the set (`FirstFound`).
- `MCEntropy`, of the system that `entropy_safety` checks, put together in the same
  way from the invariants of its parts (`EntropyInvariant`; the key store's is by itself).
  `FullEntropyAlwaysProven` (`FullEntropyProven`): `ServiceInv` says that every
  device and seed is of an accepted capture and that a draw reads twice its length
  from the source that answered. A seed is proved by the rounding of `NeedBytes`; a
  draw by arithmetic, from 32 bytes and five bits of min-entropy per byte on. Five
  is the floor of an ingest that names none (`EntropyAssumption`); the code lets a
  caller name a lower one, and of that the theorem says nothing.
  `BytesNeverRepeat` (`BytesUsedOnce`): a device is read from behind everything
  that was drawn from it; every key of the DRBG is longer than those before it,
  hence new; and what was taken of the fill that the pool holds lies before its
  offset (`PoolInv`). Six bytes must be enough for every limit (`PoolAssumption`).
  `StuckSourcesAlwaysFound` (`StuckSourcesFound`), for samples of any length: the
  count of the loop is the length of the run that ends there (`RunsAreRuns`), and
  of 2 W - 1 equal samples some W fill a window (`NextMultiple`).
  `NothingDrawnIsBiased` (`Unbiased`), for every limit that the bytes can reach and
  every size of array. Below a multiple c * m each remainder of m occurs c times
  (`RemaindersCounted`): of integers the good values are such a multiple, and the values
  of a big integer's bytes are one of the values of its mask, since powers of two
  multiply (`PowersMultiply`) and the smallest that exceeds a limit is at most twice it
  (`BitsEnough`). Of a shuffle, the place that an exchange settles tells its draw
  (`ShufflesDiffer`), and the number that belongs there is still before it
  (`ShufflesReach`).
  `HonestSquaringsAlwaysVerify` (`HonestSquaringsVerify`), for any two different primes, any
  challenge and any number of steps; `DelayInv` says that what was evaluated, or stands
  in a chain, was computed by the function named. The recursive functions of the model
  are shown to have a value (`RecursionExists`) and to compute powers (`ModPowIs`,
  `SquaredIs`). Wesolowski's proof verifies since the quotient of the long division is
  that of the power of two (`LongDivision`); Pietrzak's since each element is the middle
  of the claim before it, all the way down the left halves, which are all that the
  verifier decides by (`PietrzakVerifies`). The trapdoor needs Fermat's theorem: the
  multiples of a number are all the numbers below the prime in another order, whose
  product is the same because an order is made of exchanges (`OrdersMultiply`, by
  `ShufflesReach`); exponents of numbers with a factor in common with the modulus must
  also not be reduced to 0 (`ExponentReduced`). That is why the order of the group is
  assumed to have an odd factor (`OrderAssumption`), so that no power of two is a
  multiple of it, and why the primes are assumed to differ (`DelayAssumption`): the code
  draws both at random and checks neither, and a counterexample takes equal primes or
  two that are each a power of two plus one. What the hash finds need not be prime.
  `WinnersAlwaysBound` (`WinnersBoundToCandidates`), for any number of elections and
  candidates and whatever the application adds: the next challenge builds on
  all that was ever mixed, in the order it was added, and the commitment of an
  election whose registration is closed is among what was added (`BeaconInv`).
- `SharingProofs`, of the system that `sharing_safety` checks, from the invariants of eight
  of its parts (`SharingInvariant`). Assumed are a threshold of at least 1, a prime
  `Modulus` (said as: no number between divides it), random numbers and lies in its
  field, at least one party.
  `SigningIsSound` (`SigningSound`), with three parts. Of the system, `SigningInv`: a
  nonce stands in the commitments of one session, a response with it fits them, and
  the commitments of a session that has responses do not change (`NonceCommitted`); so
  one nonce answers one challenge, though contributions come in any order and
  twice, sessions are opened over each other and keys replaced in between. Of the
  wallet, `WalletInv`: a transaction is signed exactly when it has as many signatures
  as the threshold asks for, all by shares of the system (`BySystem`). Of the beacon,
  `ChainInv`: whatever was contributed is about the message of its round, and rounds
  have different random values, so a round's message tells the round before.
  `CheatingIsFound` (`CheatingFound`), with three parts. Of SPDZ, `AuthenticationInv`:
  the codes of a shared value add up to the key times what its shares add up to,
  always, whoever lied, since a lie in an opening moves both; and while every lie was
  noticed, the shares add up to the right value. A wrong output then verifies only
  if the lie about the code is the key times the lie about the value, which is to
  guess the key (`OutputStep`; `NoZeroDivisors`: the least factor that
  takes a number to zero divides the prime). Sums over parties are a recursive
  function; that they are linear is proved for any number of parties by the least
  number for which it fails (`TotalLinear`). That a Beaver triple opened with lies
  still gives a coded value is `BeaverProduct`.
  Of the broadcast, `EchoInv`: an echo is of something its receiver has, and without
  two payloads for one number every receiver's list is in the order of the numbers. Of
  the session, `SessionInv`: no way leads back from the phases that `complete` and
  `abort` set.
  `GarblingIsRight` (`GarblingRight`), for circuits of any size: `GarblingInv` says that
  the wires of a gate are older than its own, and that in the row where two labels of
  them look the table has the label of the result, encrypted with just these
  (`TableRight`, from what the last bits of labels tell apart, `PermuteBits`). Evaluation
  is a recursive function; that the labels after each gate are those of the bits in the
  clear is proved by the first gate for which it would fail (`GarblingSafe`).

TLC checked the inductive invariants of `SecureChannel`, `Groups`, `KeyStore`,
`Election`, the handshake of `Session` and all parts of `MCEntropy` and
`SharingProofs` before they were proved; of the others it checked what they imply. Only
model-checked are: the liveness properties (`TeardownDelivers`, the completeness half of
`BufferDelivers`, `CacheConverges`), because TLAPS does not prove liveness under
fairness; what is reconstructed from shares, refreshed or not (`SecretsFound`,
`RefreshesVerify`), because interpolation and elimination are recursive computations
with inverses over a field that TLC enumerates; and what the circuits of the MPC file
and the applications on shares give (`ComputationsRight`), where the layers of a circuit
are put in order by an operator that enumerates sequences and the applications enumerate
a field. Nothing is proved about the modules without an entry under "Proved in" in the
table of section 2. A behaviour of `MCMessaging` is one of several
parts; lemma `Parts` of the proofs says that each part takes steps of its own only, so
what is proved of a part holds of what is checked.

## 6. Where the code and its promises part

Shown by a run:

- `session_erased`: `respondToSession` (line 1204) erases the root key buffer
  that the ratchet it returns still refers to; the responder then derives from
  zeros and opens nothing.
- `keystore_stale`: `retrieveKey` (line 103) writes into the cache what it read
  before an await, over a newer entry; the replaced key is handed out for up to
  ten minutes. `CacheConverges` shows that this ends.
- `election_tally`: `combineShares` (line 465) decodes with a message space of 2
  whatever space the ballots were encrypted in.
- `tls_data`: the client derives its application secrets before the client's
  Finished is in the transcript and the server after it, so no application record
  opens. (`RecordsInOrder` therefore speaks about handshake records.)
- `delay_walks`: checkpoints are the states after rounds 0, k, 2k, ... (line 746 of
  `verifiable-delay-functions.ts`), and verification runs the round of a checkpoint
  again (line 806), so honest lattice and isogeny proofs are refused.
- `handshake_secret`: `createServerHello` asks for no state, assigns the new secret
  (line 2303 of `pq-certificate-authority.ts`) and throws when it signs (line 2307);
  a session that was resumed on that object stays established, with its keys and
  another secret.
- `certificates_trust`: `validate` gives `valid: true` and a warning for a
  self-signed root that is not in the trust store (line 892), below a comment that
  says it must be.
- `certificates_store`: `removeCertificate` deletes the name from the index
  (line 3032) although it may lead to another certificate, which is then not found.

Contained in the models, without a run of their own:

- `rekey` and `close` are accepted by a closed channel, which lives on with keys
  of zeros; the properties are about keys that go back to the handshake.
- The header key of a responder changes with its ratchet step while the
  initiator's does not, so its answers have unreadable headers.
- A repeated initial message whose one-time pre-key is used up is answered with
  another root key.
- A full `OutOfOrderBuffer` refuses the one message that would empty it.
- Two overlapping stores, or a restart within one, leave a file that does not
  parse; the properties exempt such keys (`raced`).
- A refused vote has already spent its nullifier; elections with ranked or
  approval ballots fail `verifyElection`; delegations can run in a circle of
  three or to oneself.
- `refresh` goes by place and not by index; `recoverShare` is wrong with more
  than `T` helpers; honest dealers are disqualified when a sum wraps.
- TLS records that cross on the way do not open; a key update tells nobody; a
  server without a common suite answers with one that was not offered.
- A device buffer with fewer bytes left than a draw doubles to stays available
  (sources.ts:30 says "True if this source can be read on the current host right
  now"), so `generate` throws until another device is registered.
- `registerValidatedSource` serves the bytes that became the seed once more, and a
  capture that is registered twice twice.
- `generate` reports eight bits per byte without the Leftover Hash Lemma's check;
  with the measured entropy at the floor it holds from 32 bytes on
  (`FullEntropyProven`), not for shorter draws.
- `thresholdSign` does not compare with a commitment, so it signs with whatever a
  wrong list of shares gives.
- `pq-secure-messaging.ts` (lines 302 and 308) and all of
  `pq-certificate-authority.ts` pass the key to `sign` and `verify` of
  `@noble/post-quantum` first; the locked version wants the message, or the
  signature, first, and `dilithium.ts` (lines 76 and 113) does so. `Session` models
  the signature over the signed pre-key as the caller means it; the models of the
  certificate file follow the program (section 3).

Groups and audit log (`pq-secure-messaging.ts`):

- The path of leaf 6 runs through leaf 2, and place 0 is both the root and the
  creator's leaf. Removing a member may blank another's leaf, and then two members
  share one.
- Sender and receiver keys have different labels, so no group message opens; the
  property is about the tag, which is checked before.
- The epoch secret of `addMember` is not that of `processPathUpdate`; the random bytes
  of a removal are sent to nobody; a path update carries no epoch. The facade has no
  call for welcomes and path updates.
- A log that was cut short at its end verifies.

Threshold signing (`threshold-signatures.ts`):

- Lagrange coefficients are reduced by another modulus than the shares; the matrix
  of key generation is random while signing and verification derive another;
  standard partial signatures have a challenge each. So no combined, FROST or wallet
  signature verifies, although `valid: true` is returned, and every executed wallet
  transaction ends 'rejected'.
- A party may sign a standard session twice, and an aggregate sums the responses
  that arrived although they are weighted for all who committed (`FrostAddsUp` is
  about aggregates of all).
- The beacon of the signing system keeps the old shares after a refresh; the random
  value depends on which parties combine, where the comment says "Unbiasable".
- The `execute` calls look at neither type nor status of a ceremony.
- `isAuthorized` of a span program is true for any party with a row; parties with
  several rows keep one share.

Multi-party computation (`pq-secure-mpc.ts`):

- The garbler numbers all gates, the evaluator only AND and OR: a circuit in which
  one of them follows a free gate does not decode. OR is garbled as AND.
- Preprocessing for GMW is random bits without the cross terms, and OR takes entries
  that were not counted. The models supply the terms to see that the rest is right.
- `mergeConstantGates` removes an inner gate that others use; dropped INPUT gates make
  `runSPDZ` assign inputs to the wrong wires; `runSPDZ` evaluates in the clear and
  always reports `verified: true`.
- A product's openings are not checked; `batchVerifyMAC` names no cheater; Feldman's
  `verify` accepts anything; additive reconstruction takes a share twice.
- The comparison circuit adds differences of bits; auctions and comparisons are right
  for differences of at most half of the prime; the cardinality of an intersection
  counts repetitions that the intersection does not.
- `verifyEchoes` of no echo is true; `complete` and `abort` ask for no phase.

Certificates and handshake (`pq-certificate-authority.ts`):

- No certificate, list, head of a log, OCSP answer, request or server hello is ever
  signed and no signature ever verifies. `HSM.sign` counts the use of a key (line
  2827), throws, and tells the audit log nothing (line 2843). `revokeCertificate` and
  `submitCertificate` change their records and throw when they sign (lines 1389 and
  3244).
- If signing worked, `verifyCRL` would still fail, since a list is signed with the
  times before; the client's handshake would too, since the server signs a
  transcript without its ServerHello and the client verifies with it.
- A chain of certificates without signatures, or whose issuers have no keys, may be
  valid; a bridge keeps the foreign certificate's own signature; validation consults
  no revocation.
- Both names of a rotated line may be rotated; `rotate` returns the name it was
  called with as the previous key.
- Negotiation of a KEM ignores deprecation; inclusion proofs of leaves that moved up
  a level without a sibling fail.
- A handshake object that is used again may pair the secret of one handshake with
  the suite of another.

Delay functions (`verifiable-delay-functions.ts`):

- Pietrzak's verification drops the answer for the right half. The facade's
  verifier knows one identifier, and bundles of chains have others, so it refuses
  all chains. A chain whose construction threw stays, shorter, and verifies.
- `verifyElection` counts the candidates of now and does not ask whether the round is
  one of the beacon's; an election may be run again for another winner.

## 7. What is not modelled

`PROJECT.json` lists every component with its status and what of it is left out.
Left out for good: ring and lattice arithmetic, zero-knowledge proofs,
identity-based encryption (numerical, no state over time); the statistics of the
entropy tools and device-independent rates (floating point); handlers that call
`@noble/post-quantum` and convert around it; signing of canonical JSON; advisors,
benchmarks and calibration (reports from tables and clocks). Heartbeat
timestamps, share commitments that no code compares, session tickets of the TLS
file (nothing reads them), the mixnet and the VRF of the voting file, ASN.1
encoding, hybrid and composite signatures, requests, revocation lists, OCSP and key
escrow of the certificate file, and
oblivious transfer within one function steer no modelled transition.
