----------------------------- MODULE MCEntropy -----------------------------
(***************************************************************************)
(* Where random bytes come from: the service with its devices, the tests   *)
(* of a source, the DRBG, and the pool of the samplers; the delay          *)
(* functions, and the beacon made of them with two elections.  And where   *)
(* the keys made of them are kept: KeyStore, of whose properties one is a  *)
(* liveness property, so there is no symmetry.  A behaviour is one of the  *)
(* seven; the variables of the others keep their first values.  Then the   *)
(* proofs; those of the key store rest on what is proved in KeyStore.      *)
(***************************************************************************)
EXTENDS EntropyService, FiniteSetTheorems, WellFoundedInduction, TLAPS

CONSTANTS
    Symbol, RctCutoff, AptCutoff, Window, MaxSamples,      \* for HealthTests
    Seed, MaxBlocks, MaxCalls,                             \* for HmacDrbg
    PoolSize, ByteBits, MaxLimit, MaxDeck, MaxTakes,       \* for SamplingPool
    FirstPrime, SecondPrime, Primes, LatticeQ, CurveP,     \* for DelayFunctions
    Asked, Squarings, Walk, Schedule,                      \* for DelayFunctions
    Election, Candidate, Entropy,                          \* for DelayBeacon
    MaxRounds, MaxAdded, MaxCandidates,                    \* for DelayBeacon
    KeyId, Caller, Data, Long, MaxStores, MaxRestarts      \* for KeyStore

ASSUME TestAssumption ==
    /\ RctCutoff \in Nat \ {0} /\ Window \in Nat \ {0}
    /\ AptCutoff \in Nat /\ AptCutoff <= Window
ASSUME SeedAssumption == Seed \subseteq Nat /\ MaxBlocks \in Nat

VARIABLES part, samples, K, V, out, calls, poolOffset, taken, pending, evaluated, chain,
          rounds, entropySources, candidates, committed, drawn, results, added,
          dir, file, cache, call, stores, restarts, acked, raced, written

drbgVars == <<K, V, out, calls>>
poolVars == <<poolOffset, taken, pending>>
delayVars == <<evaluated, chain>>
beaconVars == <<rounds, entropySources, candidates, committed, drawn, results, added>>
byteVars == <<vars, samples, drbgVars, poolVars, delayVars, beaconVars>>
keyVars == <<dir, file, cache, call, stores, restarts, acked, raced, written>>

Health == INSTANCE HealthTests
Drbg == INSTANCE HmacDrbg
Pool == INSTANCE SamplingPool

\* Six bytes are enough for a limit: 2^48 of them in the code.
ASSUME PoolAssumption ==
    /\ PoolSize \in Nat /\ ByteBits \in Nat \ {0} /\ MaxLimit \in Nat /\ MaxDeck \in Nat
    /\ \A m \in 2 .. MaxLimit \cup 2 .. MaxDeck : m <= Pool!TwoTo[ByteBits * 6]

Delay == INSTANCE DelayFunctions WITH P <- FirstPrime, Q <- SecondPrime, Challenge <- Asked

Prime(p) == p \in Nat \ {0, 1} /\ \A d \in 2 .. p - 1 : p % d # 0
ASSUME DelayAssumption ==
    /\ Prime(FirstPrime) /\ Prime(SecondPrime) /\ FirstPrime # SecondPrime
    /\ Primes \in Seq(Nat \ {0, 1}) /\ Primes # << >>
    /\ Asked \subseteq Nat /\ Squarings \subseteq Nat /\ Walk \subseteq Nat
    /\ \A schedule \in Schedule :
         schedule \in Seq([type : {"wesolowski", "pietrzak", "lattice", "isogeny"}, steps : Nat])
\* Or a power of two is a multiple of the order, and the trapdoor raises to 0.
ASSUME OrderAssumption ==
    LET order == (FirstPrime - 1) * (SecondPrime - 1)
    IN  \E o \in 3 .. order : o % 2 = 1 /\ order % o = 0

Beacon == INSTANCE DelayBeacon

Keys == INSTANCE KeyStore
ASSUME KeyAssumption == Keys!Assumed

\* What the application adds is no commitment of an election.
MCEntropySource == {[of |-> <<0>>]}

\* Every element of the group is the encoding of a challenge; the walks have one
\* checkpoint for each step, or for every second one.
MCAsked == 0 .. FirstPrime * SecondPrime - 3
MCSquarings == 0 .. 9
Squares(n) == [type |-> "wesolowski", steps |-> n]
MCSchedule ==
    {<<Squares(3)>>, <<Squares(1), Squares(6), Squares(0)>>,
     <<Squares(2), [type |-> "isogeny", steps |-> 2], Squares(1)>>}

\* Larger than the steps can make the exponent, and smaller.
MCPrimes == <<3, 13, 101>>

\* Lengths at which NeedBytes is just met and just missed, a capture below the
\* floor, and captures that the tests of SP 800-90B refuse.
Healthy(size, hMin) == [size |-> size, finding |-> "none", hMin |-> hMin]
MCCapture ==
    {Healthy(141, 20), Healthy(140, 20), Healthy(88, 32), Healthy(400, 16),
     [size |-> 600, finding |-> "stuck", hMin |-> 28],
     [size |-> 600, finding |-> "biased", hMin |-> 28]}

MCInit ==
    /\ part \in {"service", "health", "drbg", "pool", "delay", "beacon", "keys"}
    /\ Init
    /\ Health!Init
    /\ Drbg!Init
    /\ Pool!Init
    /\ Delay!Init
    /\ Beacon!Init
    /\ Keys!Init
    /\ part # "drbg" => \A seed \in Seed : K[1][2] <= seed

MCNext ==
    /\ part' = part
    /\ \/ /\ part = "service"
          /\ Next
          /\ UNCHANGED <<samples, drbgVars, poolVars, delayVars, beaconVars, keyVars>>
       \/ /\ part = "health"
          /\ Health!Next
          /\ UNCHANGED <<vars, drbgVars, poolVars, delayVars, beaconVars, keyVars>>
       \/ /\ part = "drbg"
          /\ Drbg!Next
          /\ UNCHANGED <<vars, samples, poolVars, delayVars, beaconVars, keyVars>>
       \/ /\ part = "pool"
          /\ Pool!Next
          /\ UNCHANGED <<vars, samples, drbgVars, delayVars, beaconVars, keyVars>>
       \/ /\ part = "delay"
          /\ Delay!Next
          /\ UNCHANGED <<vars, samples, drbgVars, poolVars, beaconVars, keyVars>>
       \/ /\ part = "beacon"
          /\ Beacon!Next
          /\ UNCHANGED <<vars, samples, drbgVars, poolVars, delayVars, keyVars>>
       \/ /\ part = "keys"
          /\ Keys!Next
          /\ UNCHANGED byteVars

\* The fairness is that of KeyStore.
MCSpec ==
    /\ MCInit
    /\ [][MCNext]_<<part, byteVars, keyVars>>
    /\ \A c \in Caller : WF_keyVars(part = "keys" /\ Keys!CallStep(c))
    /\ \A k \in KeyId : WF_keyVars(part = "keys" /\ Keys!Expire(k))

-----------------------------------------------------------------------------

\* Of HealthTests: runs are found wherever they lie.
StuckSourcesFound == Health!StuckSourcesFound

\* No byte is served twice, by the service, by the DRBG (whose blocks cannot be
\* computed afterwards either) or out of the pool.
BytesUsedOnce == NoByteServedTwice /\ Drbg!BlocksUsedOnce /\ Pool!FreshBytes

\* Of SamplingPool: nothing that is drawn is biased.
Unbiased == Pool!Unbiased

\* Of DelayFunctions: honest proofs of squaring verify, and of walks, says the code.
HonestSquaringsVerify == Delay!HonestSquaringsVerify
HonestWalksVerify == Delay!HonestWalksVerify

\* Of DelayBeacon: winners are chosen after their candidates are committed to.
WinnersBoundToCandidates == Beacon!WinnersBoundToCandidates

\* Of KeyStore: what is handed out was on the disk whole, what was acknowledged is
\* still there, and the cache comes to agree with it.
HandedOutWasOnDisk == Keys!HandedOutWasOnDisk
DurableOnceAcknowledged == Keys!DurableOnceAcknowledged
CacheConverges == Keys!CacheConverges

-----------------------------------------------------------------------------
(* The proofs. *)

\* Every nonempty set of natural numbers has a least one.
LEMMA LeastNumber ==
    ASSUME NEW S, S \subseteq Nat, S # {}
    PROVE  \E x \in S : \A y \in S : x <= y
<1> DEFINE R == {ss \in Nat \X Nat : ss[1] < ss[2]}
<1>1. IsWellFoundedOn(R, Nat)
    BY NatLessThanWellFounded, Zenon DEF OpToRel
<1>2. \A x, y \in Nat : x < y => <<x, y>> \in R
    OBVIOUS
<1> HIDE DEF R
<1>3. PICK x \in S : \A y \in S : ~ (<<y, x>> \in R)
    BY <1>1, WFMin, Zenon
<1>4. \A y \in S : ~ (y < x)
    BY <1>2, <1>3, Zenon
<1>5. \A y \in S : x <= y
    BY <1>4
<1> QED
    BY <1>5

\* What is true of 0 and goes from each number to the next is true up to any number.
LEMMA UpTo ==
    ASSUME NEW N \in Nat, NEW P, 0 \in P, \A n \in 1 .. N : n - 1 \in P => n \in P
    PROVE  \A n \in 0 .. N : n \in P
<1> DEFINE S == {n \in 0 .. N : n \notin P}
<1>1. SUFFICES ASSUME S # {} PROVE FALSE
    OBVIOUS
<1>2. PICK x \in S : \A y \in S : x <= y
    <2>1. S \subseteq Nat
        OBVIOUS
    <2> HIDE DEF S
    <2> QED
        BY <1>1, <2>1, LeastNumber
<1>3. x \in 1 .. N /\ x - 1 \in 0 .. N /\ x - 1 \notin S
    BY <1>2
<1> QED
    BY <1>2, <1>3

\* A value for each place, that is computed from the one before.
Computes(D, M, first, f, g) ==
    /\ g \in [1 .. M -> D]
    /\ \A i \in 1 .. M : g[i] = IF i = 1 THEN first ELSE f[<<i, g[i - 1]>>]

\* There are such values for any number of places.
LEMMA Computed ==
    ASSUME NEW D, NEW M \in Nat, NEW first \in D, NEW f \in [Nat \X D -> D]
    PROVE  \E g : Computes(D, M, first, f, g)
<1> DEFINE T == {m \in Nat : ~ \E g : Computes(D, m, first, f, g)}
<1>1. SUFFICES ASSUME T # {} PROVE FALSE
    OBVIOUS
<1>2. PICK m \in T : \A k \in T : m <= k
    <2>1. T \subseteq Nat
        OBVIOUS
    <2> HIDE DEF T
    <2> QED
        BY <1>1, <2>1, LeastNumber
<1>3. CASE m = 0
    <2> DEFINE g == [i \in 1 .. 0 |-> first]
    <2>1. Computes(D, 0, first, f, g)
        BY DEF Computes
    <2> QED
        BY <1>2, <1>3, <2>1
<1>4. CASE m # 0
    <2>1. m \in Nat /\ m - 1 \in Nat /\ m - 1 \notin T
        <3>1. m \in Nat
            OBVIOUS
        <3> HIDE DEF T
        <3> QED
            BY <1>2, <1>4, <3>1
    <2>2. PICK h : Computes(D, m - 1, first, f, h)
        BY <2>1
    <2> DEFINE g == [i \in 1 .. m |-> IF i = 1 THEN first
                                      ELSE IF i = m THEN f[<<m, h[m - 1]>>] ELSE h[i]]
    <2>3. ASSUME NEW l \in 1 .. m - 1 PROVE g[l] = h[l] /\ h[l] \in D
        <3>1. l \in 1 .. m /\ l # m
            BY <2>1
        <3>2. h \in [1 .. m - 1 -> D] /\ (l = 1 => h[l] = first)
            BY <2>2 DEF Computes
        <3> QED
            BY <3>1, <3>2
    <2>4. ASSUME NEW i \in 1 .. m
          PROVE  g[i] \in D /\ g[i] = IF i = 1 THEN first ELSE f[<<i, g[i - 1]>>]
        <3>1. CASE i = 1
            BY <3>1
        <3>2. CASE i # 1
            <4> HIDE DEF g
            <4>0. i - 1 \in 1 .. m - 1 /\ i \in Nat
                BY <2>1, <2>4, <3>2
            <4>1. g[i - 1] = h[i - 1] /\ h[i - 1] \in D
                BY <2>3, <4>0
            <4> USE DEF g
            <4>2. f[<<i, h[i - 1]>>] \in D
                BY <4>0, <4>1
            <4>3. g[i] = f[<<i, h[i - 1]>>]
                <5>1. CASE i = m
                    BY <2>1, <3>2, <5>1
                <5>2. CASE i # m
                    <6>1. i \in 1 .. m - 1
                        BY <2>1, <2>4, <5>2
                    <6> QED
                        BY <2>2, <3>2, <5>2, <6>1 DEF Computes
                <5> QED
                    BY <5>1, <5>2
            <4> QED
                BY <3>2, <4>1, <4>2, <4>3
        <3> QED
            BY <3>1, <3>2
    <2>5. g \in [1 .. m -> D]
        BY <2>4
    <2> HIDE DEF g
    <2> QED
        BY <1>2, <2>4, <2>5 DEF Computes
<1> QED
    BY <1>3, <1>4

-----------------------------------------------------------------------------
(* EntropyService: what is called full entropy, and no byte served twice.  *)

\* A division that is rounded up gives at least the quotient.
LEMMA EnoughBytes ==
    ASSUME NEW need \in Nat, NEW h \in Nat, 0 < h
    PROVE  /\ (need + h - 1) \div h \in Nat
           /\ need <= ((need + h - 1) \div h) * h
<1> DEFINE q == (need + h - 1) \div h
<1>1. need + h - 1 \in Nat
    OBVIOUS
<1>2. q \in Nat
    BY <1>1
<1>3. need + h - 1 < q * h + h
    BY <1>1
<1> QED
    BY <1>2, <1>3

\* The seed of an accepted capture has full entropy, from bytes that were captured.
LEMMA SeedProven ==
    ASSUME NEW c \in Capture, Accepted(c)
    PROVE  SeedFrom(c).fullEntropy /\ SeedFrom(c).consumed <= c.size
<1>1. c.hMin \in Nat /\ 0 < c.hMin
    BY CaptureAssumption, EntropyAssumption DEF Accepted
<1>2. 4 * (SeedBits + Margin + 64) \in Nat
    BY EntropyAssumption
<1>3. 4 * (SeedBits + Margin + 64) <= NeedBytes(c.hMin) * c.hMin /\ NeedBytes(c.hMin) \in Nat
    BY <1>1, <1>2, EnoughBytes DEF NeedBytes
<1>4. NeedBytes(c.hMin) * c.hMin \in Nat
    BY <1>1, <1>3
<1>5. 4 * (SeedBits + Margin) <= NeedBytes(c.hMin) * c.hMin
    BY <1>2, <1>3, <1>4, EntropyAssumption
<1> QED
    BY <1>5 DEF SeedFrom, SatisfiesLHL, Accepted

\* The source of a draw is one of the service's.
LEMMA ChosenServed == ServiceInv => Chosen \in Served
<1> SUFFICES ASSUME ServiceInv PROVE Chosen \in Served
    OBVIOUS
<1> DEFINE raw == {i \in DOMAIN sources : Raw(sources[i]) /\ Available(sources[i])}
<1>1. CASE raw = {}
    BY <1>1 DEF Chosen, Served
<1>2. CASE raw # {}
    <2>1. raw \subseteq Nat /\ raw \subseteq DOMAIN sources
        BY DEF ServiceInv
    <2>2. PICK least \in raw : \A j \in raw : least <= j
        <3> HIDE DEF raw
        <3> QED
            BY <1>2, <2>1, LeastNumber
    <2> DEFINE k == CHOOSE i \in raw : \A j \in raw : i <= j
    <2>3. k \in raw
        BY <2>2
    <2>4. Chosen = sources[k]
        BY <1>2 DEF Chosen
    <2>5. sources[k] \in Served
        <3> HIDE DEF k, raw
        <3> QED
            BY <2>1, <2>3 DEF ServiceInv
    <2> QED
        BY <2>4, <2>5
<1> QED
    BY <1>1, <1>2

\* Devices and draws, as ServiceInv has them.
DeviceRecord == [capture : {c \in Capture : Accepted(c)}, off : Nat, credited : Int]
Devices == Seq(DeviceRecord)
DrawRecord == [source : Served, bytes : Nat, from : Nat, read : Nat, hMin : Int]

\* What each of them is.
LEMMA ServiceTyped ==
    ASSUME ServiceInv
    PROVE  /\ devices \in Seq(DeviceRecord) /\ answers \in Seq(DrawRecord)
           /\ \A d \in DOMAIN devices :
                /\ devices[d] \in DeviceRecord /\ devices[d].off \in Nat
                /\ devices[d].capture \in Capture /\ Accepted(devices[d].capture)
                /\ devices[d].capture.size \in Nat /\ devices[d].capture.hMin \in Nat
                /\ devices[d].off <= devices[d].capture.size
           /\ \A i \in DOMAIN answers :
                /\ answers[i] \in DrawRecord /\ Answered(answers[i])
                /\ Device(answers[i].source) => answers[i].source \in DOMAIN devices
<1>1. devices \in Seq(DeviceRecord) /\ answers \in Seq(DrawRecord)
    BY DEF ServiceInv, DeviceRecord, DrawRecord
<1>2. \A d \in DOMAIN devices : devices[d] \in DeviceRecord
    BY <1>1
<1>3. \A e \in DeviceRecord : /\ e.off \in Nat /\ e.capture \in Capture /\ Accepted(e.capture)
                              /\ e.capture.size \in Nat /\ e.capture.hMin \in Nat
    BY CaptureAssumption DEF DeviceRecord
<1>4. \A i \in DOMAIN answers : answers[i] \in DrawRecord
    BY <1>1
<1>5. \A a \in DrawRecord : Device(a.source) => a.source \in DOMAIN devices
    BY <1>1 DEF DrawRecord, Device, Served, HwRng, Csprng
<1> QED
    BY <1>1, <1>2, <1>3, <1>4, <1>5 DEF ServiceInv

\* A draw is appended that its source answers for.
LEMMA AnswerAdded ==
    ASSUME ServiceInv,
           NEW a \in DrawRecord,
           answers' = Append(answers, a),
           UNCHANGED <<sources, seeds>>, devices' \in Devices, Len(devices') = Len(devices),
           \A d \in DOMAIN devices : /\ devices'[d].capture = devices[d].capture
                                     /\ devices[d].off <= devices'[d].off
                                     /\ devices'[d].off <= devices[d].capture.size,
           Answered(a)',
           Device(a.source) => a.from = devices[a.source].off
    PROVE  ServiceInv'
<1>0. /\ sources \in Seq(Served) /\ devices \in Devices /\ answers \in Seq(DrawRecord)
      /\ seeds \subseteq {SeedFrom(c) : c \in {c \in Capture : Accepted(c)}}
    BY DEF ServiceInv, Devices, DeviceRecord, DrawRecord
<1>1. Served' = Served /\ DOMAIN devices' = DOMAIN devices /\ DOMAIN devices = 1 .. Len(devices)
    BY <1>0 DEF Served, Devices
<1>2. answers' \in Seq(DrawRecord)
    BY <1>0
<1>3. \A d \in DOMAIN devices' : devices'[d].off <= devices'[d].capture.size
    BY <1>1
<1>4. /\ DOMAIN answers' = DOMAIN answers \cup {Len(answers) + 1}
      /\ answers'[Len(answers) + 1] = a
      /\ \A i \in DOMAIN answers : /\ answers'[i] = answers[i] /\ i <= Len(answers) /\ i \in Nat
                                   /\ answers[i] \in DrawRecord
    BY <1>0
<1>5. ASSUME NEW i \in DOMAIN answers
      PROVE  Answered(answers[i])'
    <2>1. PICK b \in DrawRecord : b = answers[i] /\ b = answers'[i]
        BY <1>4
    <2>2. Answered(b)
        BY <2>1 DEF ServiceInv
    <2>3. Device(b.source) => b.source \in DOMAIN devices
        BY <1>1, <2>1, SMTT(30) DEF DrawRecord, Device, Served, HwRng, Csprng
    <2>4. \A d \in DOMAIN devices : devices[d].off \in Nat /\ devices'[d].off \in Nat
        <3>1. \A d \in DeviceRecord : d.off \in Nat
            BY DEF DeviceRecord
        <3>2. \A d \in DOMAIN devices : devices[d] \in DeviceRecord /\ devices'[d] \in DeviceRecord
            BY <1>0, <1>1 DEF Devices
        <3> QED
            BY <3>1, <3>2
    <2>5. Device(b.source) => b.from + b.read <= devices'[b.source].off
        <3> SUFFICES ASSUME Device(b.source) PROVE b.from + b.read <= devices'[b.source].off
            OBVIOUS
        <3>1. b.from \in Nat /\ b.read \in Nat
            BY <2>1 DEF DrawRecord
        <3>2. b.from + b.read <= devices[b.source].off
            BY <2>2 DEF Answered
        <3>3. PICK o \in Nat, p \in Nat : /\ o = devices[b.source].off /\ p = devices'[b.source].off
                                          /\ o <= p
            BY <2>3, <2>4
        <3> QED
            <4>1. b.from + b.read <= o /\ b.from + b.read \in Nat
                BY <3>1, <3>2, <3>3
            <4> QED
                BY <3>3, <4>1
    <2>6. Answered(b)'
        BY <2>2, <2>3, <2>5 DEF Answered
    <2> QED
        BY <2>1, <2>6 DEF Answered
<1>6. \A i \in DOMAIN answers' : Answered(answers[i])'
    <2> SUFFICES ASSUME NEW i \in DOMAIN answers' PROVE Answered(answers[i])'
        OBVIOUS
    <2>1. CASE i \in DOMAIN answers
        BY <1>5, <2>1
    <2>2. CASE i = Len(answers) + 1
        BY <1>4, <2>2 DEF Answered
    <2> QED
        BY <1>4, <2>1, <2>2
<1>7. ASSUME NEW i \in DOMAIN answers', NEW j \in DOMAIN answers', i < j,
             answers'[i].source = answers'[j].source, Device(answers'[i].source)
      PROVE  answers'[i].from + answers'[i].read <= answers'[j].from
    <2>0. Len(answers) \in Nat
        BY <1>0
    <2>1. i \in DOMAIN answers /\ answers'[i] = answers[i]
        <3>1. CASE i = Len(answers) + 1
            BY <1>4, <1>7, <2>0, <3>1
        <3> QED
            BY <1>4, <3>1
    <2>2. CASE j \in DOMAIN answers
        BY <1>4, <1>7, <2>1, <2>2 DEF ServiceInv
    <2>3. CASE j = Len(answers) + 1
        <3>1. answers'[j] = a
            BY <1>4, <2>3
        <3>2. answers[i].from + answers[i].read <= devices[answers[i].source].off
            BY <1>7, <2>1 DEF Answered, ServiceInv
        <3>3. answers[i].source = a.source
            BY <1>7, <2>1, <3>1
        <3> QED
            BY <1>7, <2>1, <3>1, <3>2, <3>3
    <2> QED
        BY <1>4, <2>2, <2>3
<1> QED
    BY <1>0, <1>1, <1>2, <1>3, <1>6, <1>7 DEF ServiceInv, Devices, DeviceRecord, DrawRecord

\* A draw from a device: the offset goes on by what is read.
LEMMA DeviceServes ==
    ASSUME ServiceInv, NEW n \in Nat, GenerateFromDevice(n)
    PROVE  ServiceInv'
<1> DEFINE after == OffsetAfter(Chosen, RawBytes(n))
<1>1. /\ devices \in Seq(DeviceRecord)
      /\ \A d \in DOMAIN devices : /\ devices[d] \in DeviceRecord /\ devices[d].off \in Nat
                                   /\ devices[d].capture.size \in Nat
                                   /\ devices[d].capture.hMin \in Nat
                                   /\ devices[d].off <= devices[d].capture.size
    BY ServiceTyped
<1>2. Chosen \in DOMAIN devices /\ Chosen \in Served /\ Device(Chosen)
    BY <1>1, ChosenServed DEF GenerateFromDevice, Device, Served, HwRng, Csprng
<1>3. PICK s \in DOMAIN devices : s = Chosen
    BY <1>2
<1>4. PICK o \in Nat : o = devices[s].off
    BY <1>1
<1>5. devices[s] \in DeviceRecord
    BY <1>1
<1>6. PICK z \in Nat : z = devices[s].capture.size
    BY <1>1
<1>7. PICK h \in Int : h = devices[s].capture.hMin
    BY <1>1
<1>8. after = o + 2 * n /\ after \in Nat /\ after <= z
    BY <1>3, <1>4, <1>6 DEF GenerateFromDevice, OffsetAfter, RawBytes, CanRead
<1>9. devices' = [devices EXCEPT ![s].off = after]
    BY <1>3 DEF GenerateFromDevice
<1> HIDE DEF after
<1>10. devices' = [devices EXCEPT ![s] = [devices[s] EXCEPT !.off = after]]
    BY <1>9
<1>11. [devices[s] EXCEPT !.off = after] \in DeviceRecord
    BY <1>5, <1>8 DEF DeviceRecord
<1>12. devices' \in Devices /\ Len(devices') = Len(devices)
    BY <1>1, <1>10, <1>11 DEF Devices
<1>13. ASSUME NEW d \in DOMAIN devices
       PROVE  /\ devices'[d].capture = devices[d].capture
              /\ devices[d].off <= devices'[d].off
              /\ devices'[d].off <= devices[d].capture.size
    <2>1. CASE d = s
        <3>1. devices'[d] = [devices[s] EXCEPT !.off = after]
            BY <1>1, <1>10, <2>1
        <3>2. devices'[d].capture = devices[s].capture /\ devices'[d].off = after
            BY <1>5, <3>1 DEF DeviceRecord
        <3> QED
            BY <1>4, <1>6, <1>8, <2>1, <3>2
    <2>2. CASE d # s
        <3>1. devices'[d] = devices[d] /\ devices[d].off \in Nat
            BY <1>1, <1>10, <2>2
        <3> QED
            BY <1>1, <3>1
    <2> QED
        BY <2>1, <2>2
<1>14. PICK a : a = Answer(s, n, o, h)
    OBVIOUS
<1>15. a \in DrawRecord
    BY <1>2, <1>3, <1>14 DEF DrawRecord, Answer, RawBytes
<1>16. answers' = Append(answers, a) /\ UNCHANGED <<sources, seeds>>
    BY <1>3, <1>4, <1>7, <1>14 DEF GenerateFromDevice
<1>17. a.source = s /\ a.from = o /\ a.read = 2 * n /\ a.bytes = n /\ a.hMin = h
    BY <1>14 DEF Answer, RawBytes
<1>18. devices'[s].off = after /\ devices'[s].capture = devices[s].capture
    BY <1>1, <1>5, <1>10 DEF DeviceRecord
<1>19. s # HwRng
    BY <1>2, <1>3 DEF Device, HwRng
<1>20. Answered(a)'
    BY <1>7, <1>8, <1>17, <1>18, <1>19 DEF Answered
<1>21. Device(a.source) => a.from = devices[a.source].off
    BY <1>4, <1>17
<1> QED
    BY <1>12, <1>13, <1>15, <1>16, <1>20, <1>21, AnswerAdded

\* A draw from the host: nothing of a device is read.
LEMMA HostServes ==
    ASSUME ServiceInv, NEW n \in Nat, GenerateFromHwRng(n) \/ GenerateFromCsprng(n)
    PROVE  ServiceInv'
<1>1. PICK a : /\ a \in {Answer(HwRng, n, 0, 24), Answer(Csprng, n, 0, 32)}
               /\ answers' = Append(answers, a)
    BY DEF GenerateFromHwRng, GenerateFromCsprng
<1>2. UNCHANGED <<sources, seeds, devices>>
    BY DEF GenerateFromHwRng, GenerateFromCsprng
<1>3. a \in DrawRecord
    BY <1>1 DEF DrawRecord, Answer, RawBytes, Served
<1>4. ~Device(a.source) /\ (a.source = HwRng => a.hMin = 24) /\ a.read = 2 * a.bytes
    BY <1>1 DEF Answer, RawBytes, Device, HwRng, Csprng
<1>5. Answered(a)'
    BY <1>4 DEF Answered
<1>6. devices' \in Devices /\ Len(devices') = Len(devices)
    BY <1>2, ServiceTyped DEF Devices
<1>7. \A d \in DOMAIN devices : /\ devices'[d].capture = devices[d].capture
                                /\ devices[d].off <= devices'[d].off
                                /\ devices'[d].off <= devices[d].capture.size
    BY <1>2, ServiceTyped
<1> QED
    BY <1>1, <1>2, <1>3, <1>4, <1>5, <1>6, <1>7, AnswerAdded

\* An accepted capture becomes a device: the first of the sources, with all its bytes.
LEMMA DeviceJoins ==
    ASSUME ServiceInv, NEW c \in Capture, RegisterValidatedSource(c)
    PROVE  ServiceInv'
<1> DEFINE new == [capture |-> c, off |-> 0, credited |-> Credited(c)]
<1>1. /\ sources \in Seq(Served) /\ devices \in Seq(DeviceRecord)
      /\ \A d \in DOMAIN devices : devices[d].off <= devices[d].capture.size
    BY ServiceTyped DEF ServiceInv
<1>2. new \in DeviceRecord
    <2>1. c.hMin \in Int
        BY CaptureAssumption
    <2>2. Credited(c) \in Int
        BY <2>1 DEF Credited
    <2> QED
        BY <2>2 DEF RegisterValidatedSource, DeviceRecord
<1>3. devices' = Append(devices, new)
    BY DEF RegisterValidatedSource
<1> HIDE DEF new
<1>4. /\ devices' \in Seq(DeviceRecord) /\ Len(devices') = Len(devices) + 1 /\ Len(devices) \in Nat
      /\ devices'[Len(devices) + 1] = new
      /\ \A d \in DOMAIN devices : devices'[d] = devices[d]
      /\ DOMAIN devices = 1 .. Len(devices) /\ DOMAIN devices' = 1 .. Len(devices) + 1
    BY <1>1, <1>2, <1>3
<1>5. Served \subseteq Served' /\ Len(devices) + 1 \in Served'
    BY <1>4 DEF Served
<1>6. sources' \in Seq(Served')
    <2>1. sources \in Seq(Served')
        BY <1>1, <1>5
    <2>2. <<Len(devices) + 1>> \in Seq(Served')
        BY <1>5
    <2>3. sources' = <<Len(devices) + 1>> \o sources
        BY DEF RegisterValidatedSource, Registered
    <2> QED
        BY <2>1, <2>2, <2>3
<1>7. \A d \in DOMAIN devices' : devices'[d].off <= devices'[d].capture.size
    <2>1. new.off = 0 /\ new.capture = c /\ c.size \in Nat
        BY CaptureAssumption DEF new
    <2>2. \A d \in DOMAIN devices' : d \in DOMAIN devices \/ d = Len(devices) + 1
        BY <1>4
    <2> QED
        BY <1>1, <1>4, <2>1, <2>2
<1>8. seeds' \subseteq {SeedFrom(cc) : cc \in {cc \in Capture : Accepted(cc)}}
    BY DEF RegisterValidatedSource, ServiceInv
<1>9. answers' = answers
    BY DEF RegisterValidatedSource
<1>10. answers \in Seq(DrawRecord')
    <2>1. DrawRecord \subseteq DrawRecord'
        BY <1>5 DEF DrawRecord
    <2> QED
        BY <2>1, ServiceTyped
<1>11. ASSUME NEW i \in DOMAIN answers PROVE Answered(answers[i])'
    <2>1. PICK b \in DrawRecord : b = answers[i]
        BY ServiceTyped
    <2>2. Answered(b)
        BY <2>1 DEF ServiceInv
    <2>3. Device(b.source) => b.source \in DOMAIN devices
        BY <2>1, ServiceTyped
    <2>4. Answered(b)'
        BY <1>4, <2>2, <2>3 DEF Answered
    <2> QED
        BY <1>9, <2>1, <2>4 DEF Answered
<1> QED
    BY <1>4, <1>6, <1>7, <1>8, <1>9, <1>10, <1>11 DEF ServiceInv, DeviceRecord, DrawRecord

\* Every step of the service keeps the devices ahead of what was drawn from them.
LEMMA ServiceInductive ==
    /\ Init => ServiceInv
    /\ ServiceInv /\ [Next]_vars => ServiceInv'
<1>1. Init => ServiceInv
    BY DEF Init, ServiceInv, Served
<1>2. ASSUME ServiceInv, [Next]_vars PROVE ServiceInv'
    <2>1. CASE \E c \in Capture : IngestExternalEntropy(c)
        <3>1. PICK c \in Capture : IngestExternalEntropy(c)
            BY <2>1
        <3>2. seeds' \subseteq {SeedFrom(cc) : cc \in {cc \in Capture : Accepted(cc)}}
            BY <1>2, <3>1 DEF IngestExternalEntropy, ServiceInv
        <3>3. UNCHANGED <<sources, devices, answers>>
            BY <3>1 DEF IngestExternalEntropy
        <3> QED
            BY <1>2, <3>2, <3>3 DEF ServiceInv, Served, Answered
    <2>2. CASE \E c \in Capture : RegisterValidatedSource(c)
        BY <1>2, <2>2, DeviceJoins
    <2>3. CASE \E n \in DrawSize : Generate(n)
        <3>1. PICK n \in Nat : Generate(n)
            BY <2>3, EntropyAssumption
        <3> QED
            BY <1>2, <3>1, DeviceServes, HostServes DEF Generate
    <2>4. CASE HardwareChanges \/ UNCHANGED vars
        <3>1. UNCHANGED <<sources, devices, seeds, answers>>
            BY <2>4 DEF HardwareChanges, vars
        <3> QED
            BY <1>2, <3>1 DEF ServiceInv, Served, Answered
    <2> QED
        BY <1>2, <2>1, <2>2, <2>3, <2>4 DEF Next
<1> QED
    BY <1>1, <1>2

\* What is called full entropy is proved so, and no byte of a device is drawn twice.
LEMMA ServiceSafe == ServiceInv => FullEntropyProven /\ NoByteServedTwice
<1> SUFFICES ASSUME ServiceInv PROVE FullEntropyProven /\ NoByteServedTwice
    OBVIOUS
<1>2. \A s \in seeds : s.fullEntropy /\ s.consumed <= s.capture.size
    <2> SUFFICES ASSUME NEW s \in seeds PROVE s.fullEntropy /\ s.consumed <= s.capture.size
        OBVIOUS
    <2>1. PICK c \in Capture : Accepted(c) /\ s = SeedFrom(c)
        BY DEF ServiceInv
    <2>2. s.capture = c
        BY <2>1 DEF SeedFrom
    <2> QED
        BY <2>1, <2>2, SeedProven
<1>3. ASSUME NEW i \in DOMAIN answers, Raw(answers[i].source), answers[i].bytes >= 32
      PROVE  SatisfiesLHL(answers[i].read, 8 * answers[i].bytes, answers[i].hMin, 64)
    <2>1. PICK b \in DrawRecord : b = answers[i]
        BY ServiceTyped
    <2>2. PICK n \in Nat, h \in Int : n = b.bytes /\ h = b.hMin
        BY DEF DrawRecord
    <2>3. b.read = 2 * n /\ Answered(b)
        BY <2>1, <2>2 DEF ServiceInv, Answered
    <2>4. h >= 20
        <3>1. CASE b.source = HwRng
            BY <2>2, <2>3, <3>1 DEF Answered
        <3>2. CASE b.source # HwRng
            <4>1. Device(b.source) /\ b.source \in DOMAIN devices
                <5>1. b.source \in Served /\ b.source # Csprng
                    BY <1>3, <2>1 DEF DrawRecord, Raw
                <5>2. Device(b.source)
                    BY <3>2, <5>1 DEF Device, Served, HwRng, Csprng
                <5> QED
                    BY <2>1, <5>2, ServiceTyped
            <4>2. /\ Accepted(devices[b.source].capture) /\ h = devices[b.source].capture.hMin
                BY <2>2, <2>3, <4>1, ServiceTyped DEF Answered
            <4> QED
                BY <4>2, EntropyAssumption DEF Accepted
        <3> QED
            BY <3>1, <3>2
    <2>5. (2 * n) * 20 <= (2 * n) * h
        BY <2>4
    <2>6. n >= 32
        BY <1>3, <2>1, <2>2
    <2>7. 4 * (8 * n + 64) <= (2 * n) * h
        BY <2>5, <2>6
    <2> QED
        BY <2>1, <2>2, <2>3, <2>7 DEF SatisfiesLHL
<1>4. ASSUME NEW i \in DOMAIN answers, NEW j \in DOMAIN answers, Device(answers[i].source)
      PROVE  /\ answers[i].from + answers[i].read <= devices[answers[i].source].capture.size
             /\ (i < j /\ answers[i].source = answers[j].source) =>
                    answers[i].from + answers[i].read <= answers[j].from
    <2>1. PICK b \in DrawRecord : b = answers[i]
        BY ServiceTyped
    <2>2. b.source \in DOMAIN devices /\ Device(b.source)
        BY <1>4, <2>1, ServiceTyped
    <2>5. PICK o \in Nat, z \in Nat : /\ o = devices[b.source].off
                                      /\ z = devices[b.source].capture.size
        BY <2>2, ServiceTyped
    <2>6. o <= z
        BY <2>2, <2>5 DEF ServiceInv
    <2>7. b.from + b.read <= o
        BY <2>1, <2>2, <2>5 DEF ServiceInv, Answered
    <2>8. PICK e \in Nat : e = b.from + b.read
        BY DEF DrawRecord
    <2>9. e <= z
        BY <2>5, <2>6, <2>7, <2>8
    <2>10. b.from + b.read <= devices[b.source].capture.size
        BY <2>5, <2>8, <2>9
    <2> QED
        BY <1>4, <2>1, <2>10 DEF ServiceInv
<1>5. FullEntropyProven
    BY <1>2, <1>3 DEF FullEntropyProven
<1>6. NoByteServedTwice
    BY <1>4 DEF NoByteServedTwice
<1> QED
    BY <1>5, <1>6

-----------------------------------------------------------------------------
(* HealthTests: the tests find every source that sticks.                   *)

\* The values of run are what the loop says.
RunAt(s, g) ==
    /\ g \in [1 .. Len(s) -> Nat]
    /\ \A i \in 1 .. Len(s) :
         g[i] = IF i = 1 THEN 1 ELSE IF s[i] = s[i - 1] THEN g[i - 1] + 1 ELSE 1

\* There are such values.
LEMMA RunComputed ==
    ASSUME NEW s \in Seq(Symbol)
    PROVE  RunAt(s, Health!Run(s))
<1> DEFINE f == [x \in Nat \X Nat |-> IF s[x[1]] = s[x[1] - 1] THEN x[2] + 1 ELSE 1]
           Body(g) == [i \in 1 .. Len(s) |->
                         IF i = 1 THEN 1 ELSE IF s[i] = s[i - 1] THEN g[i - 1] + 1 ELSE 1]
           G == CHOOSE g : g = Body(g)
<1>1. Len(s) \in Nat /\ f \in [Nat \X Nat -> Nat]
    OBVIOUS
<1>2. PICK g : Computes(Nat, Len(s), 1, f, g)
    <2> HIDE DEF f
    <2> QED
        BY <1>1, Computed
<1>3. g \in [1 .. Len(s) -> Nat]
    BY <1>2 DEF Computes
<1>4. ASSUME NEW i \in 1 .. Len(s)
      PROVE  g[i] = IF i = 1 THEN 1 ELSE IF s[i] = s[i - 1] THEN g[i - 1] + 1 ELSE 1
    <2>1. CASE i = 1
        BY <1>2, <2>1 DEF Computes
    <2>2. CASE i # 1
        <3>1. i \in Nat /\ g[i - 1] \in Nat
            BY <1>1, <1>3, <2>2
        <3>2. f[<<i, g[i - 1]>>] = IF s[i] = s[i - 1] THEN g[i - 1] + 1 ELSE 1
            BY <3>1
        <3> HIDE DEF f
        <3>3. g[i] = f[<<i, g[i - 1]>>]
            BY <1>2, <2>2 DEF Computes
        <3> QED
            BY <2>2, <3>2, <3>3
    <2> QED
        BY <2>1, <2>2
<1>5. g = Body(g)
    BY <1>3, <1>4
<1>6. G = Body(G)
    BY <1>5
<1>7. Health!Run(s) = G
    BY DEF Health!Run
<1>8. ASSUME NEW h, h = Body(h) PROVE RunAt(s, h)
    <2> DEFINE T == {i \in 1 .. Len(s) : h[i] \notin Nat}
    <2>1. T = {}
        <3> SUFFICES ASSUME T # {} PROVE FALSE
            OBVIOUS
        <3>1. PICK i \in T : \A j \in T : i <= j
            <4>1. T \subseteq Nat
                BY <1>1
            <4> HIDE DEF T
            <4> QED
                BY <4>1, LeastNumber
        <3>2. i \in 1 .. Len(s) /\ h[i] \notin Nat /\ \A j \in 1 .. Len(s) : j < i => h[j] \in Nat
            BY <3>1
        <3>3. h[i] = IF i = 1 THEN 1 ELSE IF s[i] = s[i - 1] THEN h[i - 1] + 1 ELSE 1
            BY <1>8, <3>2
        <3>4. CASE i = 1
            BY <3>2, <3>3, <3>4
        <3>5. CASE i # 1
            <4>1. i - 1 \in 1 .. Len(s) /\ i - 1 < i
                BY <1>1, <3>2, <3>5
            <4>2. h[i - 1] \in Nat
                BY <3>2, <4>1
            <4> QED
                BY <3>2, <3>3, <3>5, <4>2
        <3> QED
            BY <3>4, <3>5
    <2>2. \A i \in 1 .. Len(s) : h[i] \in Nat
        BY <2>1
    <2>3. h \in [1 .. Len(s) -> Nat]
        BY <1>8, <2>2
    <2>4. \A i \in 1 .. Len(s) :
             h[i] = IF i = 1 THEN 1 ELSE IF s[i] = s[i - 1] THEN h[i - 1] + 1 ELSE 1
        BY <1>8
    <2> QED
        BY <2>3, <2>4 DEF RunAt
<1> HIDE DEF G
<1> QED
    BY <1>6, <1>7, <1>8

\* The samples of a run are one value, and the one before them is another.
LEMMA RunsAreRuns ==
    ASSUME NEW s \in Seq(Symbol), NEW g, RunAt(s, g), NEW e \in 1 .. Len(s)
    PROVE  /\ g[e] \in 1 .. e
           /\ \A j \in (e - g[e] + 1) .. e : s[j] = s[e]
           /\ g[e] < e => s[e - g[e]] # s[e]
<1> DEFINE OneValue(i) == /\ g[i] \in 1 .. i
                          /\ \A j \in (i - g[i] + 1) .. i : s[j] = s[i]
                          /\ g[i] < i => s[i - g[i]] # s[i]
           T == {i \in 1 .. Len(s) : ~OneValue(i)}
<1>0. Len(s) \in Nat
    OBVIOUS
<1>1. SUFFICES ASSUME T # {} PROVE FALSE
    OBVIOUS
<1>2. PICK i \in T : \A j \in T : i <= j
    <2>1. T \subseteq Nat
        BY <1>0
    <2> HIDE DEF T
    <2> QED
        BY <1>1, <2>1, LeastNumber
<1>3. i \in 1 .. Len(s) /\ ~OneValue(i)
    BY <1>2
<1>4. g[i] = IF i = 1 THEN 1 ELSE IF s[i] = s[i - 1] THEN g[i - 1] + 1 ELSE 1
    BY <1>3 DEF RunAt
<1>5. CASE i = 1 \/ s[i] # s[i - 1]
    <2>1. g[i] = 1
        BY <1>4, <1>5
    <2>2. i - g[i] + 1 = i /\ i - g[i] = i - 1
        BY <1>0, <1>3, <2>1
    <2>3. \A j \in i .. i : s[j] = s[i]
        BY <1>3
    <2>4. OneValue(i)
        BY <1>0, <1>3, <1>5, <2>1, <2>2, <2>3
    <2> QED
        BY <1>3, <2>4
<1>6. CASE i # 1 /\ s[i] = s[i - 1]
    <2>1. PICK h \in Nat : h = i - 1 /\ h \in 1 .. Len(s) /\ i = h + 1
        BY <1>0, <1>3, <1>6
    <2>2. OneValue(h)
        BY <1>2, <2>1
    <2>3. PICK r \in Nat : r = g[h] /\ 1 <= r /\ r <= h
        BY <2>1, <2>2
    <2>4. g[i] = r + 1 /\ s[i] = s[h]
        BY <1>4, <1>6, <2>1, <2>3
    <2>5. g[i] \in 1 .. i
        BY <2>1, <2>3, <2>4
    <2>6. \A j \in (i - g[i] + 1) .. i : s[j] = s[i]
        <3> SUFFICES ASSUME NEW j \in (i - g[i] + 1) .. i PROVE s[j] = s[i]
            OBVIOUS
        <3>1. j = i \/ j \in (h - r + 1) .. h
            BY <2>1, <2>3, <2>4, SMTT(30)
        <3> QED
            BY <2>2, <2>3, <2>4, <3>1
    <2>7. g[i] < i => s[i - g[i]] # s[i]
        <3>1. i - g[i] = h - r /\ (g[i] < i => r < h)
            BY <2>1, <2>3, <2>4, SMTT(30)
        <3> QED
            BY <2>2, <2>3, <2>4, <3>1
    <2>8. OneValue(i)
        BY <2>5, <2>6, <2>7
    <2> QED
        BY <1>3, <2>8
<1> QED
    BY <1>5, <1>6

\* The longest run is one of them.
LEMMA LongestRun ==
    ASSUME NEW s \in Seq(Symbol), NEW C \in Nat, 1 <= C
    PROVE  Health!MaxRun(s) < C <=> \A e \in 1 .. Len(s) : Health!Run(s)[e] < C
<1>1. PICK g : g = Health!Run(s) /\ RunAt(s, g)
    BY RunComputed
<1> DEFINE S == {g[i] : i \in 1 .. Len(s)} \cup {0}
           T == {n \in Nat : \A x \in S : x <= n}
<1>2. S \subseteq Nat /\ 0 \in S /\ \A e \in 1 .. Len(s) : g[e] \in S
    BY <1>1, SMTT(30) DEF RunAt
<1>3. Health!MaxRun(s) = CHOOSE x \in S : \A y \in S : x >= y
    <2>1. DOMAIN s = 1 .. Len(s)
        OBVIOUS
    <2>2. Health!MaxRun(s) = Health!Max({Health!Run(s)[i] : i \in DOMAIN s} \cup {0})
        BY DEF Health!MaxRun
    <2>3. Health!MaxRun(s) = Health!Max(S)
        BY <1>1, <2>1, <2>2
    <2> HIDE DEF S
    <2> QED
        BY <2>3 DEF Health!Max
<1>4. Len(s) \in T
    <2> SUFFICES ASSUME NEW x \in S PROVE x <= Len(s)
        OBVIOUS
    <2>1. ASSUME NEW i \in 1 .. Len(s) PROVE g[i] <= Len(s)
        <3>1. g[i] \in 1 .. i
            BY <1>1, RunsAreRuns
        <3> QED
            BY <3>1
    <2> QED
        BY <2>1
<1>5. \A n \in T : n \in Nat /\ \A x \in S : x <= n
    OBVIOUS
<1>6. \A n \in Nat : n \notin T => \E x \in S : ~(x <= n)
    OBVIOUS
<1> HIDE DEF S, T
<1>7. PICK n \in T : \A k \in T : n <= k
    <2>1. T \subseteq Nat
        BY <1>5
    <2> QED
        BY <1>4, <2>1, LeastNumber
<1>8. n \in S
    <2> SUFFICES ASSUME n \notin S PROVE FALSE
        OBVIOUS
    <2>1. n # 0 /\ n \in Nat
        BY <1>2, <1>5, <1>7
    <2>2. n - 1 \in Nat /\ n - 1 \notin T
        BY <1>7, <2>1
    <2>3. PICK x \in S : ~(x <= n - 1)
        BY <1>6, <2>2
    <2> QED
        BY <1>2, <1>5, <1>7, <2>1, <2>3
<1>9. \A y \in S : n >= y
    BY <1>2, <1>5, <1>7
<1>10. Health!MaxRun(s) \in S /\ \A y \in S : Health!MaxRun(s) >= y
    BY <1>3, <1>8, <1>9
<1>11. CASE Health!MaxRun(s) < C
    <2>1. PICK x \in Nat : x = Health!MaxRun(s)
        BY <1>2, <1>10
    <2>2. \A e \in 1 .. Len(s) : g[e] \in Nat /\ x >= g[e]
        BY <1>2, <1>10, <2>1
    <2>3. \A e \in 1 .. Len(s) : g[e] < C
        BY <1>11, <2>1, <2>2
    <2> QED
        BY <1>1, <1>11, <2>3
<1>12. CASE \A e \in 1 .. Len(s) : Health!Run(s)[e] < C
    BY <1>1, <1>10, <1>12 DEF S
<1> QED
    BY <1>11, <1>12


\* A number is rounded up to a multiple.
LEMMA NextMultiple ==
    ASSUME NEW m \in Nat, NEW w \in Nat \ {0}
    PROVE  \E k \in Nat : m <= k * w /\ k * w < m + w /\ k <= k * w
<1> DEFINE k == (m + w - 1) \div w
<1>1. m + w - 1 \in Nat
    OBVIOUS
<1>2. k \in Nat /\ k * w <= m + w - 1 /\ m + w - 1 < k * w + w
    BY <1>1
<1>3. k * w \in Nat /\ k <= k * w
    <2> HIDE DEF k
    <2> QED
        BY <1>2
<1> QED
    BY <1>2, <1>3

\* A source that sticks has a run as long, and only such a source.
LEMMA RepetitionFound ==
    ASSUME NEW s \in Seq(Symbol), NEW C \in Nat, 1 <= C
    PROVE  Health!MaxRun(s) < C <=> ~Health!Stuck(s, C)
<1>0. Len(s) \in Nat
    OBVIOUS
<1>1. PICK g : g = Health!Run(s) /\ RunAt(s, g)
    BY RunComputed
<1>2. ASSUME Health!Stuck(s, C) PROVE \E e \in 1 .. Len(s) : ~(g[e] < C)
    <2>1. PICK i \in 1 .. Len(s) : /\ i + C - 1 <= Len(s)
                                   /\ \A j \in i .. i + C - 1 : s[j] = s[i]
        BY <1>2 DEF Health!Stuck
    <2>2. PICK e \in 1 .. Len(s) : e = i + C - 1
        BY <1>0, <2>1
    <2>3. PICK r \in Nat : r = g[e] /\ 1 <= r /\ r <= e /\ (r < e => s[e - r] # s[e])
        BY <1>1, RunsAreRuns
    <2>4. r >= C
        <3> SUFFICES ASSUME r < C PROVE FALSE
            BY <2>3
        <3>1. e - r \in i .. i + C - 1 /\ r < e /\ e \in i .. i + C - 1
            BY <1>0, <2>2, <2>3
        <3>2. s[e - r] = s[i] /\ s[e] = s[i]
            BY <2>1, <3>1
        <3> QED
            BY <2>3, <3>1, <3>2
    <2> QED
        BY <2>3, <2>4
<1>3. ASSUME NEW e \in 1 .. Len(s), ~(g[e] < C) PROVE Health!Stuck(s, C)
    <2>1. PICK r \in Nat : /\ r = g[e] /\ 1 <= r /\ r <= e
                           /\ \A j \in (e - r + 1) .. e : s[j] = s[e]
        BY <1>1, RunsAreRuns
    <2>2. PICK i \in Nat : i = e - C + 1 /\ i \in 1 .. Len(s) /\ i + C - 1 = e /\ i >= e - r + 1
        BY <1>0, <1>3, <2>1
    <2>3. \A j \in i .. e : s[j] = s[e]
        BY <2>1, <2>2
    <2>4. i \in i .. e
        BY <2>2
    <2>5. \A j \in i .. i + C - 1 : s[j] = s[i]
        BY <2>2, <2>3, <2>4
    <2> QED
        BY <2>2, <2>5 DEF Health!Stuck
<1> QED
    BY <1>1, <1>2, <1>3, LongestRun

\* Two windows' worth of one value, but for one sample, has a whole window in it.
LEMMA ProportionFound ==
    ASSUME NEW s \in Seq(Symbol), Health!Stuck(s, 2 * Window - 1)
    PROVE  ~Health!AdaptiveProportionTest(s)
<1>0. Len(s) \in Nat /\ Window \in Nat /\ 1 <= Window /\ AptCutoff \in Nat /\ AptCutoff <= Window
    BY TestAssumption
<1>1. PICK i \in 1 .. Len(s) :
          /\ i + (2 * Window - 1) - 1 <= Len(s)
          /\ \A j \in i .. i + (2 * Window - 1) - 1 : s[j] = s[i]
    BY DEF Health!Stuck
<1>2. PICK k \in Nat : i - 1 <= k * Window /\ k * Window < i - 1 + Window /\ k <= k * Window
    <2>1. i - 1 \in Nat /\ Window \in Nat \ {0}
        BY <1>0
    <2> QED
        BY <2>1, NextMultiple
<1>3. PICK m \in Nat : m = k * Window
    BY <1>0
<1>4. (k + 1) * Window = m + Window
    BY <1>0, <1>3
<1>5. k \in 0 .. Len(s) /\ m + Window <= Len(s)
    BY <1>0, <1>1, <1>2, <1>3
<1>6. m + 1 \in Health!WindowStarts(s)
    <2>1. k \in {kk \in 0 .. Len(s) : (kk + 1) * Window <= Len(s)}
        BY <1>4, <1>5
    <2> QED
        BY <1>3, <2>1 DEF Health!WindowStarts
<1>7. \A j \in m + 1 .. m + 1 + Window - 1 : s[j] = s[m + 1]
    <2>1. \A j \in m + 1 .. m + 1 + Window - 1 : j \in i .. i + (2 * Window - 1) - 1
        BY <1>0, <1>2, <1>3
    <2>2. m + 1 \in i .. i + (2 * Window - 1) - 1
        BY <1>0, <1>2, <1>3
    <2> QED
        BY <1>1, <2>1, <2>2
<1>8. {j \in m + 1 .. m + 1 + Window - 1 : s[j] = s[m + 1]} = m + 1 .. m + 1 + Window - 1
    BY <1>7
<1>9. Cardinality(m + 1 .. m + 1 + Window - 1) = Window
    <2>1. PICK a \in Int, b \in Int : a = m + 1 /\ b = m + 1 + Window - 1
        BY <1>0
    <2>2. Cardinality(a .. b) = IF a > b THEN 0 ELSE b - a + 1
        BY FS_Interval
    <2> QED
        BY <1>0, <2>1, <2>2
<1>10. Health!Cardinality(m + 1 .. m + 1 + Window - 1) = Window
    BY <1>9 DEF Health!Cardinality, Cardinality
<1>11. ~(Health!Cardinality({j \in m + 1 .. m + 1 + Window - 1 : s[j] = s[m + 1]}) < AptCutoff)
    <2>1. Health!Cardinality({j \in m + 1 .. m + 1 + Window - 1 : s[j] = s[m + 1]}) = Window
        BY <1>8, <1>10, Zenon
    <2>2. ~(Window < AptCutoff)
        BY <1>0
    <2> QED
        BY <2>1, <2>2, Zenon
<1> QED
    BY <1>6, <1>11 DEF Health!AdaptiveProportionTest

\* So every source that sticks is found.
LEMMA HealthSafe == samples \in Seq(Symbol) => Health!StuckSourcesFound
<1> SUFFICES ASSUME samples \in Seq(Symbol) PROVE Health!StuckSourcesFound
    OBVIOUS
<1>1. PICK s \in Seq(Symbol) : s = samples
    OBVIOUS
<1>2. RctCutoff \in Nat /\ 1 <= RctCutoff
    BY TestAssumption
<1>3. Health!RepetitionCountTest(s) <=> ~Health!Stuck(s, RctCutoff)
    BY <1>2, RepetitionFound DEF Health!RepetitionCountTest
<1>4. Health!Stuck(s, 2 * Window - 1) => ~Health!AdaptiveProportionTest(s)
    BY ProportionFound
<1> QED
    BY <1>1, <1>3, <1>4 DEF Health!StuckSourcesFound

\* Samples are appended, and nothing else happens to them.
LEMMA SamplesInductive ==
    /\ Health!Init => samples \in Seq(Symbol)
    /\ samples \in Seq(Symbol) /\ [Health!Next]_samples => samples' \in Seq(Symbol)
<1>1. Health!Init => samples \in Seq(Symbol)
    BY DEF Health!Init
<1>2. ASSUME samples \in Seq(Symbol), [Health!Next]_samples PROVE samples' \in Seq(Symbol)
    BY <1>2 DEF Health!Next, Health!Sample
<1> QED
    BY <1>1, <1>2

-----------------------------------------------------------------------------
(* HmacDrbg: no block is handed out twice.                                 *)

\* The keys of the DRBG, and its blocks.
DrbgKey == Seq(Nat \X Nat)
DrbgBlock == [key : DrbgKey, n : Nat]

\* What a sequence that was appended to another is.
LEMMA Joined ==
    ASSUME NEW S, NEW s \in Seq(S), NEW t \in Seq(S)
    PROVE  /\ s \o t \in Seq(S) /\ Len(s \o t) = Len(s) + Len(t)
           /\ DOMAIN (s \o t) = 1 .. Len(s) + Len(t) /\ DOMAIN s = 1 .. Len(s) /\ Len(s) \in Nat
           /\ \A i \in DOMAIN (s \o t) :
                /\ (s \o t)[i] \in S
                /\ (s \o t)[i] = IF i <= Len(s) THEN s[i] ELSE t[i - Len(s)]
<1>1. s \o t \in Seq(S) /\ Len(s \o t) = Len(s) + Len(t)
    OBVIOUS
<1>2. \A i \in 1 .. Len(s) + Len(t) : (s \o t)[i] = IF i <= Len(s) THEN s[i] ELSE t[i - Len(s)]
    OBVIOUS
<1>3. DOMAIN (s \o t) = 1 .. Len(s) + Len(t)
    BY <1>1
<1>4. \A i \in DOMAIN (s \o t) : (s \o t)[i] \in S
    BY <1>1
<1> QED
    BY <1>1, <1>2, <1>3, <1>4

\* Each update makes the key longer, and no block is under a key to come.
LEMMA DrbgInductive ==
    /\ Drbg!Init => Drbg!DrbgInv
    /\ Drbg!DrbgInv /\ [Drbg!Next]_(Drbg!vars) => Drbg!DrbgInv'
<1>1. ASSUME Drbg!Init PROVE Drbg!DrbgInv
    <2>1. PICK seed \in Nat : K = << <<0, seed>> >>
        BY <1>1, SeedAssumption DEF Drbg!Init
    <2>2. K \in Seq(Nat \X Nat)
        BY <2>1
    <2>3. V = [key |-> K, n |-> 0] /\ out = << >>
        BY <1>1 DEF Drbg!Init
    <2> QED
        BY <2>2, <2>3 DEF Drbg!DrbgInv
<1>2. ASSUME Drbg!DrbgInv, [Drbg!Next]_(Drbg!vars) PROVE Drbg!DrbgInv'
    <2>1. /\ K \in DrbgKey /\ V = [key |-> K, n |-> 0] /\ V.n = 0 /\ out \in Seq(DrbgBlock)
          /\ \A i \in DOMAIN out : Len(out[i].key) < Len(K) /\ out[i] \in DrbgBlock
          /\ \A i, j \in DOMAIN out : out[i] = out[j] => i = j
        <3>1. K \in DrbgKey /\ V = [key |-> K, n |-> 0] /\ out \in Seq(DrbgBlock)
            BY <1>2 DEF Drbg!DrbgInv, DrbgKey, DrbgBlock
        <3>2. \A i \in DOMAIN out : out[i] \in DrbgBlock
            BY <3>1
        <3> QED
            BY <1>2, <3>1, <3>2 DEF Drbg!DrbgInv
    <2>2. CASE \E seed \in Seed : Drbg!Reseed(seed)
        <3>1. PICK seed \in Nat : Drbg!Reseed(seed)
            BY <2>2, SeedAssumption
        <3>2. K' = Append(K, <<0, seed>>) /\ V' = [key |-> K', n |-> 0] /\ out' = out
            BY <2>1, <3>1 DEF Drbg!Reseed, Drbg!ReseedKey, Drbg!KeyAfter
        <3>3. K' \in DrbgKey /\ Len(K') = Len(K) + 1 /\ Len(K) \in Nat
            BY <2>1, <3>2 DEF DrbgKey
        <3>4. \A i \in DOMAIN out' : Len(out'[i].key) < Len(K')
            BY <2>1, <3>2, <3>3 DEF DrbgBlock, DrbgKey
        <3> QED
            BY <2>1, <3>2, <3>3, <3>4 DEF Drbg!DrbgInv, DrbgKey, DrbgBlock
    <2>3. CASE \E blocks \in 1 .. MaxBlocks : Drbg!Generate(blocks)
        <3>1. PICK blocks \in Nat : Drbg!Generate(blocks)
            BY <2>3, SeedAssumption
        <3> DEFINE B == [i \in 1 .. blocks |-> [key |-> K, n |-> i]]
        <3>2. /\ out' = out \o B /\ K' = Append(K, <<blocks, 0>>)
              /\ V' = [key |-> K', n |-> 0]
            BY <2>1, <3>1 DEF Drbg!Generate, Drbg!KeyAfter
        <3>3. K' \in DrbgKey /\ Len(K') = Len(K) + 1 /\ Len(K) \in Nat
            BY <2>1, <3>2 DEF DrbgKey
        <3>4. B \in Seq(DrbgBlock) /\ Len(B) = blocks
            BY <2>1 DEF DrbgBlock
        <3>5. \A i \in 1 .. blocks : B[i].key = K /\ B[i].n = i
            OBVIOUS
        <3> HIDE DEF B
        <3>6. /\ out' \in Seq(DrbgBlock) /\ Len(out') = Len(out) + blocks /\ Len(out) \in Nat
              /\ DOMAIN out = 1 .. Len(out) /\ DOMAIN out' = 1 .. Len(out) + blocks
              /\ \A i \in DOMAIN out' : /\ out'[i] = IF i <= Len(out) THEN out[i] ELSE B[i - Len(out)]
                                        /\ out'[i] \in DrbgBlock
            <4>1. PICK s \in Seq(DrbgBlock), t \in Seq(DrbgBlock) : s = out /\ t = B
                BY <2>1, <3>4
            <4>2. out' = s \o t /\ Len(t) = blocks
                BY <3>2, <3>4, <4>1
            <4>3. /\ s \o t \in Seq(DrbgBlock) /\ Len(s \o t) = Len(s) + Len(t)
                  /\ DOMAIN (s \o t) = 1 .. Len(s) + Len(t)
                  /\ DOMAIN s = 1 .. Len(s) /\ Len(s) \in Nat
                  /\ \A i \in DOMAIN (s \o t) :
                       /\ (s \o t)[i] \in DrbgBlock
                       /\ (s \o t)[i] = IF i <= Len(s) THEN s[i] ELSE t[i - Len(s)]
                BY Joined, Zenon
            <4> QED
                BY <4>1, <4>2, <4>3
        <3>7. ASSUME NEW i \in DOMAIN out'
              PROVE  \/ i \in DOMAIN out /\ out'[i] = out[i] /\ Len(out'[i].key) < Len(K)
                     \/ i \notin DOMAIN out /\ out'[i].key = K /\ out'[i].n = i - Len(out)
            <4>1. CASE i <= Len(out)
                BY <2>1, <3>6, <4>1
            <4>2. CASE i > Len(out)
                <5>1. PICK l \in Nat, k \in Nat : l = Len(out) /\ k = i /\ k <= l + blocks
                    <6>1. i \in 1 .. Len(out) + blocks /\ Len(out) \in Nat
                        BY <3>6
                    <6> QED
                        BY <6>1
                <5>2. k - l \in 1 .. blocks /\ k \notin 1 .. l
                    BY <4>2, <5>1
                <5>3. i - Len(out) \in 1 .. blocks /\ i \notin DOMAIN out
                    BY <3>6, <5>1, <5>2
                <5>4. out'[i] = B[i - Len(out)]
                    BY <3>6, <4>2
                <5> QED
                    BY <3>5, <5>3, <5>4
            <4> QED
                BY <3>6, <4>1, <4>2
        <3>8. \A i \in DOMAIN out' : Len(out'[i].key) < Len(K')
            <4> SUFFICES ASSUME NEW i \in DOMAIN out' PROVE Len(out'[i].key) < Len(K')
                OBVIOUS
            <4>1. out'[i].key \in DrbgKey
                <5>1. out'[i] \in DrbgBlock
                    BY <3>6
                <5> QED
                    BY <5>1 DEF DrbgBlock
            <4>2. Len(out'[i].key) \in Nat
                BY <4>1 DEF DrbgKey
            <4> QED
                BY <3>3, <3>7, <4>2
        <3>9. \A i, j \in DOMAIN out' : out'[i] = out'[j] => i = j
            <4> SUFFICES ASSUME NEW i \in DOMAIN out', NEW j \in DOMAIN out', out'[i] = out'[j]
                         PROVE  i = j
                OBVIOUS
            <4>1. CASE i \in DOMAIN out /\ j \in DOMAIN out
                BY <2>1, <3>7, <4>1
            <4>2. CASE i \notin DOMAIN out /\ j \notin DOMAIN out
                <5>1. i - Len(out) = j - Len(out)
                    BY <3>7, <4>2
                <5> QED
                    BY <3>6, <5>1
            <4>3. (i \in DOMAIN out) <=> (j \in DOMAIN out)
                BY <3>3, <3>7
            <4> QED
                BY <4>1, <4>2, <4>3
        <3> QED
            BY <3>2, <3>3, <3>6, <3>8, <3>9 DEF Drbg!DrbgInv, DrbgKey, DrbgBlock
    <2>4. CASE UNCHANGED Drbg!vars
        BY <1>2, <2>4 DEF Drbg!vars, Drbg!DrbgInv
    <2> QED
        BY <1>2, <2>2, <2>3, <2>4 DEF Drbg!Next
<1> QED
    BY <1>1, <1>2

\* So a block can be computed once.
LEMMA DrbgSafe == Drbg!DrbgInv => Drbg!BlocksUsedOnce
<1> SUFFICES ASSUME Drbg!DrbgInv PROVE Drbg!BlocksUsedOnce
    OBVIOUS
<1>1. \A i \in DOMAIN out : out[i].key # K
    <2>1. Len(K) \in Nat
        BY DEF Drbg!DrbgInv
    <2> QED
        BY <2>1 DEF Drbg!DrbgInv
<1> QED
    BY <1>1 DEF Drbg!BlocksUsedOnce, Drbg!DrbgInv

-----------------------------------------------------------------------------
(* SamplingPool: no byte of the pool is handed out twice.                  *)

\* What was taken, and what is drawn next.
TakeRecord == [fill : Int, from : Nat, length : Nat]
Limit == 2 .. MaxLimit \cup 2 .. MaxDeck
DrawKind == [kind : {"int", "bigint"}, max : Limit]

\* The smallest of a set that has one.
LEMMA SmallestIs ==
    ASSUME NEW S, S \subseteq Nat, S # {}
    PROVE  Pool!Smallest(S) \in S /\ \A j \in S : Pool!Smallest(S) <= j
<1>1. PICK k \in S : \A j \in S : k <= j
    BY LeastNumber
<1> QED
    BY <1>1 DEF Pool!Smallest

\* Powers of two are computed by doubling.
LEMMA PowersDouble ==
    /\ Pool!TwoTo[0] = 1
    /\ \A n \in Nat : Pool!TwoTo[n + 1] = 2 * Pool!TwoTo[n]
    /\ \A n \in Nat : Pool!TwoTo[n] \in Nat \ {0}
<1> DEFINE Body(f) == [n \in Nat |-> IF n = 0 THEN 1 ELSE 2 * f[n - 1]]
           twice == [x \in Nat \X Nat |-> 2 * x[2]]
           Doubling(m, g) == Computes(Nat, m + 1, 1, twice, g)
           some(m) == CHOOSE g : Doubling(m, g)
           f == [n \in Nat |-> some(n)[n + 1]]
<1>1. ASSUME NEW m \in Nat PROVE Doubling(m, some(m))
    <2>1. twice \in [Nat \X Nat -> Nat]
        OBVIOUS
    <2>2. \E g : Doubling(m, g)
        <3>1. m + 1 \in Nat /\ 1 \in Nat
            OBVIOUS
        <3> HIDE DEF twice
        <3>2. \E g : Computes(Nat, m + 1, 1, twice, g)
            BY <2>1, <3>1, Computed, Zenon
        <3> QED
            BY <3>2
    <2> HIDE DEF Doubling
    <2> QED
        BY <2>2
<1> HIDE DEF some
<1>2. ASSUME NEW m \in Nat
      PROVE  /\ \A i \in 0 .. m : some(m)[i + 1] \in Nat
             /\ some(m)[0 + 1] = 1
             /\ \A i \in 1 .. m : some(m)[i + 1] = 2 * some(m)[i]
    <2> DEFINE g == some(m)
    <2>1. g \in [1 .. m + 1 -> Nat] /\ g[1] = 1
        <3>1. Computes(Nat, m + 1, 1, twice, g)
            BY <1>1
        <3>2. 1 \in 1 .. m + 1
            OBVIOUS
        <3> HIDE DEF g, twice
        <3> QED
            BY <3>1, <3>2 DEF Computes
    <2>2. ASSUME NEW i \in 1 .. m PROVE g[i + 1] = 2 * g[i]
        <3>1. i + 1 \in 1 .. m + 1 /\ i + 1 # 1 /\ (i + 1) - 1 = i /\ i \in 1 .. m + 1
            OBVIOUS
        <3>2. g[i + 1] = twice[<<i + 1, g[i]>>]
            BY <1>1, <3>1 DEF Computes
        <3>3. g[i] \in Nat
            BY <2>1, <3>1
        <3> QED
            BY <3>1, <3>2, <3>3
    <2> HIDE DEF g
    <2>3. \A i \in 0 .. m : g[i + 1] \in Nat
        BY <2>1
    <2> QED
        BY <2>1, <2>2, <2>3 DEF g
<1>3. ASSUME NEW m \in Nat PROVE \A i \in 0 .. m : some(m)[i + 1] = some(m + 1)[i + 1]
    <2> DEFINE P == {i \in 0 .. m : some(m)[i + 1] = some(m + 1)[i + 1]}
    <2>0. m + 1 \in Nat /\ \A i \in 1 .. m : i \in 1 .. m + 1
        OBVIOUS
    <2>1. 0 \in P
        BY <1>2, <2>0
    <2>2. ASSUME NEW i \in 1 .. m, i - 1 \in P PROVE i \in P
        <3>1. some(m)[(i - 1) + 1] = some(m + 1)[(i - 1) + 1] /\ (i - 1) + 1 = i
            BY <2>2
        <3>2. some(m)[i + 1] = 2 * some(m)[i] /\ some(m + 1)[i + 1] = 2 * some(m + 1)[i]
            BY <1>2, <2>0
        <3> QED
            BY <3>1, <3>2
    <2>3. \A i \in 0 .. m : i \in P
        <3> HIDE DEF P
        <3> QED
            BY <2>1, <2>2, UpTo
    <2> QED
        BY <2>3
<1>4. \A n \in Nat : f[n] = some(n)[n + 1] /\ f[n] \in Nat
    BY <1>2
<1>5. ASSUME NEW n \in Nat PROVE f[n + 1] = 2 * f[n]
    <2>1. n + 1 \in Nat /\ n + 1 \in 1 .. n + 1 /\ n \in 0 .. n
        OBVIOUS
    <2>2. some(n + 1)[(n + 1) + 1] = 2 * some(n + 1)[n + 1]
        BY <1>2, <2>1
    <2>3. some(n + 1)[n + 1] = some(n)[n + 1]
        BY <1>3, <2>1
    <2> HIDE DEF f
    <2> QED
        BY <1>4, <2>1, <2>2, <2>3
<1>6. f[0] = 1
    BY <1>2, <1>4
<1>7. f = Body(f)
    <2>1. ASSUME NEW n \in Nat PROVE f[n] = IF n = 0 THEN 1 ELSE 2 * f[n - 1]
        <3>1. CASE n = 0
            BY <1>6, <3>1
        <3>2. CASE n # 0
            <4>1. n - 1 \in Nat /\ (n - 1) + 1 = n
                BY <3>2
            <4> HIDE DEF f
            <4> QED
                BY <1>5, <3>2, <4>1
        <3> QED
            BY <3>1, <3>2
    <2>2. f = [n \in Nat |-> f[n]]
        OBVIOUS
    <2> HIDE DEF f
    <2> QED
        BY <2>1, <2>2
<1> DEFINE g == Pool!TwoTo
<1>8. g = Body(g)
    <2>1. g = CHOOSE h : h = Body(h)
        BY DEF Pool!TwoTo
    <2> HIDE DEF f, g, Body
    <2> QED
        BY <1>7, <2>1
<1> HIDE DEF g
<1>9. g[0] = 1
    BY <1>8
<1>10. \A n \in Nat : g[n + 1] = 2 * g[n]
    BY <1>8
<1>11. \A n \in Nat : g[n] \in Nat \ {0}
    <2> SUFFICES ASSUME NEW n \in Nat PROVE g[n] \in Nat \ {0}
        OBVIOUS
    <2> DEFINE P == {i \in 0 .. n : g[i] \in Nat \ {0}}
    <2>1. 0 \in P
        BY <1>9
    <2>2. ASSUME NEW i \in 1 .. n, i - 1 \in P PROVE i \in P
        <3>1. g[i] = 2 * g[i - 1] /\ g[i - 1] \in Nat \ {0}
            <4>1. i - 1 \in Nat /\ (i - 1) + 1 = i
                OBVIOUS
            <4>2. g[(i - 1) + 1] = 2 * g[i - 1]
                BY <1>10, <4>1
            <4> QED
                BY <2>2, <4>1, <4>2
        <3> QED
            BY <3>1
    <2>3. n \in P
        <3> HIDE DEF P
        <3> QED
            BY <2>1, <2>2, UpTo
    <2> QED
        BY <2>3
<1> QED
    BY <1>9, <1>10, <1>11 DEF g

\* A number is less than its power.
LEMMA PowersGrow ==
    ASSUME NEW n \in Nat
    PROVE  n < Pool!TwoTo[n]
<1> DEFINE P == {i \in 0 .. n : i < Pool!TwoTo[i]}
<1>1. 0 \in P
    BY PowersDouble
<1>2. ASSUME NEW i \in 1 .. n, i - 1 \in P PROVE i \in P
    <2>1. i - 1 \in Nat /\ (i - 1) + 1 = i
        OBVIOUS
    <2>2. Pool!TwoTo[i] = 2 * Pool!TwoTo[i - 1] /\ Pool!TwoTo[i - 1] \in Nat \ {0}
        BY <2>1, PowersDouble
    <2>3. i - 1 < Pool!TwoTo[i - 1]
        BY <1>2
    <2> QED
        BY <2>1, <2>2, <2>3
<1>3. n \in P
    <2> HIDE DEF P
    <2> QED
        BY <1>1, <1>2, UpTo
<1> QED
    BY <1>3

\* Powers multiply: a number of bits more takes it to a multiple.
LEMMA PowersMultiply ==
    ASSUME NEW a \in Nat, NEW b \in Nat
    PROVE  Pool!TwoTo[a + b] = Pool!TwoTo[a] * Pool!TwoTo[b]
<1> DEFINE P == {i \in 0 .. b : Pool!TwoTo[a + i] = Pool!TwoTo[a] * Pool!TwoTo[i]}
<1>1. 0 \in P
    BY PowersDouble
<1>2. ASSUME NEW i \in 1 .. b, i - 1 \in P PROVE i \in P
    <2>1. /\ i - 1 \in Nat /\ (i - 1) + 1 = i
          /\ a + (i - 1) \in Nat /\ (a + (i - 1)) + 1 = a + i
        OBVIOUS
    <2>2. Pool!TwoTo[i] = 2 * Pool!TwoTo[i - 1] /\ Pool!TwoTo[i - 1] \in Nat
        BY <2>1, PowersDouble
    <2>3. Pool!TwoTo[a + i] = 2 * Pool!TwoTo[a + (i - 1)]
        BY <2>1, PowersDouble
    <2>4. Pool!TwoTo[a + (i - 1)] = Pool!TwoTo[a] * Pool!TwoTo[i - 1]
        BY <1>2
    <2>5. \A x, y \in Nat : 2 * (x * y) = x * (2 * y)
        OBVIOUS
    <2>6. Pool!TwoTo[a] \in Nat
        BY PowersDouble
    <2> QED
        BY <2>2, <2>3, <2>4, <2>5, <2>6
<1>3. b \in P
    <2> HIDE DEF P
    <2> QED
        BY <1>1, <1>2, UpTo
<1> QED
    BY <1>3

\* The bytes of a draw have at least as many values as its limit.
LEMMA BytesEnough ==
    ASSUME NEW m \in Limit
    PROVE  /\ m \in Nat /\ 2 <= m
           /\ Pool!BytesNeeded(m) \in Nat
           /\ m <= Pool!TwoTo[ByteBits * Pool!BytesNeeded(m)]
<1> DEFINE bytes == {k \in 1 .. 6 : Pool!TwoTo[ByteBits * k] >= m}
<1>1. m \in Nat /\ 2 <= m /\ m <= Pool!TwoTo[ByteBits * 6]
    BY PoolAssumption DEF Limit
<1>2. bytes \subseteq Nat /\ 6 \in bytes
    <2>1. ByteBits * 6 \in Nat
        BY PoolAssumption
    <2>2. Pool!TwoTo[ByteBits * 6] \in Nat
        BY <2>1, PowersDouble
    <2> QED
        BY <1>1, <2>2
<1>3. Pool!BytesNeeded(m) = Pool!Smallest(bytes)
    BY DEF Pool!BytesNeeded
<1>4. Pool!Smallest(bytes) \in bytes
    <2> HIDE DEF bytes
    <2> QED
        BY <1>2, SmallestIs
<1>5. PICK k \in 1 .. 6 : k = Pool!Smallest(bytes) /\ Pool!TwoTo[ByteBits * k] >= m
    BY <1>4
<1>6. Pool!TwoTo[ByteBits * k] \in Nat
    <2>1. ByteBits * k \in Nat
        BY PoolAssumption
    <2> QED
        BY <2>1, PowersDouble
<1> HIDE DEF bytes
<1> QED
    BY <1>1, <1>3, <1>5, <1>6

\* The bits of a limit have more values than the limit, but not twice as many.
LEMMA BitsEnough ==
    ASSUME NEW m \in Nat, 2 <= m
    PROVE  /\ Pool!BitLength(m) \in Nat \ {0}
           /\ m < Pool!TwoTo[Pool!BitLength(m)]
           /\ Pool!TwoTo[Pool!BitLength(m)] <= 2 * m
<1> DEFINE bits == {b \in 1 .. m : Pool!TwoTo[b] > m}
<1>1. bits \subseteq Nat /\ m \in bits
    <2>1. Pool!TwoTo[m] \in Nat /\ m < Pool!TwoTo[m]
        BY PowersDouble, PowersGrow
    <2> QED
        BY <2>1
<1>2. Pool!BitLength(m) = Pool!Smallest(bits)
    BY DEF Pool!BitLength
<1>3. Pool!Smallest(bits) \in bits /\ \A j \in bits : Pool!Smallest(bits) <= j
    <2> HIDE DEF bits
    <2> QED
        BY <1>1, SmallestIs
<1>4. PICK b \in 1 .. m : b = Pool!Smallest(bits) /\ Pool!TwoTo[b] > m
    BY <1>3
<1>5. b - 1 \in Nat /\ (b - 1) + 1 = b
    BY <1>4
<1>6. /\ Pool!TwoTo[b] = 2 * Pool!TwoTo[b - 1]
      /\ Pool!TwoTo[b] \in Nat /\ Pool!TwoTo[b - 1] \in Nat
    BY <1>5, PowersDouble
<1>7. b # 1
    <2>1. CASE b = 1
        <3>1. b - 1 = 0
            BY <2>1
        <3> QED
            BY <1>4, <1>6, <3>1, PowersDouble
    <2> QED
        BY <2>1
<1>8. b - 1 \in 1 .. m /\ b - 1 \notin bits
    <2>1. b - 1 \in 1 .. m
        BY <1>5, <1>7
    <2>2. \A j \in bits : b <= j
        BY <1>3, <1>4
    <2> HIDE DEF bits
    <2> QED
        BY <2>1, <2>2
<1>9. Pool!TwoTo[b - 1] <= m
    BY <1>6, <1>8
<1> HIDE DEF bits
<1> QED
    BY <1>2, <1>4, <1>6, <1>9

\* Whole bytes hold the bits.
LEMMA WidthEnough ==
    ASSUME NEW b \in Nat, NEW w \in Nat \ {0}
    PROVE  (b + w - 1) \div w \in Nat /\ b <= w * ((b + w - 1) \div w)
<1>1. PICK a \in Nat : a = b + w - 1
    OBVIOUS
<1>2. a \div w \in Nat /\ a = w * (a \div w) + (a % w) /\ a % w \in 0 .. w - 1
    BY <1>1
<1>3. w * (a \div w) \in Nat
    BY <1>2
<1> QED
    BY <1>1, <1>2, <1>3

\* A turn of a loop takes a number of bytes.
LEMMA WidthIsNumber ==
    ASSUME NEW d \in DrawKind
    PROVE  Pool!Width(d) \in Nat
<1>1. PICK m \in Limit : m = d.max
    BY DEF DrawKind
<1>2. Pool!BytesNeeded(m) \in Nat
    BY BytesEnough
<1>3. (Pool!BitLength(m) + ByteBits - 1) \div ByteBits \in Nat
    <2>1. Pool!BitLength(m) \in Nat
        BY BytesEnough, BitsEnough
    <2> QED
        BY <2>1, WidthEnough, PoolAssumption
<1> QED
    BY <1>1, <1>2, <1>3 DEF Pool!Width

\* The fill that the pool holds is that of what was taken from it last.
LEMMA FillAfter ==
    ASSUME taken \in Seq(TakeRecord), NEW t \in TakeRecord, taken' = Append(taken, t)
    PROVE  Pool!Fill' = IF t.fill >= 0 THEN t.fill ELSE Pool!Fill
<1> DEFINE pooled == {i \in DOMAIN taken : taken[i].fill >= 0}
           newest == CHOOSE i \in pooled : \A j \in pooled : j <= i
           next == Len(taken) + 1
<1>1. /\ Len(taken) \in Nat /\ DOMAIN taken = 1 .. Len(taken)
      /\ DOMAIN taken' = 1 .. next /\ taken'[next] = t
      /\ \A i \in DOMAIN taken : taken'[i] = taken[i]
    OBVIOUS
<1>2. CASE t.fill >= 0
    <2>1. pooled' = pooled \cup {next} /\ pooled \subseteq 1 .. Len(taken)
        BY <1>1, <1>2
    <2>2. newest' = next
        <3>1. next \in pooled' /\ \A j \in pooled' : j <= next
            BY <1>1, <2>1
        <3>2. newest' \in pooled' /\ \A j \in pooled' : j <= newest'
            BY <3>1
        <3>3. pooled' \subseteq Nat
            BY <1>1, <2>1
        <3> HIDE DEF pooled, newest
        <3> QED
            BY <1>1, <3>1, <3>2, <3>3
    <2>3. pooled' # {} /\ Pool!Fill' = taken'[newest'].fill
        BY <2>1 DEF Pool!Fill
    <2> QED
        BY <1>1, <1>2, <2>2, <2>3
<1>3. CASE ~(t.fill >= 0)
    <2>1. pooled' = pooled
        BY <1>1, <1>3
    <2>2. CASE pooled = {}
        BY <1>3, <2>1, <2>2 DEF Pool!Fill
    <2>3. CASE pooled # {}
        <3>1. newest \in pooled
            <4> DEFINE S == {Len(taken) - i : i \in pooled}
            <4>1. S \subseteq Nat /\ S # {}
                BY <1>1, <2>3
            <4>2. PICK x \in S : \A y \in S : x <= y
                <5> HIDE DEF S
                <5> QED
                    BY <4>1, LeastNumber
            <4>3. PICK k \in pooled : x = Len(taken) - k
                BY <4>2
            <4>4. \A j \in pooled : j <= k
                <5> SUFFICES ASSUME NEW j \in pooled PROVE j <= k
                    OBVIOUS
                <5>1. Len(taken) - k <= Len(taken) - j
                    BY <4>2, <4>3
                <5>2. j \in Nat /\ k \in Nat
                    BY <1>1
                <5> QED
                    BY <1>1, <5>1, <5>2
            <4> QED
                BY <4>4
        <3>2. newest' = newest
            BY <2>1
        <3>3. Pool!Fill = taken[newest].fill /\ Pool!Fill' = taken'[newest'].fill
            BY <2>1, <2>3 DEF Pool!Fill
        <3>4. newest \in DOMAIN taken
            BY <3>1
        <3> HIDE DEF newest
        <3> QED
            BY <1>1, <1>3, <3>2, <3>3, <3>4
    <2> QED
        BY <2>2, <2>3
<1> QED
    BY <1>2, <1>3

\* Whatever is taken, no byte of the pool is taken a second time.
LEMMA PoolTakes ==
    ASSUME Pool!PoolInv, NEW n \in Nat, Pool!Take(n)
    PROVE  /\ poolOffset' \in 0 .. PoolSize /\ taken' \in Seq(TakeRecord) /\ Pool!Fill' \in Nat
           /\ \A i \in DOMAIN taken' :
                taken'[i].fill >= 0 =>
                  /\ taken'[i].fill <= Pool!Fill'
                  /\ taken'[i].from + taken'[i].length <=
                       (IF taken'[i].fill = Pool!Fill' THEN poolOffset' ELSE PoolSize)
           /\ Pool!FreshBytes'
<1>0. /\ taken \in Seq(TakeRecord) /\ poolOffset \in Nat /\ poolOffset <= PoolSize
      /\ PoolSize \in Nat /\ Pool!Fill \in Nat
    BY PoolAssumption DEF Pool!PoolInv, TakeRecord
<1>1. PICK f \in Nat : f = Pool!Fill
    BY <1>0
<1>2. PICK t : /\ taken' = Append(taken, t)
               /\ \/ t = [fill |-> -1, from |-> 0, length |-> n] /\ poolOffset' = poolOffset
                  \/ /\ n < PoolSize /\ poolOffset + n > PoolSize
                     /\ t = [fill |-> f + 1, from |-> 0, length |-> n] /\ poolOffset' = n
                  \/ /\ n < PoolSize /\ poolOffset + n <= PoolSize
                     /\ t = [fill |-> f, from |-> poolOffset, length |-> n]
                     /\ poolOffset' = poolOffset + n
    <2>1. CASE /\ n >= PoolSize
               /\ taken' = Append(taken, Pool!Direct(n))
               /\ UNCHANGED poolOffset
        BY <2>1 DEF Pool!Direct
    <2>2. CASE /\ n < PoolSize
               /\ LET fill == IF Pool!MustRefill(n) THEN Pool!Fill + 1 ELSE Pool!Fill
                      from == IF Pool!MustRefill(n) THEN 0 ELSE poolOffset
                  IN  /\ taken' = Append(taken, [fill |-> fill, from |-> from, length |-> n])
                      /\ poolOffset' = from + n
        <3>1. CASE Pool!MustRefill(n)
            BY <1>0, <1>1, <2>2, <3>1 DEF Pool!MustRefill
        <3>2. CASE ~Pool!MustRefill(n)
            BY <1>0, <1>1, <2>2, <3>2 DEF Pool!MustRefill
        <3> QED
            BY <3>1, <3>2
    <2> QED
        BY <2>1, <2>2 DEF Pool!Take
<1>3. t \in TakeRecord
    BY <1>0, <1>1, <1>2 DEF TakeRecord
<1>4. Pool!Fill' = IF t.fill >= 0 THEN t.fill ELSE f
    BY <1>0, <1>1, <1>2, <1>3, FillAfter
<1>5. poolOffset' \in 0 .. PoolSize /\ Pool!Fill' \in Nat /\ f <= Pool!Fill'
    BY <1>0, <1>1, <1>2, <1>4
<1>6. /\ taken' \in Seq(TakeRecord) /\ Len(taken) \in Nat
      /\ DOMAIN taken = 1 .. Len(taken) /\ DOMAIN taken' = 1 .. Len(taken) + 1
      /\ taken'[Len(taken) + 1] = t
      /\ \A i \in DOMAIN taken : taken'[i] = taken[i] /\ taken[i] \in TakeRecord
    BY <1>0, <1>2, <1>3
<1>7. ASSUME NEW i \in DOMAIN taken, taken[i].fill >= 0
      PROVE  /\ taken[i].fill <= f
             /\ taken[i].from + taken[i].length <= PoolSize
             /\ taken[i].fill = f => taken[i].from + taken[i].length <= poolOffset
    <2>1. PICK b \in TakeRecord, e \in Nat : b = taken[i] /\ e = b.from + b.length
        BY <1>6, SMTT(30) DEF TakeRecord
    <2>2. b.fill <= f /\ e <= (IF b.fill = f THEN poolOffset ELSE PoolSize)
        BY <1>1, <1>7, <2>1 DEF Pool!PoolInv
    <2> QED
        BY <1>0, <2>1, <2>2
<1>8. ASSUME NEW i \in DOMAIN taken', taken'[i].fill >= 0
      PROVE  /\ taken'[i].fill <= Pool!Fill'
             /\ taken'[i].from + taken'[i].length <=
                  (IF taken'[i].fill = Pool!Fill' THEN poolOffset' ELSE PoolSize)
             /\ taken'[i].from + taken'[i].length <= PoolSize
    <2>1. CASE i \in DOMAIN taken
        <3>1. PICK b \in TakeRecord, e \in Nat :
                  b = taken[i] /\ b = taken'[i] /\ e = b.from + b.length
            BY <1>6, <2>1, SMTT(30) DEF TakeRecord
        <3>2. b.fill \in Int /\ b.fill >= 0
            BY <1>8, <3>1 DEF TakeRecord
        <3>3. b.fill <= f /\ e <= PoolSize /\ (b.fill = f => e <= poolOffset)
            BY <1>7, <2>1, <3>1, <3>2
        <3>4. b.fill = Pool!Fill' => b.fill = f /\ poolOffset <= poolOffset'
            BY <1>0, <1>2, <1>4, <3>2, <3>3
        <3> QED
            BY <1>0, <1>5, <3>1, <3>2, <3>3, <3>4
    <2>2. CASE i = Len(taken) + 1
        <3>1. taken'[i] = t /\ t.fill >= 0
            BY <1>6, <1>8, <2>2
        <3>2. Pool!Fill' = t.fill
            BY <1>4, <3>1
        <3>3. t.from + t.length = poolOffset'
            BY <1>0, <1>2, <3>1
        <3> QED
            BY <1>0, <1>3, <1>5, <3>1, <3>2, <3>3
    <2> QED
        BY <1>6, <2>1, <2>2
<1>9. ASSUME NEW i \in DOMAIN taken', NEW j \in DOMAIN taken', taken'[i].fill >= 0, i < j,
             taken'[i].fill = taken'[j].fill
      PROVE  taken'[i].from + taken'[i].length <= taken'[j].from
    <2>1. i \in DOMAIN taken
        BY <1>6, <1>9
    <2>2. CASE j \in DOMAIN taken
        BY <1>6, <1>9, <2>1, <2>2 DEF Pool!PoolInv, Pool!FreshBytes
    <2>3. CASE j = Len(taken) + 1
        <3>1. taken'[j] = t /\ taken'[i] = taken[i] /\ t.fill = taken[i].fill
            BY <1>6, <1>9, <2>1, <2>3
        <3>2. t.fill <= f /\ (t.fill = f => taken[i].from + taken[i].length <= poolOffset)
            BY <1>7, <1>9, <2>1, <3>1
        <3>3. t.fill >= 0
            BY <1>9, <3>1
        <3>4. t.fill = f /\ t.from = poolOffset
            BY <1>2, <3>2, <3>3
        <3> QED
            BY <3>1, <3>2, <3>4
    <2> QED
        BY <1>6, <2>2, <2>3
<1>10. Pool!FreshBytes'
    BY <1>8, <1>9 DEF Pool!FreshBytes
<1> QED
    BY <1>5, <1>6, <1>8, <1>10

\* Every step of the pool and of the samplers keeps it.
LEMMA PoolInductive ==
    /\ Pool!Init => Pool!PoolInv
    /\ Pool!PoolInv /\ [Pool!Next]_(Pool!vars) => Pool!PoolInv'
<1>1. ASSUME Pool!Init PROVE Pool!PoolInv
    <2>1. poolOffset = 0 /\ taken = << >> /\ pending = << >>
        BY <1>1 DEF Pool!Init
    <2>2. Pool!Fill = 0
        BY <2>1 DEF Pool!Fill
    <2> QED
        BY <2>1, <2>2, PoolAssumption DEF Pool!PoolInv, Pool!FreshBytes
<1>2. ASSUME Pool!PoolInv, [Pool!Next]_(Pool!vars) PROVE Pool!PoolInv'
    <2>0. pending \in Seq(DrawKind)
        BY <1>2 DEF Pool!PoolInv, DrawKind, Limit
    <2>1. ASSUME UNCHANGED <<poolOffset, taken>>, pending' \in Seq(DrawKind) PROVE Pool!PoolInv'
        BY <1>2, <2>1 DEF Pool!PoolInv, Pool!Fill, Pool!FreshBytes, DrawKind, Limit
    <2>2. ASSUME NEW n \in Nat, Pool!Take(n), pending' \in Seq(DrawKind) PROVE Pool!PoolInv'
        BY <1>2, <2>2, PoolTakes DEF Pool!PoolInv, DrawKind, Limit, TakeRecord
    <2>3. CASE \E n \in 1 .. PoolSize : Pool!TakeOnce(n)
        BY <2>0, <2>2, <2>3, PoolAssumption DEF Pool!TakeOnce
    <2>4. CASE \E m \in 2 .. MaxLimit : Pool!RandomUniformInt(m) \/ Pool!RandomBigIntBelow(m)
        <3>1. PICK m \in Limit : Pool!RandomUniformInt(m) \/ Pool!RandomBigIntBelow(m)
            BY <2>4 DEF Limit
        <3>2. /\ pending' = <<[kind |-> "int", max |-> m]>> \/ pending' = <<[kind |-> "bigint", max |-> m]>>
              /\ UNCHANGED <<poolOffset, taken>>
            BY <3>1 DEF Pool!RandomUniformInt, Pool!RandomBigIntBelow
        <3>3. [kind |-> "int", max |-> m] \in DrawKind /\ [kind |-> "bigint", max |-> m] \in DrawKind
            BY DEF DrawKind
        <3>4. pending' \in Seq(DrawKind)
            <4>1. \A d \in DrawKind : <<d>> \in Seq(DrawKind)
                OBVIOUS
            <4> QED
                BY <3>2, <3>3, <4>1
        <3> QED
            BY <2>1, <3>2, <3>4
    <2>5. CASE \E n \in 2 .. MaxDeck : Pool!FisherYatesShuffle(n)
        <3>1. PICK n \in 2 .. MaxDeck : Pool!FisherYatesShuffle(n)
            BY <2>5
        <3>2. n - 1 \in Nat /\ \A k \in 1 .. n - 1 : n + 1 - k \in Limit
            BY PoolAssumption DEF Limit
        <3>3. \A k \in 1 .. n - 1 : [kind |-> "int", max |-> n + 1 - k] \in DrawKind
            BY <3>2 DEF DrawKind
        <3>4. pending' = [k \in 1 .. n - 1 |-> [kind |-> "int", max |-> n + 1 - k]]
            BY <3>1 DEF Pool!FisherYatesShuffle, Pool!Limits
        <3>5. pending' \in Seq(DrawKind)
            <4>1. PICK l \in Nat : l = n - 1
                BY <3>2
            <4>2. pending' \in [1 .. l -> DrawKind]
                BY <3>3, <3>4, <4>1
            <4> QED
                BY <4>2
        <3> QED
            BY <2>1, <3>1, <3>5 DEF Pool!FisherYatesShuffle
    <2>6. CASE Pool!Draw
        <3>1. Head(pending) \in DrawKind /\ Tail(pending) \in Seq(DrawKind)
            BY <2>0, <2>6 DEF Pool!Draw
        <3>2. PICK d \in DrawKind : d = Head(pending)
            BY <3>1
        <3>3. Pool!Width(d) \in Nat
            BY WidthIsNumber
        <3>4. Pool!Take(Pool!Width(d)) /\ pending' \in Seq(DrawKind)
            BY <2>0, <2>6, <3>1, <3>2 DEF Pool!Draw
        <3> QED
            BY <2>2, <3>3, <3>4
    <2>7. CASE UNCHANGED Pool!vars
        BY <2>0, <2>1, <2>7 DEF Pool!vars
    <2> QED
        BY <1>2, <2>3, <2>4, <2>5, <2>6, <2>7 DEF Pool!Next
<1> QED
    BY <1>1, <1>2

-----------------------------------------------------------------------------
(* SamplingPool: nothing that is drawn, and no shuffle, is preferred.      *)

\* A multiple of a number, and what is left below it, are quotient and remainder.
LEMMA QuotientIs ==
    ASSUME NEW m \in Nat \ {0}, NEW q \in Int, NEW r \in 0 .. m - 1
    PROVE  q * m + r \in Int /\ (q * m + r) \div m = q /\ (q * m + r) % m = r
<1>1. q * m \in Int
    OBVIOUS
<1>2. ASSUME NEW a \in Int, a = q * m + r PROVE a \div m = q /\ a % m = r
    BY <1>2
<1> QED
    BY <1>1, <1>2

\* Every number below a multiple of m is of one quotient and one remainder.
LEMMA QuotientsBelow ==
    ASSUME NEW m \in Nat \ {0}, NEW c \in Nat
    PROVE  /\ \A v \in 0 .. c * m - 1 :
                 /\ v \in Nat /\ v \div m \in 0 .. c - 1 /\ v % m \in 0 .. m - 1
                 /\ v = (v \div m) * m + (v % m)
           /\ \A q \in 0 .. c - 1, r \in 0 .. m - 1 : q * m + r \in 0 .. c * m - 1
<1>1. c * m \in Nat
    OBVIOUS
<1>2. ASSUME NEW v \in 0 .. c * m - 1
      PROVE  /\ v \in Nat /\ v \div m \in 0 .. c - 1 /\ v % m \in 0 .. m - 1
             /\ v = (v \div m) * m + (v % m)
    <2>1. v \in Nat /\ v < c * m
        BY <1>1
    <2>2. PICK q \in Int : q = v \div m
        BY <2>1
    <2>3. v % m \in 0 .. m - 1 /\ v = q * m + (v % m)
        BY <2>1, <2>2
    <2>4. q * m <= v /\ v < (q + 1) * m
        BY <2>1, <2>3
    <2>5. q >= 0
        <3>1. \A x \in Int, y \in Nat \ {0} : x < 0 => (x + 1) * y <= 0
            OBVIOUS
        <3> QED
            BY <2>1, <2>4, <3>1
    <2>6. q < c
        <3>1. \A x \in Int, y \in Nat \ {0} : x >= c => x * y >= c * y
            OBVIOUS
        <3> QED
            BY <2>1, <2>4, <3>1
    <2> QED
        BY <2>1, <2>2, <2>3, <2>5, <2>6
<1>3. ASSUME NEW q \in 0 .. c - 1, NEW r \in 0 .. m - 1 PROVE q * m + r \in 0 .. c * m - 1
    <2>1. \A x \in Nat, y \in Nat \ {0} : x + 1 <= c => (x + 1) * y <= c * y /\ (x + 1) * y = x * y + y
        OBVIOUS
    <2>2. (q + 1) * m <= c * m /\ (q + 1) * m = q * m + m
        BY <2>1
    <2>3. q * m \in Nat
        OBVIOUS
    <2> QED
        BY <1>1, <2>2, <2>3
<1> QED
    BY <1>2, <1>3

\* Below a multiple c * m, every remainder of m occurs c times.
LEMMA RemaindersCounted ==
    ASSUME NEW m \in Nat \ {0}, NEW c \in Nat, NEW r \in 0 .. m - 1
    PROVE  Cardinality({v \in 0 .. c * m - 1 : v % m = r}) = c
<1> DEFINE S == {v \in 0 .. c * m - 1 : v % m = r}
           f == [q \in 0 .. c - 1 |-> q * m + r]
<1>1. f \in Bijection(0 .. c - 1, S)
    <2>1. \A q \in 0 .. c - 1 : f[q] \in S /\ f[q] \div m = q
        BY QuotientIs, QuotientsBelow
    <2>2. \A v \in S : v \div m \in 0 .. c - 1 /\ v = f[v \div m]
        BY QuotientsBelow
    <2> HIDE DEF S
    <2>3. f \in [0 .. c - 1 -> S]
        BY <2>1
    <2> HIDE DEF f
    <2> QED
        BY <2>1, <2>2, <2>3 DEF Bijection, Injection, Surjection, IsInjective
<1>2. IsFiniteSet(0 .. c - 1) /\ Cardinality(0 .. c - 1) = c
    BY FS_Interval
<1>3. Cardinality(S) = Cardinality(0 .. c - 1)
    BY <1>1, <1>2, FS_Bijection DEF ExistsBijection
<1> QED
    BY <1>2, <1>3

\* So the first few of them occur c times as often.
LEMMA FirstRemaindersCounted ==
    ASSUME NEW m \in Nat \ {0}, NEW c \in Nat, NEW l \in 0 .. m
    PROVE  Cardinality({v \in 0 .. c * m - 1 : v % m < l}) = c * l
<1> DEFINE S == {v \in 0 .. c * m - 1 : v % m < l}
           pairs == (0 .. c - 1) \X (0 .. l - 1)
           f == [x \in pairs |-> x[1] * m + x[2]]
<1>1. f \in Bijection(pairs, S)
    <2>1. ASSUME NEW x \in pairs PROVE f[x] \in S /\ x = <<f[x] \div m, f[x] % m>>
        <3>1. PICK q \in 0 .. c - 1, r \in 0 .. l - 1 : x = <<q, r>>
            OBVIOUS
        <3>2. r \in 0 .. m - 1 /\ q \in Int /\ f[x] = q * m + r
            BY <3>1
        <3>3. f[x] \in 0 .. c * m - 1
            BY <3>2, QuotientsBelow
        <3>4. f[x] \div m = q /\ f[x] % m = r
            BY <3>2, QuotientIs
        <3> QED
            BY <3>1, <3>3, <3>4
    <2>2. ASSUME NEW v \in S PROVE \E x \in pairs : f[x] = v
        <3>0. v \in 0 .. c * m - 1 /\ v % m < l
            OBVIOUS
        <3>1. /\ v \div m \in 0 .. c - 1 /\ v % m \in 0 .. l - 1
              /\ v = (v \div m) * m + (v % m)
            <4>1. /\ v \div m \in 0 .. c - 1 /\ v % m \in 0 .. m - 1
                  /\ v = (v \div m) * m + (v % m)
                BY <3>0, QuotientsBelow
            <4> QED
                BY <3>0, <4>1
        <3>2. <<v \div m, v % m>> \in pairs
            BY <3>1
        <3> QED
            BY <3>1, <3>2
    <2> HIDE DEF S
    <2>3. f \in [pairs -> S]
        BY <2>1
    <2> HIDE DEF f, pairs
    <2>4. \A x, y \in pairs : f[x] = f[y] => x = y
        BY <2>1
    <2> QED
        BY <2>2, <2>3, <2>4 DEF Bijection, Injection, Surjection, IsInjective
<1>2. /\ IsFiniteSet(0 .. c - 1) /\ Cardinality(0 .. c - 1) = c
      /\ IsFiniteSet(0 .. l - 1) /\ Cardinality(0 .. l - 1) = l
    BY FS_Interval
<1>3. IsFiniteSet(pairs) /\ Cardinality(pairs) = c * l
    BY <1>2, FS_Product
<1>4. Cardinality(S) = Cardinality(pairs)
    BY <1>1, <1>3, FS_Bijection DEF ExistsBijection
<1> QED
    BY <1>3, <1>4

\* The module counts as everyone does.
LEMMA PoolCountsAlike == \A S : Pool!Cardinality(S) = Cardinality(S)
BY DEF Pool!Cardinality, Cardinality, Pool!IsFiniteSet, IsFiniteSet

\* Nothing is preferred in one turn of a loop.
LEMMA DrawIsFair ==
    ASSUME NEW d \in DrawKind
    PROVE  Pool!DrawUnbiased(d)
<1>1. PICK m \in Limit : m = d.max
    BY DEF DrawKind
<1>2. m \in Nat \ {0} /\ 2 <= m
    BY BytesEnough
<1>4. CASE d.kind = "int"
    <2>1. PICK k \in Nat : k = Pool!BytesNeeded(m) /\ m <= Pool!TwoTo[ByteBits * k]
        BY BytesEnough
    <2>2. PICK B \in Nat : B = Pool!TwoTo[ByteBits * k] /\ m <= B
        <3>1. ByteBits * k \in Nat
            BY PoolAssumption
        <3> QED
            BY <2>1, <3>1, PowersDouble
    <2>3. PICK q \in Int : q = B \div m
        BY <1>2
    <2>4. q * m <= B /\ B < q * m + m /\ q * m \in Int
        <3>1. B = m * q + (B % m) /\ B % m \in 0 .. m - 1
            BY <1>2, <2>3
        <3> QED
            BY <1>2, <3>1
    <2>5. q \in Nat /\ m <= q * m
        <3>1. \A x \in Int : x <= 0 => x * m <= 0
            BY <1>2
        <3>2. q >= 1
            BY <1>2, <2>2, <2>4, <3>1
        <3>3. \A x \in Int : x >= 1 => x * m >= m
            BY <1>2
        <3> QED
            BY <3>2, <3>3
    <2>6. Pool!Domain(d) = 0 .. B - 1
        BY <1>1, <1>4, <2>1, <2>2 DEF Pool!Domain, Pool!Width
    <2>7. Pool!Good(d) = 0 .. q * m - 1
        <3>1. \A v : Pool!Accepted(d, v) <=> v < q * m
            BY <1>1, <1>4, <2>1, <2>2, <2>3 DEF Pool!Accepted, Pool!MaxUnbiased
        <3> QED
            BY <2>4, <2>6, <3>1 DEF Pool!Good
    <2>8. \A r : Pool!Giving(d, r) = {v \in 0 .. q * m - 1 : v % m = r}
        <3>1. \A v : Pool!Result(d, v) = v % m
            BY <1>1, <1>4 DEF Pool!Result
        <3> QED
            BY <2>7, <3>1 DEF Pool!Giving
    <2>9. Cardinality(Pool!Good(d)) = q * m /\ Cardinality(Pool!Domain(d)) = B
        <3>1. \A n \in Nat : Cardinality(0 .. n - 1) = n
            BY FS_Interval
        <3>2. q * m \in Nat
            BY <1>2, <2>4, <2>5
        <3> QED
            BY <2>6, <2>7, <3>1, <3>2
    <2>10. \A r \in 0 .. m - 1 : Cardinality(Pool!Giving(d, r)) = q
        <3> QED
            BY <1>2, <2>5, <2>8, RemaindersCounted
    <2>11. \A r \in 0 .. m - 1 : Cardinality(Pool!Giving(d, r)) * m = Cardinality(Pool!Good(d))
        BY <2>9, <2>10
    <2>12. 2 * Cardinality(Pool!Good(d)) >= Cardinality(Pool!Domain(d))
        BY <1>2, <2>2, <2>4, <2>5, <2>9
    <2> QED
        <3>1. \A r \in 0 .. d.max - 1 : Cardinality(Pool!Giving(d, r)) * d.max = Cardinality(Pool!Good(d))
            BY <1>1, <2>11
        <3> QED
            BY <2>12, <3>1, PoolCountsAlike, Zenon DEF Pool!DrawUnbiased
<1>5. CASE d.kind # "int"
    <2>1. PICK b \in Nat \ {0} : b = Pool!BitLength(m)
        BY <1>2, BitsEnough
    <2>2. PICK B \in Nat \ {0} : B = Pool!TwoTo[b] /\ m < B /\ B <= 2 * m
        BY <1>2, <2>1, BitsEnough, PowersDouble
    <2>3. PICK w \in Nat : w = Pool!Width(d) /\ b <= ByteBits * w
        <3>1. Pool!Width(d) = (b + ByteBits - 1) \div ByteBits
            BY <1>1, <1>5, <2>1 DEF Pool!Width
        <3> QED
            BY <3>1, WidthEnough, PoolAssumption
    <2>4. PICK s \in Nat : ByteBits * w = s + b
        <3>1. ByteBits * w \in Nat
            BY PoolAssumption
        <3>2. ByteBits * w - b \in Nat /\ ByteBits * w = (ByteBits * w - b) + b
            BY <2>3, <3>1
        <3> QED
            BY <3>2
    <2>5. PICK c \in Nat : c = Pool!TwoTo[s]
        BY PowersDouble
    <2>6. Pool!Domain(d) = 0 .. c * B - 1
        <3>1. Pool!TwoTo[s + b] = c * B
            BY <2>2, <2>5, PowersMultiply
        <3> QED
            BY <2>3, <2>4, <3>1 DEF Pool!Domain
    <2>7. \A v : Pool!Masked(d, v) = v % B
        BY <1>1, <2>1, <2>2 DEF Pool!Masked
    <2>8. Pool!Good(d) = {v \in 0 .. c * B - 1 : v % B < m}
        BY <1>1, <1>5, <2>6, <2>7 DEF Pool!Accepted, Pool!Good
    <2>9. ASSUME NEW r \in 0 .. m - 1 PROVE Pool!Giving(d, r) = {v \in 0 .. c * B - 1 : v % B = r}
        <3>1. \A v : Pool!Result(d, v) = v % B
            BY <1>5, <2>7 DEF Pool!Result
        <3>2. \A v \in 0 .. c * B - 1 : v % B = r => v % B < m
            BY <1>2
        <3> QED
            BY <2>8, <3>1, <3>2 DEF Pool!Giving
    <2>10. Cardinality(Pool!Good(d)) = c * m
        <3>1. m \in 0 .. B
            BY <1>2, <2>2
        <3>2. Cardinality({v \in 0 .. c * B - 1 : v % B < m}) = c * m
            BY <3>1, FirstRemaindersCounted
        <3> QED
            BY <2>8, <3>2
    <2>11. \A r \in 0 .. m - 1 : Cardinality(Pool!Giving(d, r)) = c
        <3> SUFFICES ASSUME NEW r \in 0 .. m - 1 PROVE Cardinality(Pool!Giving(d, r)) = c
            OBVIOUS
        <3>1. r \in 0 .. B - 1
            BY <1>2, <2>2
        <3> QED
            BY <2>9, <3>1, RemaindersCounted
    <2>12. Cardinality(Pool!Domain(d)) = c * B /\ c * B \in Nat
        <3>1. c * B \in Nat
            OBVIOUS
        <3>2. \A n \in Nat : Cardinality(0 .. n - 1) = n
            BY FS_Interval
        <3> QED
            BY <2>6, <3>1, <3>2
    <2>13. c * B <= 2 * (c * m)
        <3>1. \A x, y \in Nat : x <= y => c * x <= c * y
            OBVIOUS
        <3>2. c * (2 * m) = 2 * (c * m)
            BY <1>2
        <3> QED
            BY <1>2, <2>2, <3>1, <3>2
    <2>14. c * m \in Nat
        BY <1>2
    <2>15. \A r \in 0 .. m - 1 : Cardinality(Pool!Giving(d, r)) * m = Cardinality(Pool!Good(d))
        BY <2>10, <2>11
    <2>16. 2 * Cardinality(Pool!Good(d)) >= Cardinality(Pool!Domain(d))
        BY <2>10, <2>12, <2>13, <2>14
    <2> QED
        <3>1. \A r \in 0 .. d.max - 1 : Cardinality(Pool!Giving(d, r)) * d.max = Cardinality(Pool!Good(d))
            BY <1>1, <2>15
        <3> QED
            BY <2>16, <3>1, PoolCountsAlike, Zenon DEF Pool!DrawUnbiased
<1> QED
    BY <1>4, <1>5

\* The ways to put n things in order.
Orders(n) == {f \in [1 .. n -> 1 .. n] : Pool!IsInjective(f)}

\* An exchange of two places is seen there and nowhere else.
LEMMA ExchangedIs ==
    ASSUME NEW n \in Nat, NEW a \in Orders(n), NEW i \in 1 .. n, NEW j \in 1 .. n
    PROVE  /\ Pool!Exchanged(a, i, j) \in Orders(n)
           /\ Pool!Exchanged(a, i, j)[i] = a[j] /\ Pool!Exchanged(a, i, j)[j] = a[i]
           /\ \A k \in 1 .. n : k # i /\ k # j => Pool!Exchanged(a, i, j)[k] = a[k]
<1>1. /\ a \in [1 .. n -> 1 .. n] /\ \A k, l \in 1 .. n : a[k] = a[l] => k = l
    BY DEF Orders, Pool!IsInjective
<1>2. PICK b : b = Pool!Exchanged(a, i, j)
    OBVIOUS
<1>3. /\ b \in [1 .. n -> 1 .. n] /\ b[i] = a[j] /\ b[j] = a[i]
      /\ \A k \in 1 .. n : k # i /\ k # j => b[k] = a[k]
    BY <1>1, <1>2 DEF Pool!Exchanged
<1>4. \A k, l \in 1 .. n : b[k] = b[l] => k = l
    BY <1>1, <1>3
<1>5. b \in Orders(n)
    BY <1>3, <1>4 DEF Orders, Pool!IsInjective
<1> QED
    BY <1>2, <1>3, <1>5

\* Every number has its place in an order.
LEMMA OrdersComplete ==
    ASSUME NEW n \in Nat, NEW a \in Orders(n), NEW y \in 1 .. n
    PROVE  \E x \in 1 .. n : a[x] = y
<1>1. IsFiniteSet(1 .. n)
    BY FS_Interval
<1>2. a \in Injection(1 .. n, 1 .. n)
    BY DEF Orders, Pool!IsInjective, Injection, IsInjective
<1>3. a \in Surjection(1 .. n, 1 .. n)
    BY <1>1, <1>2, FS_Injection
<1> QED
    BY <1>3 DEF Surjection

\* A shuffle starts with the numbers in their order; each draw is one exchange.
LEMMA ArraysFollow ==
    ASSUME NEW n \in Nat \ {0}, NEW c \in [1 .. n - 1 -> 0 .. n - 1]
    PROVE  /\ Pool!Arrays(n, c)[0] = [i \in 1 .. n |-> i]
           /\ \A k \in 1 .. n - 1 : Pool!Arrays(n, c)[k]
                                      = Pool!Exchanged(Pool!Arrays(n, c)[k - 1], n + 1 - k, c[k] + 1)
           /\ \A k \in 0 .. n - 1 : Pool!Arrays(n, c)[k] \in Orders(n)
<1> DEFINE sorted == [i \in 1 .. n |-> i]
           step(k, a) == Pool!Exchanged(a, n + 1 - k, c[k] + 1)
           Body(f) == [k \in 0 .. n - 1 |-> IF k = 0 THEN sorted ELSE step(k, f[k - 1])]
           f == [x \in Nat \X Orders(n) |-> IF x[1] - 1 \in 1 .. n - 1 THEN step(x[1] - 1, x[2]) ELSE x[2]]
<1>1. sorted \in Orders(n)
    BY DEF Orders, Pool!IsInjective
<1>2. ASSUME NEW k \in 1 .. n - 1, NEW a \in Orders(n) PROVE step(k, a) \in Orders(n)
    <2>1. n + 1 - k \in 1 .. n /\ c[k] + 1 \in 1 .. n
        <3>1. c[k] \in 0 .. n - 1
            OBVIOUS
        <3> QED
            BY <3>1
    <2> QED
        BY <2>1, ExchangedIs
<1> HIDE DEF sorted, step
<1>3. f \in [Nat \X Orders(n) -> Orders(n)]
    <2> SUFFICES ASSUME NEW x \in Nat \X Orders(n)
                 PROVE  (IF x[1] - 1 \in 1 .. n - 1 THEN step(x[1] - 1, x[2]) ELSE x[2]) \in Orders(n)
        OBVIOUS
    <2>1. x[2] \in Orders(n)
        OBVIOUS
    <2> QED
        BY <1>2, <2>1
<1>4. PICK g : Computes(Orders(n), n, sorted, f, g)
    <2> HIDE DEF f
    <2> QED
        BY <1>1, <1>3, Computed
<1> DEFINE h == [k \in 0 .. n - 1 |-> g[k + 1]]
<1>5. h = Body(h)
    <2>1. ASSUME NEW k \in 0 .. n - 1 PROVE h[k] = IF k = 0 THEN sorted ELSE step(k, h[k - 1])
        <3>1. CASE k = 0
            <4>1. 1 \in 1 .. n /\ g[1] = sorted
                <5>1. 1 \in 1 .. n
                    OBVIOUS
                <5> HIDE DEF f
                <5> QED
                    BY <1>4, <5>1 DEF Computes
            <4> QED
                BY <3>1, <4>1
        <3>2. CASE k # 0
            <4>1. /\ k \in 1 .. n - 1 /\ k - 1 \in 0 .. n - 1 /\ (k - 1) + 1 = k /\ (k + 1) - 1 = k
                  /\ k + 1 \in 1 .. n /\ k + 1 # 1 /\ k \in 1 .. n /\ k + 1 \in Nat
                BY <3>2
            <4>2. g[k + 1] = f[<<k + 1, g[k]>>] /\ g[k] \in Orders(n)
                BY <1>4, <4>1 DEF Computes
            <4>3. <<k + 1, g[k]>> \in Nat \X Orders(n)
                BY <4>1, <4>2
            <4>4. f[<<k + 1, g[k]>>] = step(k, g[k])
                BY <4>1, <4>3
            <4>5. h[k - 1] = g[k] /\ h[k] = g[k + 1]
                BY <4>1
            <4> HIDE DEF h, f
            <4> QED
                BY <3>2, <4>2, <4>4, <4>5
        <3> QED
            BY <3>1, <3>2
    <2>2. h = [k \in 0 .. n - 1 |-> h[k]]
        OBVIOUS
    <2> HIDE DEF h
    <2> QED
        BY <2>1, <2>2
<1> DEFINE array == Pool!Arrays(n, c)
<1>6. array = Body(array)
    <2>1. array = CHOOSE a : a = Body(a)
        BY DEF Pool!Arrays, sorted, step
    <2> HIDE DEF h, Body, array
    <2> QED
        BY <1>5, <2>1
<1> HIDE DEF array
<1>7. 0 \in 0 .. n - 1 /\ \A k \in 1 .. n - 1 : k \in 0 .. n - 1 /\ k # 0
    OBVIOUS
<1>8. array[0] = sorted /\ \A k \in 1 .. n - 1 : array[k] = step(k, array[k - 1])
    BY <1>6, <1>7
<1>9. \A k \in 0 .. n - 1 : array[k] \in Orders(n)
    <2> DEFINE P == {k \in 0 .. n - 1 : array[k] \in Orders(n)}
    <2>1. 0 \in P
        BY <1>1, <1>7, <1>8
    <2>2. ASSUME NEW k \in 1 .. n - 1, k - 1 \in P PROVE k \in P
        BY <1>2, <1>7, <1>8, <2>2
    <2>3. \A k \in 0 .. n - 1 : k \in P
        <3>1. n - 1 \in Nat
            OBVIOUS
        <3> HIDE DEF P
        <3> QED
            BY <2>1, <2>2, <3>1, UpTo
    <2> QED
        BY <2>3
<1> QED
    BY <1>8, <1>9 DEF array, step, sorted

\* The limits of the draws: the first chooses among all n.
LEMMA DrawsAre ==
    ASSUME NEW n \in Nat \ {0}
    PROVE  \A c : c \in Pool!Draws(n) <=>
                     c \in [1 .. n - 1 -> 0 .. n - 1] /\ \A k \in 1 .. n - 1 : c[k] + 1 <= n + 1 - k
<1>1. \A k \in 1 .. n - 1 : Pool!Limits(n)[k] = n + 1 - k
    BY DEF Pool!Limits
<1>2. \A c \in [1 .. n - 1 -> 0 .. n - 1] : \A k \in 1 .. n - 1 :
          c[k] < Pool!Limits(n)[k] <=> c[k] + 1 <= n + 1 - k
    BY <1>1
<1> QED
    BY <1>2 DEF Pool!Draws

\* Draws that begin alike exchange alike.
LEMMA ArraysAlike ==
    ASSUME NEW n \in Nat \ {0}, NEW c \in [1 .. n - 1 -> 0 .. n - 1],
           NEW e \in [1 .. n - 1 -> 0 .. n - 1],
           NEW m \in 0 .. n - 1, \A k \in 1 .. m : c[k] = e[k]
    PROVE  \A k \in 0 .. m : Pool!Arrays(n, c)[k] = Pool!Arrays(n, e)[k]
<1> DEFINE P == {k \in 0 .. m : Pool!Arrays(n, c)[k] = Pool!Arrays(n, e)[k]}
<1>1. 0 \in P
    <2>1. Pool!Arrays(n, c)[0] = [i \in 1 .. n |-> i] /\ Pool!Arrays(n, e)[0] = [i \in 1 .. n |-> i]
        BY ArraysFollow
    <2> QED
        BY <2>1
<1>2. ASSUME NEW k \in 1 .. m, k - 1 \in P PROVE k \in P
    <2>1. k \in 1 .. n - 1 /\ k \in 0 .. m
        OBVIOUS
    <2>2. /\ Pool!Arrays(n, c)[k] = Pool!Exchanged(Pool!Arrays(n, c)[k - 1], n + 1 - k, c[k] + 1)
          /\ Pool!Arrays(n, e)[k] = Pool!Exchanged(Pool!Arrays(n, e)[k - 1], n + 1 - k, e[k] + 1)
        BY <2>1, ArraysFollow
    <2> QED
        BY <1>2, <2>1, <2>2
<1>3. \A k \in 0 .. m : k \in P
    <2>1. m \in Nat
        OBVIOUS
    <2> HIDE DEF P
    <2> QED
        BY <1>1, <1>2, <2>1, UpTo
<1> QED
    BY <1>3

\* What an exchange does to the places: the last that is open is settled, and those
\* behind it were before.
LEMMA ExchangeSettles ==
    ASSUME NEW n \in Nat \ {0}, NEW c \in Pool!Draws(n), NEW k \in 1 .. n - 1
    PROVE  /\ n + 1 - k \in 1 .. n /\ c[k] + 1 \in 1 .. n + 1 - k /\ c[k] + 1 \in 1 .. n
           /\ Pool!Arrays(n, c)[k - 1] \in Orders(n)
           /\ Pool!Arrays(n, c)[k][n + 1 - k] = Pool!Arrays(n, c)[k - 1][c[k] + 1]
           /\ \A i \in 1 .. n : i > n + 1 - k => Pool!Arrays(n, c)[k][i] = Pool!Arrays(n, c)[k - 1][i]
<1>1. c \in [1 .. n - 1 -> 0 .. n - 1] /\ c[k] + 1 <= n + 1 - k
    BY DrawsAre
<1>2. n + 1 - k \in 1 .. n /\ c[k] + 1 \in 1 .. n + 1 - k /\ c[k] + 1 \in 1 .. n /\ k - 1 \in 0 .. n - 1
    <2>1. c[k] \in 0 .. n - 1
        BY <1>1
    <2> QED
        BY <1>1, <2>1
<1>3. PICK i \in 1 .. n, j \in 1 .. n : i = n + 1 - k /\ j = c[k] + 1 /\ j <= i
    BY <1>2
<1>4. PICK a \in Orders(n) : a = Pool!Arrays(n, c)[k - 1]
    BY <1>1, <1>2, ArraysFollow
<1>5. Pool!Arrays(n, c)[k] = Pool!Exchanged(a, i, j)
    BY <1>1, <1>3, <1>4, ArraysFollow
<1>6. /\ Pool!Exchanged(a, i, j)[i] = a[j]
      /\ \A l \in 1 .. n : l # i /\ l # j => Pool!Exchanged(a, i, j)[l] = a[l]
    BY ExchangedIs
<1>7. \A l \in 1 .. n : l > i => l # i /\ l # j
    BY <1>3
<1>8. \A l \in 1 .. n : l > i => Pool!Arrays(n, c)[k][l] = a[l]
    BY <1>5, <1>6, <1>7
<1> QED
    BY <1>2, <1>3, <1>4, <1>5, <1>6, <1>8

\* A place that is settled stays as it is.
LEMMA PlacesStay ==
    ASSUME NEW n \in Nat \ {0}, NEW c \in Pool!Draws(n), NEW k \in 1 .. n - 1
    PROVE  Pool!Shuffled(n, c)[n + 1 - k] = Pool!Arrays(n, c)[k - 1][c[k] + 1]
<1> DEFINE i == n + 1 - k
           P == {l \in 0 .. n - 1 : k <= l => Pool!Arrays(n, c)[l][i] = Pool!Arrays(n, c)[k][i]}
<1>1. 0 \in P
    OBVIOUS
<1>2. ASSUME NEW l \in 1 .. n - 1, l - 1 \in P PROVE l \in P
    <2>1. CASE k <= l - 1
        <3>1. i \in 1 .. n /\ i > n + 1 - l
            BY <2>1
        <3>2. Pool!Arrays(n, c)[l][i] = Pool!Arrays(n, c)[l - 1][i]
            BY <3>1, ExchangeSettles
        <3>3. Pool!Arrays(n, c)[l - 1][i] = Pool!Arrays(n, c)[k][i]
            BY <1>2, <2>1
        <3> QED
            BY <3>2, <3>3
    <2>2. CASE ~(k <= l - 1)
        <3>1. k <= l => k = l
            BY <2>2
        <3> QED
            BY <3>1
    <2> QED
        BY <2>1, <2>2
<1>3. n - 1 \in P
    <2>1. n - 1 \in Nat
        OBVIOUS
    <2> HIDE DEF P
    <2> QED
        BY <1>1, <1>2, <2>1, UpTo
<1>4. k <= n - 1
    OBVIOUS
<1>5. Pool!Shuffled(n, c)[i] = Pool!Arrays(n, c)[k][i]
    BY <1>3, <1>4 DEF Pool!Shuffled
<1> QED
    BY <1>5, ExchangeSettles

\* Two ways to draw give two orders.
LEMMA ShufflesDiffer ==
    ASSUME NEW n \in Nat \ {0}, NEW c \in Pool!Draws(n), NEW e \in Pool!Draws(n),
           Pool!Shuffled(n, c) = Pool!Shuffled(n, e)
    PROVE  c = e
<1> DEFINE P == {m \in 0 .. n - 1 : \A k \in 1 .. m : c[k] = e[k]}
<1>0. c \in [1 .. n - 1 -> 0 .. n - 1] /\ e \in [1 .. n - 1 -> 0 .. n - 1]
    BY DrawsAre
<1>1. 0 \in P
    OBVIOUS
<1>2. ASSUME NEW m \in 1 .. n - 1, m - 1 \in P PROVE m \in P
    <2>1. m - 1 \in 0 .. n - 1 /\ m - 1 \in 0 .. m - 1 /\ \A k \in 1 .. m - 1 : c[k] = e[k]
        BY <1>2
    <2>2. PICK a : a = Pool!Arrays(n, c)[m - 1] /\ a = Pool!Arrays(n, e)[m - 1]
        BY <1>0, <2>1, ArraysAlike
    <2>3. a[c[m] + 1] = a[e[m] + 1]
        <3>1. Pool!Shuffled(n, c)[n + 1 - m] = a[c[m] + 1]
            BY <2>2, PlacesStay
        <3>2. Pool!Shuffled(n, e)[n + 1 - m] = a[e[m] + 1]
            BY <2>2, PlacesStay
        <3> QED
            BY <3>1, <3>2
    <2>4. a \in Orders(n) /\ c[m] + 1 \in 1 .. n /\ e[m] + 1 \in 1 .. n
        BY <2>2, ExchangeSettles
    <2>5. c[m] + 1 = e[m] + 1
        BY <2>3, <2>4 DEF Orders, Pool!IsInjective
    <2>6. c[m] = e[m]
        <3>1. c[m] \in Int /\ e[m] \in Int
            BY <1>0
        <3> QED
            BY <2>5, <3>1
    <2>7. \A k \in 1 .. m : k = m \/ k \in 1 .. m - 1
        OBVIOUS
    <2> QED
        BY <2>1, <2>6, <2>7
<1>3. n - 1 \in P
    <2>1. n - 1 \in Nat
        OBVIOUS
    <2> HIDE DEF P
    <2> QED
        BY <1>1, <1>2, <2>1, UpTo
<1> QED
    BY <1>0, <1>3

\* Every order is drawn: each number is found before its place is settled.
LEMMA ShufflesReach ==
    ASSUME NEW n \in Nat \ {0}, NEW p \in Orders(n)
    PROVE  \E c \in Pool!Draws(n) : Pool!Shuffled(n, c) = p
<1> DEFINE Reached(m, c) == \A i \in 1 .. n : i > n - m => Pool!Arrays(n, c)[m][i] = p[i]
           P == {m \in 0 .. n - 1 : \E c \in Pool!Draws(n) : Reached(m, c)}
<1>0. p \in [1 .. n -> 1 .. n] /\ \A k, l \in 1 .. n : p[k] = p[l] => k = l
    BY DEF Orders, Pool!IsInjective
<1>1. 0 \in P
    <2> DEFINE c == [k \in 1 .. n - 1 |-> 0]
    <2>1. c \in Pool!Draws(n)
        BY DrawsAre
    <2>2. Reached(0, c)
        OBVIOUS
    <2> HIDE DEF c, Reached
    <2> QED
        BY <2>1, <2>2
<1>2. ASSUME NEW m \in 1 .. n - 1, m - 1 \in P PROVE m \in P
    <2>1. PICK c \in Pool!Draws(n) : Reached(m - 1, c)
        BY <1>2
    <2>2. PICK a : a = Pool!Arrays(n, c)[m - 1] /\ a \in Orders(n)
        BY ExchangeSettles
    <2>3. PICK j \in 1 .. n : a[j] = p[n + 1 - m]
        <3>1. p[n + 1 - m] \in 1 .. n
            BY <1>0
        <3> QED
            BY <2>2, <3>1, OrdersComplete
    <2>4. j <= n + 1 - m
        <3>1. SUFFICES ASSUME j > n + 1 - m PROVE FALSE
            OBVIOUS
        <3>2. j > n - (m - 1) /\ n + 1 - m \in 1 .. n /\ j # n + 1 - m
            BY <3>1
        <3>3. a[j] = p[j]
            BY <2>1, <2>2, <3>2
        <3> QED
            BY <1>0, <2>3, <3>2, <3>3
    <2> DEFINE e == [c EXCEPT ![m] = j - 1]
    <2>5. c \in [1 .. n - 1 -> 0 .. n - 1] /\ \A k \in 1 .. n - 1 : c[k] + 1 <= n + 1 - k
        BY DrawsAre
    <2>6. /\ e \in [1 .. n - 1 -> 0 .. n - 1] /\ e[m] = j - 1
          /\ \A k \in 1 .. n - 1 : k # m => e[k] = c[k]
        BY <2>5
    <2>7. e \in Pool!Draws(n)
        <3>1. \A k \in 1 .. n - 1 : e[k] + 1 <= n + 1 - k
            BY <2>4, <2>5, <2>6
        <3> HIDE DEF e
        <3> QED
            BY <2>6, <3>1, DrawsAre
    <2> HIDE DEF e
    <2>8. Pool!Arrays(n, e)[m - 1] = a
        <3>1. m - 1 \in 0 .. n - 1 /\ m - 1 \in 0 .. m - 1 /\ \A k \in 1 .. m - 1 : c[k] = e[k]
            BY <2>6
        <3> QED
            BY <2>2, <2>5, <2>6, <3>1, ArraysAlike
    <2>9. ASSUME NEW i \in 1 .. n, i > n - m PROVE Pool!Arrays(n, e)[m][i] = p[i]
        <3>1. CASE i = n + 1 - m
            <4>1. Pool!Arrays(n, e)[m][n + 1 - m] = a[e[m] + 1]
                BY <2>7, <2>8, ExchangeSettles
            <4>2. e[m] + 1 = j
                BY <2>6
            <4> QED
                BY <2>3, <3>1, <4>1, <4>2
        <3>2. CASE i # n + 1 - m
            <4>1. i > n + 1 - m /\ i > n - (m - 1)
                BY <2>9, <3>2
            <4>2. Pool!Arrays(n, e)[m][i] = a[i]
                BY <2>7, <2>8, <4>1, ExchangeSettles
            <4>3. a[i] = p[i]
                BY <2>1, <2>2, <4>1
            <4> QED
                BY <4>2, <4>3
        <3> QED
            BY <3>1, <3>2
    <2>10. Reached(m, e)
        BY <2>9
    <2> HIDE DEF Reached
    <2> QED
        BY <2>7, <2>10
<1>3. PICK c \in Pool!Draws(n) : Reached(n - 1, c)
    <2>1. n - 1 \in P
        <3>1. n - 1 \in Nat
            OBVIOUS
        <3> HIDE DEF P
        <3> QED
            BY <1>1, <1>2, <3>1, UpTo
    <2> QED
        BY <2>1
<1>4. PICK a : a = Pool!Shuffled(n, c) /\ a \in Orders(n)
    <2>1. c \in [1 .. n - 1 -> 0 .. n - 1] /\ n - 1 \in 0 .. n - 1
        BY DrawsAre
    <2> QED
        BY <2>1, ArraysFollow DEF Pool!Shuffled
<1>5. \A i \in 2 .. n : a[i] = p[i]
    <2>1. \A i \in 2 .. n : i \in 1 .. n /\ i > n - (n - 1)
        OBVIOUS
    <2> QED
        BY <1>3, <1>4, <2>1 DEF Pool!Shuffled
<1>6. a[1] = p[1]
    <2>1. p[1] \in 1 .. n /\ 1 \in 1 .. n
        BY <1>0
    <2>2. PICK j \in 1 .. n : a[j] = p[1]
        BY <1>4, <2>1, OrdersComplete
    <2>3. j = 1
        <3>1. SUFFICES ASSUME j # 1 PROVE FALSE
            OBVIOUS
        <3>2. a[j] = p[j]
            <4>1. j \in 2 .. n
                BY <3>1
            <4> QED
                BY <1>5, <4>1
        <3> QED
            BY <1>0, <2>1, <2>2, <3>1, <3>2
    <2> QED
        BY <2>2, <2>3
<1>7. a = p
    <2>1. a \in [1 .. n -> 1 .. n]
        BY <1>4 DEF Orders
    <2>2. \A i \in 1 .. n : a[i] = p[i]
        <3>1. \A i \in 1 .. n : i = 1 \/ i \in 2 .. n
            OBVIOUS
        <3> QED
            BY <1>5, <1>6, <3>1
    <2> QED
        BY <1>0, <2>1, <2>2
<1> QED
    BY <1>4, <1>7

\* Nothing that is drawn is biased.
LEMMA DrawsAreFair == Pool!PoolInv => Pool!Unbiased
<1> SUFFICES ASSUME Pool!PoolInv PROVE Pool!Unbiased
    OBVIOUS
<1>1. \A k \in DOMAIN pending : Pool!DrawUnbiased(pending[k])
    <2>1. pending \in Seq(DrawKind)
        BY DEF Pool!PoolInv, DrawKind, Limit
    <2>2. \A k \in DOMAIN pending : pending[k] \in DrawKind
        BY <2>1
    <2> QED
        BY <2>2, DrawIsFair
<1>2. ASSUME NEW n \in 2 .. MaxDeck, NEW p \in Orders(n)
      PROVE  Pool!Cardinality({c \in Pool!Draws(n) : Pool!Shuffled(n, c) = p}) = 1
    <2>1. n \in Nat \ {0}
        BY PoolAssumption
    <2>2. PICK c \in Pool!Draws(n) : Pool!Shuffled(n, c) = p
        BY <2>1, ShufflesReach
    <2>3. \A e \in Pool!Draws(n) : Pool!Shuffled(n, e) = p => e = c
        BY <2>1, <2>2, ShufflesDiffer
    <2>4. {e \in Pool!Draws(n) : Pool!Shuffled(n, e) = p} = {c}
        BY <2>2, <2>3
    <2> QED
        BY <2>4, PoolCountsAlike, FS_Singleton
<1> QED
    BY <1>1, <1>2, Zenon DEF Pool!Unbiased, Orders

-----------------------------------------------------------------------------
(* DelayFunctions: what was squared honestly verifies.                     *)

\* A value for each number up to M, that is computed from those of smaller numbers.
Recursive(M, D, F) ==
    /\ F \in [(0 .. M) \X [0 .. M -> D] -> D]
    /\ \A t \in 0 .. M : \A g, h \in [0 .. M -> D] :
          (\A s \in 0 .. t - 1 : g[s] = h[s]) => F[<<t, g>>] = F[<<t, h>>]

\* Such values exist.
LEMMA RecursionExists ==
    ASSUME NEW M \in Nat, NEW D, NEW d \in D, NEW F, Recursive(M, D, F)
    PROVE  \E f \in [0 .. M -> D] : \A t \in 0 .. M : f[t] = F[<<t, f>>]
<1> DEFINE Right(f, m) == \A t \in 0 .. m : f[t] = F[<<t, f>>]
           S == {m \in 0 .. M : \E f \in [0 .. M -> D] : Right(f, m)}
<1>0. ASSUME NEW t \in 0 .. M, NEW g \in [0 .. M -> D] PROVE F[<<t, g>>] \in D
    <2>1. <<t, g>> \in (0 .. M) \X [0 .. M -> D]
        OBVIOUS
    <2> QED
        BY <2>1 DEF Recursive
<1>1. ASSUME NEW m \in 0 .. M, NEW f \in [0 .. M -> D], \A t \in 0 .. m - 1 : f[t] = F[<<t, f>>]
      PROVE  m \in S
    <2> DEFINE g == [f EXCEPT ![m] = F[<<m, f>>]]
    <2>1. /\ g \in [0 .. M -> D] /\ g[m] = F[<<m, f>>]
          /\ \A t \in 0 .. M : t # m => g[t] = f[t]
        BY <1>0
    <2> HIDE DEF g
    <2>2. ASSUME NEW t \in 0 .. m PROVE F[<<t, g>>] = F[<<t, f>>]
        <3>1. t \in 0 .. M /\ \A s \in 0 .. t - 1 : s \in 0 .. M /\ s # m
            OBVIOUS
        <3> QED
            BY <2>1, <3>1 DEF Recursive
    <2>3. ASSUME NEW t \in 0 .. m PROVE g[t] = F[<<t, g>>]
        <3>1. CASE t = m
            BY <2>1, <2>2, <3>1
        <3>2. CASE t # m
            <4>1. t \in 0 .. m - 1 /\ t \in 0 .. M
                BY <3>2
            <4>2. g[t] = f[t] /\ f[t] = F[<<t, f>>] /\ F[<<t, g>>] = F[<<t, f>>]
                BY <1>1, <2>1, <2>2, <3>2, <4>1
            <4> QED
                BY <4>2
        <3> QED
            BY <3>1, <3>2
    <2>4. Right(g, m)
        BY <2>3
    <2> HIDE DEF Right
    <2> QED
        BY <2>1, <2>4
<1>2. 0 \in S
    <2>1. [t \in 0 .. M |-> d] \in [0 .. M -> D] /\ 0 \in 0 .. M /\ \A t \in 0 .. 0 - 1 : FALSE
        OBVIOUS
    <2> HIDE DEF S
    <2> QED
        BY <1>1, <2>1
<1>3. ASSUME NEW m \in 1 .. M, m - 1 \in S PROVE m \in S
    <2>1. PICK f \in [0 .. M -> D] : Right(f, m - 1)
        BY <1>3
    <2>2. m \in 0 .. M
        OBVIOUS
    <2> HIDE DEF S
    <2> QED
        BY <1>1, <2>1, <2>2
<1>4. M \in S
    <2> HIDE DEF S
    <2> QED
        BY <1>2, <1>3, UpTo
<1> QED
    BY <1>4

\* The products of what a function has for the first numbers.
Multiplies(f, u) ==
    u \in [Nat -> Int] /\ u[0] = 1 /\ \A n \in Nat : u[n + 1] = u[n] * f[n + 1]
Product(f) == CHOOSE u : Multiplies(f, u)

\* The product of the first n values, by one factor at a time.
LEMMA ProductIs ==
    ASSUME NEW f \in [Nat -> Int]
    PROVE  Multiplies(f, Product(f))
<1> DEFINE Made(m, g) == /\ g \in [0 .. m -> Int] /\ g[0] = 1
                         /\ \A i \in 1 .. m : g[i] = g[i - 1] * f[i]
           some(m) == CHOOSE g : Made(m, g)
           u == [n \in Nat |-> some(n)[n]]
<1>1. ASSUME NEW m \in Nat PROVE \E g : Made(m, g)
    <2> DEFINE S == {i \in 0 .. m : \E g : Made(i, g)}
    <2>1. 0 \in S
        <3> DEFINE g == [i \in 0 .. 0 |-> 1]
        <3>1. g \in [0 .. 0 -> Int] /\ g[0] = 1
            OBVIOUS
        <3> HIDE DEF g
        <3>2. Made(0, g)
            BY <3>1
        <3> HIDE DEF Made
        <3> QED
            BY <3>2
    <2>2. ASSUME NEW i \in 1 .. m, i - 1 \in S PROVE i \in S
        <3>1. PICK g : Made(i - 1, g)
            BY <2>2
        <3> DEFINE h == [j \in 0 .. i |-> IF j = i THEN g[i - 1] * f[i] ELSE g[j]]
        <3>2. i - 1 \in 0 .. i - 1 /\ i \in Nat /\ 0 \in 0 .. i /\ i # 0
            OBVIOUS
        <3>3. g[i - 1] \in Int /\ f[i] \in Int /\ g[0] = 1
            BY <3>1, <3>2
        <3>4. ASSUME NEW j \in 0 .. i PROVE h[j] \in Int
            <4>1. j # i => j \in 0 .. i - 1
                OBVIOUS
            <4> QED
                BY <3>1, <3>3, <4>1
        <3>5. ASSUME NEW j \in 1 .. i PROVE h[j] = h[j - 1] * f[j]
            <4>1. j \in 0 .. i /\ j - 1 \in 0 .. i /\ j - 1 # i
                OBVIOUS
            <4>2. h[j - 1] = g[j - 1]
                BY <4>1
            <4>3. CASE j = i
                BY <4>1, <4>2, <4>3
            <4>4. CASE j # i
                <5>1. j \in 1 .. i - 1
                    BY <4>4
                <5>2. h[j] = g[j] /\ g[j] = g[j - 1] * f[j]
                    BY <3>1, <4>1, <4>4, <5>1
                <5> QED
                    BY <4>2, <5>2
            <4> QED
                BY <4>3, <4>4
        <3>6. h[0] = 1 /\ h \in [0 .. i -> Int]
            BY <3>2, <3>3, <3>4
        <3> HIDE DEF h
        <3>7. Made(i, h)
            BY <3>5, <3>6
        <3> HIDE DEF Made
        <3> QED
            BY <3>7
    <2>3. m \in S
        <3> HIDE DEF S
        <3> QED
            BY <2>1, <2>2, UpTo
    <2> QED
        BY <2>3
<1>2. ASSUME NEW m \in Nat PROVE Made(m, some(m))
    <2> HIDE DEF Made
    <2> QED
        BY <1>1
<1> HIDE DEF some
<1>3. ASSUME NEW m \in Nat PROVE some(m)[m] = some(m + 1)[m]
    <2> DEFINE S == {i \in 0 .. m : some(m)[i] = some(m + 1)[i]}
    <2>0. m + 1 \in Nat /\ \A i \in 1 .. m : i \in 1 .. m + 1
        OBVIOUS
    <2>1. 0 \in S
        BY <1>2, <2>0
    <2>2. ASSUME NEW i \in 1 .. m, i - 1 \in S PROVE i \in S
        <3>1. some(m)[i] = some(m)[i - 1] * f[i]
            BY <1>2
        <3>2. some(m + 1)[i] = some(m + 1)[i - 1] * f[i]
            BY <1>2, <2>0
        <3>3. some(m)[i - 1] = some(m + 1)[i - 1]
            BY <2>2
        <3> QED
            BY <3>1, <3>2, <3>3
    <2>3. m \in S
        <3> HIDE DEF S
        <3> QED
            BY <2>1, <2>2, UpTo
    <2> QED
        BY <2>3
<1>4. \A n \in Nat : u[n] = some(n)[n] /\ some(n)[n] \in Int
    <2>1. \A n \in Nat : n \in 0 .. n
        OBVIOUS
    <2> QED
        BY <1>2, <2>1
<1>5. u \in [Nat -> Int]
    BY <1>4
<1> HIDE DEF u
<1>6. ASSUME NEW n \in Nat PROVE u[n + 1] = u[n] * f[n + 1]
    <2>1. n + 1 \in Nat /\ n + 1 \in 1 .. n + 1 /\ (n + 1) - 1 = n
        OBVIOUS
    <2>2. some(n + 1)[n + 1] = some(n + 1)[n] * f[n + 1]
        BY <1>2, <2>1
    <2> QED
        BY <1>3, <1>4, <2>1, <2>2
<1>7. u[0] = 1
    BY <1>2, <1>4
<1>8. Multiplies(f, u)
    BY <1>5, <1>6, <1>7 DEF Multiplies
<1> QED
    BY <1>8 DEF Product

\* The powers of a number.
Power(b) == Product([n \in Nat |-> b])

\* A power, by one factor at a time.
LEMMA PowerIs ==
    ASSUME NEW b \in Int
    PROVE  /\ Power(b)[0] = 1
           /\ \A n \in Nat : Power(b)[n] \in Int
           /\ \A n \in Nat : Power(b)[n + 1] = b * Power(b)[n]
<1> DEFINE f == [n \in Nat |-> b]
           u == Product(f)
<1>1. f \in [Nat -> Int] /\ \A n \in Nat : f[n + 1] = b
    OBVIOUS
<1> HIDE DEF f
<1>2. Multiplies(f, u)
    BY <1>1, ProductIs
<1> HIDE DEF u
<1>3. u[0] = 1 /\ \A n \in Nat : u[n] \in Int
    BY <1>2 DEF Multiplies
<1>4. ASSUME NEW n \in Nat PROVE u[n + 1] = b * u[n]
    <2>1. u[n + 1] = u[n] * b
        BY <1>1, <1>2 DEF Multiplies
    <2> QED
        BY <1>3, <2>1
<1> QED
    BY <1>3, <1>4 DEF Power, u, f

\* Exponents add up in a product.
LEMMA PowerAdds ==
    ASSUME NEW b \in Int, NEW m \in Nat, NEW n \in Nat
    PROVE  Power(b)[m + n] = Power(b)[m] * Power(b)[n]
<1> DEFINE S == {i \in 0 .. n : Power(b)[m + i] = Power(b)[m] * Power(b)[i]}
<1>1. 0 \in S
    <2>1. Power(b)[0] = 1 /\ Power(b)[m] \in Int /\ m + 0 = m
        BY PowerIs
    <2> QED
        BY <2>1
<1>2. ASSUME NEW i \in 1 .. n, i - 1 \in S PROVE i \in S
    <2>1. /\ i - 1 \in Nat /\ (i - 1) + 1 = i
          /\ m + (i - 1) \in Nat /\ (m + (i - 1)) + 1 = m + i
        OBVIOUS
    <2>2. Power(b)[i] = b * Power(b)[i - 1] /\ Power(b)[i - 1] \in Int /\ Power(b)[m] \in Int
        BY <2>1, PowerIs
    <2>3. Power(b)[m + i] = b * Power(b)[m + (i - 1)]
        BY <2>1, PowerIs
    <2>4. Power(b)[m + (i - 1)] = Power(b)[m] * Power(b)[i - 1]
        BY <1>2
    <2>5. \A x, y \in Int : b * (x * y) = x * (b * y)
        OBVIOUS
    <2> QED
        BY <2>2, <2>3, <2>4, <2>5
<1>3. n \in S
    <2> HIDE DEF S
    <2> QED
        BY <1>1, <1>2, UpTo
<1> QED
    BY <1>3

\* Exponents multiply in a power of a power.
LEMMA PowerOfPower ==
    ASSUME NEW b \in Int, NEW m \in Nat, NEW n \in Nat
    PROVE  Power(Power(b)[m])[n] = Power(b)[m * n]
<1> DEFINE a == Power(b)[m]
           S == {i \in 0 .. n : Power(a)[i] = Power(b)[m * i]}
<1>0. a \in Int
    BY PowerIs
<1> HIDE DEF a
<1>1. 0 \in S
    <2>1. m * 0 = 0 /\ Power(a)[0] = 1 /\ Power(b)[0] = 1
        BY <1>0, PowerIs
    <2> QED
        BY <2>1
<1>2. ASSUME NEW i \in 1 .. n, i - 1 \in S PROVE i \in S
    <2>1. i - 1 \in Nat /\ (i - 1) + 1 = i /\ m * (i - 1) \in Nat /\ m + m * (i - 1) = m * i
        OBVIOUS
    <2>2. Power(a)[i] = a * Power(a)[i - 1]
        BY <1>0, <2>1, PowerIs
    <2>3. Power(b)[m + m * (i - 1)] = a * Power(b)[m * (i - 1)]
        BY <2>1, PowerAdds DEF a
    <2>4. Power(a)[i - 1] = Power(b)[m * (i - 1)]
        BY <1>2
    <2> QED
        BY <2>1, <2>2, <2>3, <2>4
<1>3. n \in S
    <2> HIDE DEF S
    <2> QED
        BY <1>1, <1>2, UpTo
<1> QED
    BY <1>3 DEF a

\* Numbers that are equal modulo another.
Same(m, a, b) == \E k \in Int : a = b + m * k

\* A number is the same as itself.
LEMMA SameItself ==
    ASSUME NEW m \in Int, NEW a \in Int
    PROVE  Same(m, a, a)
<1>1. a = a + m * 0 /\ 0 \in Int
    OBVIOUS
<1> QED
    BY <1>1 DEF Same

\* It does not matter which of two numbers comes first.
LEMMA SameBack ==
    ASSUME NEW m \in Int, NEW a \in Int, NEW b \in Int, Same(m, a, b)
    PROVE  Same(m, b, a)
<1>1. PICK k \in Int : a = b + m * k
    BY DEF Same
<1>2. b = a + m * (-k) /\ -k \in Int
    BY <1>1
<1> QED
    BY <1>2 DEF Same

\* What is the same as a third number is the same.
LEMMA SameThrough ==
    ASSUME NEW m \in Int, NEW a \in Int, NEW b \in Int, NEW c \in Int, Same(m, a, b), Same(m, b, c)
    PROVE  Same(m, a, c)
<1>1. PICK k \in Int : a = b + m * k
    BY DEF Same
<1>2. PICK l \in Int : b = c + m * l
    BY DEF Same
<1>3. a = c + m * (k + l) /\ k + l \in Int
    BY <1>1, <1>2
<1> QED
    BY <1>3 DEF Same

\* Products of the same are the same.
LEMMA SameTimes ==
    ASSUME NEW m \in Int, NEW a \in Int, NEW b \in Int, NEW c \in Int, NEW d \in Int,
           Same(m, a, c), Same(m, b, d)
    PROVE  Same(m, a * b, c * d)
<1>1. PICK k \in Int : a = c + m * k
    BY DEF Same
<1>2. PICK l \in Int : b = d + m * l
    BY DEF Same
<1> DEFINE n == c * l + k * d + m * k * l
<1>3. a * b = c * d + m * n /\ n \in Int
    BY <1>1, <1>2
<1> HIDE DEF n
<1> QED
    BY <1>3 DEF Same

\* Powers of the same are the same.
LEMMA SamePower ==
    ASSUME NEW m \in Int, NEW a \in Int, NEW b \in Int, NEW n \in Nat, Same(m, a, b)
    PROVE  Same(m, Power(a)[n], Power(b)[n])
<1> DEFINE S == {i \in 0 .. n : Same(m, Power(a)[i], Power(b)[i])}
<1>1. 0 \in S
    <2>1. Power(a)[0] = 1 /\ Power(b)[0] = 1 /\ Same(m, 1, 1)
        BY PowerIs, SameItself
    <2> QED
        BY <2>1
<1>2. ASSUME NEW i \in 1 .. n, i - 1 \in S PROVE i \in S
    <2>1. i - 1 \in Nat /\ (i - 1) + 1 = i
        OBVIOUS
    <2>2. /\ Power(a)[i] = a * Power(a)[i - 1] /\ Power(a)[i - 1] \in Int
          /\ Power(b)[i] = b * Power(b)[i - 1] /\ Power(b)[i - 1] \in Int
        BY <2>1, PowerIs
    <2>3. Same(m, Power(a)[i - 1], Power(b)[i - 1])
        BY <1>2
    <2>4. Same(m, a * Power(a)[i - 1], b * Power(b)[i - 1])
        BY <2>2, <2>3, SameTimes
    <2> QED
        BY <2>2, <2>4
<1>3. n \in S
    <2> HIDE DEF S
    <2> QED
        BY <1>1, <1>2, UpTo
<1> QED
    BY <1>3

\* The remainder is the only small number that is equal.
LEMMA Remainder ==
    ASSUME NEW m \in Nat \ {0}, NEW a \in Int
    PROVE  (a % m) \in 0 .. m - 1 /\ Same(m, (a % m), a) /\ Same(m, a, (a % m))
<1>1. PICK q, r : q = a \div m /\ r = (a % m)
    OBVIOUS
<1>2. a = m * q + r /\ r \in 0 .. m - 1 /\ q \in Int
    BY <1>1
<1>3. a = r + m * q /\ r = a + m * (-q) /\ -q \in Int
    BY <1>2
<1> QED
    BY <1>1, <1>2, <1>3 DEF Same

\* Of the numbers below the modulus, no two are the same.
LEMMA SmallSame ==
    ASSUME NEW m \in Nat \ {0}, NEW r \in 0 .. m - 1, NEW s \in 0 .. m - 1, Same(m, r, s)
    PROVE  r = s
<1>1. PICK k \in Int : r = s + m * k
    BY DEF Same
<1>2. k <= -1 => m * k <= -m
    OBVIOUS
<1>3. k >= 1 => m * k >= m
    OBVIOUS
<1>4. m * k \in Int /\ (k = 0 => m * k = 0)
    OBVIOUS
<1> QED
    BY <1>1, <1>2, <1>3, <1>4

\* Powers by squaring and reducing.
LEMMA ModPowIs ==
    ASSUME NEW base \in Int, NEW exp \in Nat, NEW m \in Nat \ {0}
    PROVE  /\ Delay!ModPow(base, exp, m) \in 0 .. m - 1
           /\ Same(m, Delay!ModPow(base, exp, m), Power(base)[exp])
<1> DEFINE value(f, e) ==
             IF e = 0 THEN 1
             ELSE (f[e \div 2] * f[e \div 2] * (IF e % 2 = 1 THEN (base % m) ELSE 1)) % m
           Body(f) == [e \in 0 .. exp |-> value(f, e)]
           F == [x \in (0 .. exp) \X [0 .. exp -> Int] |-> value(x[2], x[1])]
           P == CHOOSE f : f = Body(f)
<1>0. ASSUME NEW e \in 1 .. exp
      PROVE  e \div 2 \in 0 .. e - 1 /\ e \div 2 \in 0 .. exp /\ e # 0
    OBVIOUS
<1>1. ASSUME NEW a \in Int, NEW e \in Nat
      PROVE  (a * a * (IF e % 2 = 1 THEN (base % m) ELSE 1)) % m \in Int
    <2>1. (base % m) \in Int
        OBVIOUS
    <2>2. PICK c \in Int : c = IF e % 2 = 1 THEN (base % m) ELSE 1
        BY <2>1
    <2>3. (a * a * c) \in Int
        OBVIOUS
    <2>4. (a * a * c) % m \in Int
        BY <2>3
    <2> QED
        BY <2>2, <2>4
<1>2. ASSUME NEW e \in 0 .. exp, NEW g \in [0 .. exp -> Int]
      PROVE  F[<<e, g>>] = value(g, e) /\ value(g, e) \in Int
    <2>1. F[<<e, g>>] = value(g, e)
        OBVIOUS
    <2>2. CASE e = 0
        BY <2>1, <2>2
    <2>3. CASE e # 0
        <3>1. g[e \div 2] \in Int /\ e \in Nat
            BY <1>0, <2>3
        <3> HIDE DEF F
        <3> QED
            BY <1>1, <2>1, <2>3, <3>1
    <2> QED
        BY <2>2, <2>3
<1>3. F \in [(0 .. exp) \X [0 .. exp -> Int] -> Int]
    <2>1. ASSUME NEW x \in (0 .. exp) \X [0 .. exp -> Int] PROVE value(x[2], x[1]) \in Int
        <3>1. x[1] \in 0 .. exp /\ x[2] \in [0 .. exp -> Int]
            OBVIOUS
        <3> HIDE DEF F, value
        <3> QED
            BY <1>2, <3>1
    <2> HIDE DEF value
    <2> QED
        BY <2>1
<1>4. \A e \in 0 .. exp : \A g, h \in [0 .. exp -> Int] :
         (\A s \in 0 .. e - 1 : g[s] = h[s]) => F[<<e, g>>] = F[<<e, h>>]
    <2> TAKE e \in 0 .. exp
    <2> TAKE g, h \in [0 .. exp -> Int]
    <2> HAVE \A s \in 0 .. e - 1 : g[s] = h[s]
    <2>1. e = 0 \/ g[e \div 2] = h[e \div 2]
        BY <1>0
    <2>2. value(g, e) = value(h, e)
        BY <2>1
    <2> HIDE DEF F, value
    <2> QED
        BY <1>2, <2>2
<1>5. PICK f \in [0 .. exp -> Int] : \A e \in 0 .. exp : f[e] = F[<<e, f>>]
    <2> HIDE DEF F, value
    <2>1. PICK D, G, d : D = Int /\ G = F /\ d = 1
        OBVIOUS
    <2>2. d \in D /\ exp \in Nat
        BY <2>1
    <2>3. Recursive(exp, Int, F)
        BY <1>3, <1>4 DEF Recursive
    <2>4. Recursive(exp, D, G)
        BY <2>1, <2>3, Zenon
    <2>5. \E f \in [0 .. exp -> D] : \A e \in 0 .. exp : f[e] = G[<<e, f>>]
        BY <2>2, <2>4, RecursionExists
    <2> QED
        BY <2>1, <2>5, Zenon
<1>6. f = Body(f)
    <2>1. \A e \in 0 .. exp : f[e] = value(f, e)
        <3> HIDE DEF F, value
        <3> QED
            BY <1>2, <1>5
    <2> HIDE DEF F, value
    <2> QED
        BY <2>1
<1>7. P = Body(P)
    <2> HIDE DEF Body
    <2> QED
        BY <1>6
<1>8. Delay!ModPow(base, exp, m) = P[exp] % m
    BY DEF Delay!ModPow
<1> HIDE DEF P
<1>9. \A e \in 0 .. exp : P[e] = value(P, e)
    <2> HIDE DEF value
    <2> QED
        BY <1>7
<1> DEFINE S == {e \in 0 .. exp : ~ (P[e] \in Int /\ Same(m, P[e], Power(base)[e]))}
<1>10. S = {}
    <2> SUFFICES ASSUME S # {} PROVE FALSE
        OBVIOUS
    <2>1. PICK e \in S : \A j \in S : e <= j
        <3>1. S \subseteq Nat
            OBVIOUS
        <3> HIDE DEF S
        <3> QED
            BY <3>1, LeastNumber
    <2>2. e \in 0 .. exp /\ e \in Nat
        OBVIOUS
    <2>3. CASE e = 0
        <3>1. P[e] = 1 /\ Power(base)[e] = 1
            BY <1>9, <2>2, <2>3, PowerIs
        <3> QED
            BY <3>1, SameItself
    <2>4. CASE e # 0
        <3> DEFINE h == e \div 2
        <3>1. h \in 0 .. exp /\ h < e /\ h \in Nat
            BY <1>0, <2>2, <2>4
        <3>2. e = (h + h) + (e % 2) /\ e % 2 \in {0, 1}
            BY <2>2
        <3>3. P[h] \in Int /\ Same(m, P[h], Power(base)[h])
            <4> HIDE DEF h
            <4> QED
                BY <2>1, <3>1
        <3>4. PICK c \in Int : c = IF e % 2 = 1 THEN (base % m) ELSE 1
            <4>1. (base % m) \in Int
                OBVIOUS
            <4> QED
                BY <4>1
        <3>5. Same(m, c, Power(base)[e % 2])
            <4>1. Power(base)[0] = 1 /\ Power(base)[0 + 1] = base * Power(base)[0]
                BY PowerIs
            <4>2. Power(base)[1] = base
                BY <4>1
            <4>3. CASE e % 2 = 1
                BY <3>4, <4>2, <4>3, Remainder
            <4>4. CASE e % 2 = 0
                BY <3>4, <4>1, <4>4, SameItself
            <4> QED
                BY <3>2, <4>3, <4>4
        <3>6. P[e] = (P[h] * P[h] * c) % m
            BY <1>9, <2>2, <2>4, <3>4
        <3> HIDE DEF h
        <3>7. PICK a \in Int : a = P[h]
            BY <3>3
        <3>8. PICK b \in Int : b = Power(base)[h]
            BY <3>1, PowerIs
        <3>9. PICK o \in Int : o = Power(base)[e % 2]
            BY <3>2, PowerIs
        <3>10. Same(m, a * a, b * b)
            BY <3>3, <3>7, <3>8, SameTimes
        <3>11. a * a \in Int /\ b * b \in Int
            OBVIOUS
        <3>12. Same(m, (a * a) * c, (b * b) * o)
            <4>1. PICK s, t : s = a * a /\ t = b * b
                OBVIOUS
            <4>2. s \in Int /\ t \in Int /\ Same(m, s, t) /\ Same(m, c, o)
                BY <3>5, <3>9, <3>10, <3>11, <4>1
            <4>3. Same(m, s * c, t * o)
                BY <4>2, SameTimes
            <4> QED
                BY <4>1, <4>3
        <3>13. Power(base)[e] = (b * b) * o
            <4>1. Power(base)[h + h] = b * b
                BY <3>1, <3>8, PowerAdds
            <4>2. Power(base)[(h + h) + (e % 2)] = Power(base)[h + h] * Power(base)[e % 2]
                <5>1. h + h \in Nat /\ e % 2 \in Nat
                    BY <3>1, <3>2
                <5> QED
                    BY <5>1, PowerAdds
            <4> QED
                BY <3>2, <3>9, <4>1, <4>2
        <3>14. (a * a) * c \in Int /\ (b * b) * o \in Int
            BY <3>11
        <3>15. P[e] \in Int /\ Same(m, P[e], (a * a) * c)
            <4>1. P[e] = ((a * a) * c) % m
                BY <3>6, <3>7
            <4>2. 0 .. m - 1 \subseteq Int
                OBVIOUS
            <4> QED
                BY <3>14, <4>1, <4>2, Remainder
        <3>16. Same(m, P[e], Power(base)[e])
            BY <3>12, <3>13, <3>14, <3>15, SameThrough
        <3> QED
            BY <3>15, <3>16
    <2> QED
        BY <2>3, <2>4
<1>11. P[exp] \in Int /\ Same(m, P[exp], Power(base)[exp])
    <2>1. exp \in 0 .. exp
        OBVIOUS
    <2> QED
        BY <1>10, <2>1
<1>12. (P[exp] % m) \in 0 .. m - 1 /\ Same(m, (P[exp] % m), P[exp])
    BY <1>11, Remainder
<1>13. Power(base)[exp] \in Int /\ 0 .. m - 1 \subseteq Int
    BY PowerIs
<1>14. Same(m, (P[exp] % m), Power(base)[exp])
    BY <1>11, <1>12, <1>13, SameThrough
<1> QED
    BY <1>8, <1>12, <1>14

\* Such values exist where each is computed from the one before.
Steps(M, D, d, step, g) ==
    /\ g \in [0 .. M -> D]
    /\ g[0] = d
    /\ \A i \in 1 .. M : g[i] = step[<<i, g[i - 1]>>]

\* They do.
LEMMA StepsExist ==
    ASSUME NEW M \in Nat, NEW D, NEW d \in D, NEW step \in [(1 .. M) \X D -> D]
    PROVE  \E g : Steps(M, D, d, step, g)
<1> DEFINE value(g, t) == IF t = 0 THEN d ELSE step[<<t, g[t - 1]>>]
           F == [x \in (0 .. M) \X [0 .. M -> D] |-> value(x[2], x[1])]
<1>1. ASSUME NEW t \in 0 .. M, NEW g \in [0 .. M -> D]
      PROVE  F[<<t, g>>] = value(g, t) /\ value(g, t) \in D
    <2>1. F[<<t, g>>] = value(g, t)
        OBVIOUS
    <2>2. CASE t # 0
        <3>1. t \in 1 .. M /\ t - 1 \in 0 .. M
            BY <2>2
        <3>2. <<t, g[t - 1]>> \in (1 .. M) \X D
            BY <3>1
        <3>3. step[<<t, g[t - 1]>>] \in D
            BY <3>2
        <3> HIDE DEF F
        <3> QED
            BY <2>1, <2>2, <3>3
    <2>3. CASE t = 0
        BY <2>1, <2>3
    <2> QED
        BY <2>2, <2>3
<1>2. F \in [(0 .. M) \X [0 .. M -> D] -> D]
    <2>1. ASSUME NEW x \in (0 .. M) \X [0 .. M -> D] PROVE value(x[2], x[1]) \in D
        <3>1. x[1] \in 0 .. M /\ x[2] \in [0 .. M -> D]
            OBVIOUS
        <3> HIDE DEF F, value
        <3> QED
            BY <1>1, <3>1
    <2> HIDE DEF value
    <2> QED
        BY <2>1
<1>3. \A t \in 0 .. M : \A g, h \in [0 .. M -> D] :
         (\A s \in 0 .. t - 1 : g[s] = h[s]) => F[<<t, g>>] = F[<<t, h>>]
    <2> TAKE t \in 0 .. M
    <2> TAKE g, h \in [0 .. M -> D]
    <2> HAVE \A s \in 0 .. t - 1 : g[s] = h[s]
    <2>1. t = 0 \/ t - 1 \in 0 .. t - 1
        OBVIOUS
    <2>2. value(g, t) = value(h, t)
        BY <2>1
    <2> HIDE DEF F, value
    <2> QED
        BY <1>1, <2>2
<1>4. PICK g \in [0 .. M -> D] : \A t \in 0 .. M : g[t] = F[<<t, g>>]
    <2> HIDE DEF F, value
    <2>1. Recursive(M, D, F)
        BY <1>2, <1>3 DEF Recursive
    <2> QED
        BY <2>1, RecursionExists
<1>5. \A t \in 0 .. M : g[t] = value(g, t)
    <2> HIDE DEF F, value
    <2> QED
        BY <1>1, <1>4
<1>6. 0 \in 0 .. M /\ \A i \in 1 .. M : i \in 0 .. M /\ i # 0
    OBVIOUS
<1> QED
    BY <1>5, <1>6 DEF Steps

\* The powers of two are positive.
LEMMA PowersOfTwo ==
    ASSUME NEW n \in Nat
    PROVE  Power(2)[n] \in Nat \ {0}
<1> DEFINE S == {i \in 0 .. n : Power(2)[i] \in Nat \ {0}}
<1>1. 0 \in S
    BY PowerIs
<1>2. ASSUME NEW i \in 1 .. n, i - 1 \in S PROVE i \in S
    <2>1. i - 1 \in Nat /\ (i - 1) + 1 = i
        OBVIOUS
    <2>2. Power(2)[i] = 2 * Power(2)[i - 1]
        BY <2>1, PowerIs
    <2> QED
        BY <1>2, <2>2
<1>3. n \in S
    <2> HIDE DEF S
    <2> QED
        BY <1>1, <1>2, UpTo
<1> QED
    BY <1>3

\* The modulus of the squarings.
LEMMA ModulusIs == Delay!N \in Nat \ {0} /\ Delay!N > 2 /\ Delay!N = FirstPrime * SecondPrime
<1>1. FirstPrime \in Nat \ {0, 1} /\ SecondPrime \in Nat \ {0, 1}
    BY DelayAssumption DEF Prime
<1>2. FirstPrime * SecondPrime >= 2 * SecondPrime
    BY <1>1
<1> QED
    BY <1>1, <1>2 DEF Delay!N

\* What is squared is less than the modulus.
Residues == 0 .. Delay!N - 1

\* What a challenge is encoded as.
LEMMA InputEncoded ==
    ASSUME NEW c \in Nat
    PROVE  Delay!EncodeInput(c) \in Residues
<1>1. PICK n \in Nat : n = Delay!N - 2 /\ n # 0
    BY ModulusIs
<1>2. (c % n) \in 0 .. n - 1
    <2>1. n \in Nat \ {0} /\ c \in Int
        BY <1>1
    <2> QED
        BY <2>1, Remainder
<1>3. (c % n) + 2 \in 0 .. Delay!N - 1
    BY <1>1, <1>2, ModulusIs
<1> QED
    BY <1>1, <1>3 DEF Delay!EncodeInput, Residues

\* The numbers that hashes are of.
LEMMA HashIsNumber ==
    ASSUME NEW inputs \in Seq(Nat)
    PROVE  Delay!HashToBigInt(inputs) \in Nat
<1> DEFINE M == Len(inputs)
           next(i, a) == (a * 31 + inputs[i] * 17 + 7) % 10007
           Body(h) == [i \in 0 .. M |-> IF i = 0 THEN 3 ELSE next(i, h[i - 1])]
           step == [x \in (1 .. M) \X Nat |-> next(x[1], x[2])]
           H == CHOOSE h : h = Body(h)
<1>0. M \in Nat
    OBVIOUS
<1>1. ASSUME NEW i \in 1 .. M, NEW a \in Nat PROVE next(i, a) \in Nat
    <2>1. inputs[i] \in Nat
        OBVIOUS
    <2>2. PICK b \in Nat : b = a * 31 + inputs[i] * 17 + 7
        BY <2>1
    <2>3. (b % 10007) \in Nat
        BY <2>2
    <2> QED
        BY <2>2, <2>3
<1> HIDE DEF M, next
<1>2. step \in [(1 .. M) \X Nat -> Nat]
    <2>1. ASSUME NEW x \in (1 .. M) \X Nat PROVE next(x[1], x[2]) \in Nat
        <3>1. x[1] \in 1 .. M /\ x[2] \in Nat
            OBVIOUS
        <3> QED
            BY <1>1, <3>1
    <2> QED
        BY <2>1
<1>3. PICK g : Steps(M, Nat, 3, step, g)
    <2>1. 3 \in Nat
        OBVIOUS
    <2> HIDE DEF step
    <2> QED
        BY <1>0, <1>2, <2>1, StepsExist
<1>31. g \in [0 .. M -> Nat] /\ g[0] = 3 /\ \A i \in 1 .. M : g[i] = step[<<i, g[i - 1]>>]
    <2> HIDE DEF step
    <2> QED
        BY <1>3 DEF Steps
<1>4. g = Body(g)
    <2>1. ASSUME NEW i \in 0 .. M PROVE g[i] = IF i = 0 THEN 3 ELSE next(i, g[i - 1])
        <3>1. CASE i = 0
            BY <1>31, <3>1
        <3>2. CASE i # 0
            <4>1. i \in 1 .. M /\ i - 1 \in 0 .. M
                BY <1>0, <3>2
            <4>2. <<i, g[i - 1]>> \in (1 .. M) \X Nat
                BY <1>31, <4>1
            <4>3. step[<<i, g[i - 1]>>] = next(i, g[i - 1])
                BY <4>2
            <4> HIDE DEF step
            <4> QED
                BY <1>31, <3>2, <4>1, <4>3
        <3> QED
            BY <3>1, <3>2
    <2> HIDE DEF step
    <2> QED
        BY <1>31, <2>1
<1>5. H = Body(H)
    <2> HIDE DEF Body
    <2> QED
        BY <1>4
<1>6. Delay!HashToBigInt(inputs) = H[M]
    BY DEF Delay!HashToBigInt, M, next
<1> HIDE DEF H
<1>7. \A i \in 0 .. M : H[i] = IF i = 0 THEN 3 ELSE next(i, H[i - 1])
    BY <1>5
<1> DEFINE S == {i \in 0 .. M : H[i] \in Nat}
<1>8. 0 \in S
    BY <1>0, <1>7
<1>9. ASSUME NEW i \in 1 .. M, i - 1 \in S PROVE i \in S
    <2>1. i \in 0 .. M /\ i # 0 /\ H[i - 1] \in Nat
        BY <1>9
    <2> QED
        BY <1>1, <1>7, <2>1
<1>10. M \in 0 .. M
    BY <1>0
<1>11. M \in S
    <2> HIDE DEF S
    <2> QED
        BY <1>0, <1>8, <1>9, <1>10, UpTo
<1> QED
    BY <1>6, <1>11

\* What a hash finds among the primes is one of them.
LEMMA PrimeIs ==
    ASSUME NEW x \in Nat, NEW y \in Nat
    PROVE  Delay!HashToPrime(x, y) \in Nat \ {0, 1}
<1>1. <<x, y>> \in Seq(Nat)
    OBVIOUS
<1>2. PICK h \in Nat : h = Delay!HashToBigInt(<<x, y>>)
    BY <1>1, HashIsNumber
<1>3. PICK n \in Nat \ {0} : n = Len(Primes)
    BY DelayAssumption
<1>4. (h % n) + 1 \in 1 .. n
    OBVIOUS
<1>5. Primes[(h % n) + 1] \in Nat \ {0, 1}
    BY <1>3, <1>4, DelayAssumption
<1> QED
    BY <1>2, <1>3, <1>5 DEF Delay!HashToPrime

\* Repeated squaring computes the powers whose exponents are the powers of two.
LEMMA SquaredIs ==
    ASSUME NEW x \in Residues, NEW T \in Nat
    PROVE  /\ Delay!Squared(x, T)[0] = x
           /\ \A i \in 1 .. T : Delay!Squared(x, T)[i]
                 = (Delay!Squared(x, T)[i - 1] * Delay!Squared(x, T)[i - 1]) % Delay!N
           /\ \A i \in 0 .. T : /\ Delay!Squared(x, T)[i] \in Residues
                                /\ Same(Delay!N, Delay!Squared(x, T)[i], Power(x)[Power(2)[i]])
<1> DEFINE m == Delay!N
           R == 0 .. m - 1
           next(a) == (a * a) % m
           Body(h) == [i \in 0 .. T |-> IF i = 0 THEN x ELSE next(h[i - 1])]
           step == [z \in (1 .. T) \X R |-> next(z[2])]
           Y == CHOOSE h : h = Body(h)
<1>0. m \in Nat \ {0} /\ x \in R
    BY ModulusIs DEF Residues
<1> HIDE DEF m
<1>1. ASSUME NEW a \in R PROVE next(a) \in R /\ Same(m, next(a), a * a)
    <2>1. PICK b \in Int : b = a * a
        OBVIOUS
    <2>2. (b % m) \in 0 .. m - 1 /\ Same(m, (b % m), b)
        BY <1>0, Remainder
    <2> QED
        BY <2>1, <2>2
<1> HIDE DEF next
<1>2. step \in [(1 .. T) \X R -> R]
    <2>1. ASSUME NEW z \in (1 .. T) \X R PROVE next(z[2]) \in R
        <3>1. z[2] \in R
            OBVIOUS
        <3> HIDE DEF R
        <3> QED
            BY <1>1, <3>1
    <2> HIDE DEF R
    <2> QED
        BY <2>1
<1> HIDE DEF R
<1>3. PICK g : Steps(T, R, x, step, g)
    <2> HIDE DEF step
    <2> QED
        BY <1>0, <1>2, StepsExist
<1>31. g \in [0 .. T -> R] /\ g[0] = x /\ \A i \in 1 .. T : g[i] = step[<<i, g[i - 1]>>]
    <2> HIDE DEF step
    <2> QED
        BY <1>3 DEF Steps
<1>4. g = Body(g)
    <2>1. ASSUME NEW i \in 0 .. T PROVE g[i] = IF i = 0 THEN x ELSE next(g[i - 1])
        <3>1. CASE i = 0
            BY <1>31, <3>1
        <3>2. CASE i # 0
            <4>1. i \in 1 .. T /\ i - 1 \in 0 .. T
                BY <3>2
            <4>2. <<i, g[i - 1]>> \in (1 .. T) \X R
                BY <1>31, <4>1
            <4>3. step[<<i, g[i - 1]>>] = next(g[i - 1])
                BY <4>2
            <4> HIDE DEF step
            <4> QED
                BY <1>31, <3>2, <4>1, <4>3
        <3> QED
            BY <3>1, <3>2
    <2> HIDE DEF step
    <2> QED
        BY <1>31, <2>1
<1>5. Y = Body(Y)
    <2> HIDE DEF Body
    <2> QED
        BY <1>4
<1>6. Delay!Squared(x, T) = Y
    BY DEF Delay!Squared, m, next
<1> HIDE DEF Y
<1>7. \A i \in 0 .. T : Y[i] = IF i = 0 THEN x ELSE next(Y[i - 1])
    BY <1>5
<1>8. Y[0] = x /\ \A i \in 1 .. T : Y[i] = next(Y[i - 1])
    <2>1. 0 \in 0 .. T /\ \A i \in 1 .. T : i \in 0 .. T /\ i # 0
        OBVIOUS
    <2> QED
        BY <1>7, <2>1
<1> DEFINE S == {i \in 0 .. T : Y[i] \in R /\ Same(m, Y[i], Power(x)[Power(2)[i]])}
<1>9. x \in Int /\ R \subseteq Int
    BY <1>0 DEF R
<1>10. 0 \in S
    <2>1. Power(2)[0] = 1 /\ Power(x)[0] = 1 /\ Power(x)[0 + 1] = x * Power(x)[0]
        BY <1>9, PowerIs
    <2>2. Power(x)[Power(2)[0]] = x /\ Same(m, x, x)
        BY <1>0, <1>9, <2>1, SameItself
    <2> QED
        BY <1>0, <1>8, <2>2
<1>11. ASSUME NEW i \in 1 .. T, i - 1 \in S PROVE i \in S
    <2>1. i - 1 \in Nat /\ (i - 1) + 1 = i /\ i \in 0 .. T
        OBVIOUS
    <2>2. PICK a \in R : a = Y[i - 1] /\ Same(m, a, Power(x)[Power(2)[i - 1]])
        BY <1>11
    <2>3. PICK e \in Nat : e = Power(2)[i - 1]
        BY <2>1, PowersOfTwo
    <2>4. PICK b \in Int : b = Power(x)[e]
        BY <1>9, <2>3, PowerIs
    <2>5. Power(2)[i] = e + e
        <3>1. Power(2)[i] = 2 * e
            BY <2>1, <2>3, PowerIs
        <3> QED
            BY <3>1
    <2>6. Power(x)[e + e] = b * b
        BY <1>9, <2>4, PowerAdds
    <2>7. Same(m, a * a, b * b)
        BY <1>0, <1>9, <2>2, <2>3, <2>4, SameTimes
    <2>8. Y[i] \in R /\ Same(m, Y[i], a * a)
        BY <1>1, <1>8, <2>2
    <2>9. Same(m, Y[i], b * b)
        <3>0. Y[i] \in R /\ R \subseteq Int
            BY <1>9, <2>8
        <3>1. Y[i] \in Int /\ m \in Int
            <4>1. Y[i] \in Int
                BY <3>0, Zenon
            <4>2. m \in Int
                BY <1>0
            <4> QED
                BY <4>1, <4>2
        <3>2. a \in Int /\ a * a \in Int /\ b * b \in Int
            BY <1>9
        <3> QED
            BY <2>7, <2>8, <3>1, <3>2, SameThrough
    <2> QED
        BY <2>1, <2>5, <2>6, <2>8, <2>9
<1>12. \A i \in 0 .. T : i \in S
    <2> HIDE DEF S
    <2> QED
        BY <1>10, <1>11, UpTo
<1>13. \A i \in 0 .. T : Y[i] \in R /\ Same(m, Y[i], Power(x)[Power(2)[i]])
    BY <1>12
<1> QED
    BY <1>6, <1>8, <1>13 DEF m, R, Residues, next

\* The long division of the powers of two.
LEMMA LongDivision ==
    ASSUME NEW l \in Nat \ {0, 1}, NEW T \in Nat
    PROVE  \E r \in 0 .. l - 1 : /\ Delay!Quotient(l, T) \in Nat
                                 /\ Power(2)[T] = Delay!Quotient(l, T) * l + r
                                 /\ Same(l, Power(2)[T], r)
<1> DEFINE D == Nat \X (0 .. l - 1)
           start == <<0, 1>>
           next(a) == <<a[1] * 2 + (a[2] * 2) \div l, (a[2] * 2) % l>>
           Body(h) == [i \in 0 .. T |-> IF i = 0 THEN start ELSE next(h[i - 1])]
           step == [z \in (1 .. T) \X D |-> next(z[2])]
           Y == CHOOSE h : h = Body(h)
<1>0. start \in D /\ start[1] = 0 /\ start[2] = 1
    OBVIOUS
<1>1. ASSUME NEW a \in D
      PROVE  /\ next(a) \in D
             /\ next(a)[1] * l + next(a)[2] = 2 * (a[1] * l + a[2])
    <2>1. PICK b \in Nat, c \in 0 .. l - 1 : a[1] = b /\ a[2] = c
        OBVIOUS
    <2>2. PICK q, r : q = (c * 2) \div l /\ r = (c * 2) % l
        OBVIOUS
    <2>3. q \in Nat /\ r \in 0 .. l - 1 /\ c * 2 = l * q + r
        <3>1. c * 2 \in Nat /\ l \in Nat \ {0}
            OBVIOUS
        <3>2. \A e \in Nat : (e \div l) \in Nat /\ (e % l) \in 0 .. l - 1 /\ e = l * (e \div l) + (e % l)
            BY <3>1
        <3> QED
            BY <2>2, <3>1, <3>2
    <2>4. next(a) = <<b * 2 + q, r>>
        BY <2>1, <2>2
    <2> HIDE DEF next
    <2>5. b * 2 + q \in Nat
        BY <2>3
    <2>6. next(a)[1] = b * 2 + q /\ next(a)[2] = r
        BY <2>4
    <2>7. (b * 2 + q) * l + r = 2 * (b * l + c)
        <3>1. (b * 2 + q) * l = b * l * 2 + l * q
            BY <2>3
        <3>2. PICK u \in Int, v \in Int : u = b * l /\ v = l * q
            BY <2>3
        <3>3. 2 * (u + c) = u * 2 + c * 2
            OBVIOUS
        <3> QED
            BY <2>3, <3>1, <3>2, <3>3
    <2>8. next(a) \in D
        BY <2>3, <2>4, <2>5
    <2> QED
        BY <2>1, <2>6, <2>7, <2>8
<1> HIDE DEF next, start
<1>2. step \in [(1 .. T) \X D -> D]
    <2>1. ASSUME NEW z \in (1 .. T) \X D PROVE next(z[2]) \in D
        <3>1. z[2] \in D
            OBVIOUS
        <3> HIDE DEF D
        <3> QED
            BY <1>1, <3>1
    <2> HIDE DEF D
    <2> QED
        BY <2>1
<1>3. PICK g : Steps(T, D, start, step, g)
    <2> HIDE DEF step, D
    <2> QED
        BY <1>0, <1>2, StepsExist
<1>31. g \in [0 .. T -> D] /\ g[0] = start /\ \A i \in 1 .. T : g[i] = step[<<i, g[i - 1]>>]
    <2> HIDE DEF step, D
    <2> QED
        BY <1>3 DEF Steps
<1>4. g = Body(g)
    <2> HIDE DEF D
    <2>1. ASSUME NEW i \in 0 .. T PROVE g[i] = IF i = 0 THEN start ELSE next(g[i - 1])
        <3>1. CASE i = 0
            BY <1>31, <3>1
        <3>2. CASE i # 0
            <4>1. i \in 1 .. T /\ i - 1 \in 0 .. T
                BY <3>2
            <4>2. <<i, g[i - 1]>> \in (1 .. T) \X D
                BY <1>31, <4>1
            <4>3. step[<<i, g[i - 1]>>] = next(g[i - 1])
                BY <4>2
            <4> HIDE DEF step
            <4> QED
                BY <1>31, <3>2, <4>1, <4>3
        <3> QED
            BY <3>1, <3>2
    <2> HIDE DEF step
    <2> QED
        BY <1>31, <2>1
<1>5. Y = Body(Y)
    <2> HIDE DEF Body
    <2> QED
        BY <1>4
<1>6. Delay!Quotient(l, T) = Y[T][1]
    BY DEF Delay!Quotient, start, next
<1> HIDE DEF Y, D
<1>7. \A i \in 0 .. T : Y[i] = IF i = 0 THEN start ELSE next(Y[i - 1])
    BY <1>5
<1>8. Y[0] = start /\ \A i \in 1 .. T : Y[i] = next(Y[i - 1])
    <2>1. 0 \in 0 .. T /\ \A i \in 1 .. T : i \in 0 .. T /\ i # 0
        OBVIOUS
    <2> QED
        BY <1>7, <2>1
<1> DEFINE S == {i \in 0 .. T : Y[i] \in D /\ Power(2)[i] = Y[i][1] * l + Y[i][2]}
<1>9. 0 \in S
    <2>1. Power(2)[0] = 1 /\ 0 * l + 1 = 1
        BY PowerIs
    <2> QED
        BY <1>0, <1>8, <2>1
<1>10. ASSUME NEW i \in 1 .. T, i - 1 \in S PROVE i \in S
    <2>1. i - 1 \in Nat /\ (i - 1) + 1 = i /\ i \in 0 .. T
        OBVIOUS
    <2>2. Power(2)[i] = 2 * Power(2)[i - 1]
        BY <2>1, PowerIs
    <2>3. Y[i - 1] \in D /\ Power(2)[i - 1] = Y[i - 1][1] * l + Y[i - 1][2]
        BY <1>10
    <2>4. PICK a : a = Y[i - 1]
        OBVIOUS
    <2>5. next(a) \in D /\ next(a)[1] * l + next(a)[2] = 2 * (a[1] * l + a[2])
        BY <1>1, <2>3, <2>4
    <2>6. Y[i] = next(a)
        BY <1>8, <2>4
    <2>7. Y[i] \in D /\ Power(2)[i] = Y[i][1] * l + Y[i][2]
        BY <2>2, <2>3, <2>4, <2>5, <2>6
    <2> HIDE DEF Y
    <2> QED
        BY <2>1, <2>7
<1>11. T \in S
    <2> HIDE DEF S
    <2> QED
        BY <1>9, <1>10, UpTo
<1>12. PICK q \in Nat, r \in 0 .. l - 1 : Y[T] = <<q, r>> /\ Power(2)[T] = q * l + r
    <2>1. Y[T] \in D /\ Power(2)[T] = Y[T][1] * l + Y[T][2]
        BY <1>11
    <2> QED
        BY <2>1 DEF D
<1>13. Same(l, Power(2)[T], r)
    <2>1. q * l + r = r + l * q
        OBVIOUS
    <2> QED
        BY <1>12, <2>1 DEF Same
<1>14. Delay!Quotient(l, T) = q
    BY <1>6, <1>12
<1> QED
    BY <1>12, <1>13, <1>14

\* Wesolowski's proof: x^(2^T) is (x^q)^l times x^r.
LEMMA WesolowskiVerifies ==
    ASSUME NEW x \in Residues, NEW T \in Nat
    PROVE  Delay!VerifyWesolowski(x, Delay!Wesolowski(x, T))
<1>0. PICK m : m = Delay!N /\ m \in Nat \ {0}
    BY ModulusIs
<1>1. x \in Int /\ x \in Nat
    BY DEF Residues
<1>2. PICK y : y = Delay!Squared(x, T)[T]
    OBVIOUS
<1>3. y \in 0 .. m - 1 /\ Same(m, y, Power(x)[Power(2)[T]])
    <2>1. T \in 0 .. T
        OBVIOUS
    <2> QED
        BY <1>0, <1>2, <2>1, SquaredIs DEF Residues
<1>4. PICK l \in Nat \ {0, 1} : l = Delay!HashToPrime(x, y)
    <2>1. y \in Nat
        BY <1>0, <1>3
    <2> QED
        BY <1>1, <2>1, PrimeIs
<1>50. PICK q : q = Delay!Quotient(l, T)
    OBVIOUS
<1>5. PICK r \in 0 .. l - 1 : q \in Nat /\ Power(2)[T] = q * l + r /\ Same(l, Power(2)[T], r)
    BY <1>50, LongDivision
<1>6. PICK pi \in 0 .. m - 1 : pi = Delay!ModPow(x, q, m) /\ Same(m, pi, Power(x)[q])
    BY <1>0, <1>1, <1>5, ModPowIs
<1>7. PICK s \in 0 .. l - 1 : s = Delay!ModPow(2, T, l) /\ Same(l, s, Power(2)[T])
    <2>1. l \in Nat \ {0} /\ 2 \in Int
        OBVIOUS
    <2> QED
        BY <2>1, ModPowIs
<1>8. s = r
    <2>1. s \in Int /\ r \in Int /\ l \in Int /\ l \in Nat \ {0} /\ Power(2)[T] \in Int
        BY PowerIs
    <2>2. Same(l, s, r)
        BY <1>5, <1>7, <2>1, SameThrough
    <2> QED
        BY <2>1, <2>2, SmallSame
<1>9. PICK u \in 0 .. m - 1 : u = Delay!ModPow(pi, l, m) /\ Same(m, u, Power(pi)[l])
    <2>1. pi \in Int /\ l \in Nat
        OBVIOUS
    <2> QED
        BY <1>0, <2>1, ModPowIs
<1>10. PICK v \in 0 .. m - 1 : v = Delay!ModPow(x, r, m) /\ Same(m, v, Power(x)[r])
    <2>1. r \in Nat
        OBVIOUS
    <2> QED
        BY <1>0, <1>1, <2>1, ModPowIs
<1>11. PICK a \in Int, b \in Int, c \in Int :
          a = Power(x)[q] /\ b = Power(a)[l] /\ c = Power(x)[r]
    <2>1. PICK a \in Int : a = Power(x)[q]
        BY <1>1, <1>5, PowerIs
    <2>2. Power(a)[l] \in Int /\ Power(x)[r] \in Int
        BY <1>1, PowerIs
    <2> QED
        BY <2>1, <2>2
<1>12. Same(m, u, b)
    <2>1. m \in Int /\ pi \in Int /\ u \in Int /\ l \in Nat /\ Power(pi)[l] \in Int
        BY <1>0, PowerIs
    <2>2. Same(m, Power(pi)[l], b)
        BY <1>6, <1>11, <2>1, SamePower
    <2> QED
        BY <1>9, <2>1, <2>2, SameThrough
<1>13. Power(x)[Power(2)[T]] = b * c
    <2>1. q * l \in Nat /\ r \in Nat /\ l \in Nat
        BY <1>5
    <2>2. Power(x)[q * l + r] = Power(x)[q * l] * Power(x)[r]
        BY <1>1, <2>1, PowerAdds
    <2>3. Power(x)[q * l] = b
        BY <1>1, <1>5, <1>11, <2>1, PowerOfPower
    <2> QED
        BY <1>5, <1>11, <2>2, <2>3
<1>14. Same(m, u * v, y)
    <2>1. m \in Int /\ u \in Int /\ v \in Int /\ y \in Int /\ u * v \in Int /\ b * c \in Int
        BY <1>0, <1>3
    <2>2. Same(m, u * v, b * c)
        BY <1>10, <1>11, <1>12, <2>1, SameTimes
    <2>3. Same(m, b * c, y)
        BY <1>3, <1>13, <2>1, SameBack
    <2> QED
        BY <2>1, <2>2, <2>3, SameThrough
<1>15. y = (u * v) % m
    <2>1. PICK w \in Int : w = u * v
        OBVIOUS
    <2>2. (w % m) \in 0 .. m - 1 /\ Same(m, (w % m), w)
        BY <1>0, Remainder
    <2>3. (w % m) \in Int /\ y \in Int /\ m \in Int
        BY <1>0, <1>3, <2>2
    <2>4. Same(m, (w % m), y)
        BY <1>14, <2>1, <2>2, <2>3, SameThrough
    <2> QED
        BY <1>0, <1>3, <2>1, <2>2, <2>4, SmallSame
<1>16. PICK o : o = Delay!Wesolowski(x, T)
    OBVIOUS
<1>17. o.value = y /\ o.proof.pi = pi /\ o.proof.l = l /\ o.proof.T = T
    BY <1>0, <1>2, <1>4, <1>50, <1>6, <1>16 DEF Delay!Wesolowski
<1> QED
    BY <1>0, <1>4, <1>7, <1>8, <1>9, <1>10, <1>15, <1>16, <1>17 DEF Delay!VerifyWesolowski

\* The elements of Pietrzak's proof: the middle, then those of the left half.
Elements(Y, T, p) ==
    LET W == {Y[i] : i \in Nat}
    IN  /\ \A t \in 0 .. T : p[t] \in Seq(W)
        /\ \A t \in 2 .. T : \E rest \in Seq(W) :
              p[t] = <<Y[t \div 2]>> \o p[t \div 2] \o rest

\* The proof consists of such elements.
LEMMA PietrzakProved ==
    ASSUME NEW Y, NEW T \in Nat
    PROVE  \E p : Delay!PietrzakProve(Y, T) = p[T] /\ Elements(Y, T, p)
<1> DEFINE W == {Y[i] : i \in Nat}
           D == [Nat -> Seq(W)]
           half(t) == t \div 2
           parts(g, t, s) == <<Y[s + half(t)]>> \o g[half(t)][s] \o g[t - half(t)][s + half(t)]
           value(g, t) == [s \in Nat |-> IF t <= 1 THEN << >> ELSE parts(g, t, s)]
           Body(g) == [t \in 0 .. T |-> value(g, t)]
           F == [x \in (0 .. T) \X [0 .. T -> D] |-> value(x[2], x[1])]
           P == CHOOSE g : g = Body(g)
<1>0. ASSUME NEW t \in 2 .. T
      PROVE  /\ half(t) \in 0 .. t - 1 /\ half(t) \in 0 .. T /\ half(t) \in Nat
             /\ t - half(t) \in 0 .. t - 1 /\ t - half(t) \in 0 .. T
    OBVIOUS
<1> HIDE DEF half
<1>1. ASSUME NEW t \in 2 .. T, NEW g \in [0 .. T -> D], NEW s \in Nat
      PROVE  /\ <<Y[s + half(t)]>> \in Seq(W)
             /\ g[half(t)][s] \in Seq(W) /\ g[t - half(t)][s + half(t)] \in Seq(W)
    <2>1. s + half(t) \in Nat
        BY <1>0
    <2>2. Y[s + half(t)] \in W
        BY <2>1
    <2>3. g[half(t)] \in D /\ g[t - half(t)] \in D
        <3> HIDE DEF D
        <3> QED
            BY <1>0
    <2> HIDE DEF W
    <2>4. PICK a, b : a = g[half(t)] /\ b = g[t - half(t)]
        OBVIOUS
    <2>5. a \in [Nat -> Seq(W)] /\ b \in [Nat -> Seq(W)]
        BY <2>3, <2>4
    <2>6. a[s] \in Seq(W) /\ b[s + half(t)] \in Seq(W)
        BY <2>1, <2>5
    <2>7. <<Y[s + half(t)]>> \in Seq(W)
        BY <2>2
    <2> QED
        BY <2>4, <2>6, <2>7
<1> HIDE DEF W
<1>2. ASSUME NEW t \in 0 .. T, NEW g \in [0 .. T -> D]
      PROVE  F[<<t, g>>] = value(g, t) /\ value(g, t) \in D
    <2>1. F[<<t, g>>] = value(g, t)
        <3> HIDE DEF D, value
        <3> QED
            OBVIOUS
    <2>2. ASSUME NEW s \in Nat, t > 1 PROVE parts(g, t, s) \in Seq(W)
        <3>1. t \in 2 .. T
            BY <2>2
        <3>2. PICK a, b, c : /\ a = <<Y[s + half(t)]>> /\ b = g[half(t)][s]
                             /\ c = g[t - half(t)][s + half(t)]
            OBVIOUS
        <3>3. a \in Seq(W) /\ b \in Seq(W) /\ c \in Seq(W)
            <4> HIDE DEF D
            <4> QED
                BY <1>1, <3>1, <3>2
        <3>4. a \o b \o c \in Seq(W)
            BY <3>3
        <3> QED
            BY <3>2, <3>4
    <2>3. ASSUME NEW s \in Nat PROVE (IF t <= 1 THEN << >> ELSE parts(g, t, s)) \in Seq(W)
        <3>1. << >> \in Seq(W)
            OBVIOUS
        <3> HIDE DEF parts, D
        <3> QED
            BY <2>2, <3>1
    <2>4. value(g, t) \in D
        <3> HIDE DEF parts
        <3> QED
            BY <2>3
    <2> QED
        BY <2>1, <2>4
<1>3. F \in [(0 .. T) \X [0 .. T -> D] -> D]
    <2>1. ASSUME NEW x \in (0 .. T) \X [0 .. T -> D] PROVE value(x[2], x[1]) \in D
        <3> HIDE DEF D
        <3>1. x[1] \in 0 .. T /\ x[2] \in [0 .. T -> D]
            OBVIOUS
        <3> HIDE DEF F, value
        <3> QED
            BY <1>2, <3>1
    <2> HIDE DEF value, D
    <2> QED
        BY <2>1
<1>4. \A t \in 0 .. T : \A g, h \in [0 .. T -> D] :
         (\A s \in 0 .. t - 1 : g[s] = h[s]) => F[<<t, g>>] = F[<<t, h>>]
    <2> HIDE DEF D
    <2> TAKE t \in 0 .. T
    <2> TAKE g, h \in [0 .. T -> D]
    <2> HAVE \A s \in 0 .. t - 1 : g[s] = h[s]
    <2>1. t <= 1 \/ (g[half(t)] = h[half(t)] /\ g[t - half(t)] = h[t - half(t)])
        <3>1. t <= 1 \/ t \in 2 .. T
            OBVIOUS
        <3> QED
            BY <1>0, <3>1
    <2>2. value(g, t) = value(h, t)
        BY <2>1
    <2> HIDE DEF F, value
    <2> QED
        BY <1>2, <2>2
<1>5. PICK g \in [0 .. T -> D] : \A t \in 0 .. T : g[t] = F[<<t, g>>]
    <2>1. [s \in Nat |-> << >>] \in D
        BY <1>1
    <2> HIDE DEF F, value, D
    <2>2. Recursive(T, D, F)
        BY <1>3, <1>4 DEF Recursive
    <2> QED
        BY <2>1, <2>2, RecursionExists
<1>6. g = Body(g)
    <2> HIDE DEF D
    <2>1. \A t \in 0 .. T : g[t] = value(g, t)
        <3> HIDE DEF F, value
        <3> QED
            BY <1>2, <1>5
    <2> HIDE DEF F, value
    <2> QED
        BY <1>5, <2>1
<1>7. P = Body(P)
    <2> HIDE DEF Body
    <2> QED
        BY <1>6
<1>8. Delay!PietrzakProve(Y, T) = P[T][0]
    BY DEF Delay!PietrzakProve, half
<1> HIDE DEF P
<1>9. \A t \in 0 .. T : P[t] = value(P, t)
    <2> HIDE DEF value
    <2> QED
        BY <1>7
<1> DEFINE S == {t \in 0 .. T : ~ P[t] \in D}
<1>10. S = {}
    <2> SUFFICES ASSUME S # {} PROVE FALSE
        OBVIOUS
    <2>1. PICK t \in S : \A j \in S : t <= j
        <3>1. S \subseteq Nat
            OBVIOUS
        <3> HIDE DEF S
        <3> QED
            BY <3>1, LeastNumber
    <2>2. t \in 0 .. T /\ P[t] \notin D /\ \A j \in 0 .. t - 1 : P[j] \in D
        <3>1. t \in 0 .. T /\ P[t] \notin D
            OBVIOUS
        <3> HIDE DEF D
        <3>2. \A j \in 0 .. t - 1 : j \in 0 .. T /\ ~ t <= j
            OBVIOUS
        <3>3. \A j \in 0 .. T : ~ t <= j => P[j] \in D
            BY <2>1
        <3> QED
            BY <3>1, <3>2, <3>3
    <2> DEFINE h == [j \in 0 .. T |-> IF j < t THEN P[j] ELSE [s \in Nat |-> << >>]]
    <2>3. h \in [0 .. T -> D]
        <3>1. [s \in Nat |-> << >>] \in D
            BY <1>1
        <3>2. \A j \in 0 .. T : j < t => j \in 0 .. t - 1
            BY <2>2
        <3> HIDE DEF D
        <3> QED
            BY <2>2, <3>1, <3>2
    <2>4. \A j \in 0 .. t - 1 : h[j] = P[j]
        BY <2>2
    <2> HIDE DEF h, D
    <2>5. value(h, t) = value(P, t)
        <3>1. t <= 1 \/ (h[half(t)] = P[half(t)] /\ h[t - half(t)] = P[t - half(t)])
            <4>1. t <= 1 \/ t \in 2 .. T
                BY <2>2
            <4> QED
                BY <1>0, <2>4, <4>1
        <3> QED
            BY <3>1
    <2> HIDE DEF value, S
    <2>6. value(h, t) \in D
        BY <1>2, <2>2, <2>3
    <2>7. P[t] = value(P, t)
        BY <1>9, <2>2
    <2> QED
        BY <2>2, <2>5, <2>6, <2>7
<1>11. \A t \in 0 .. T : P[t] \in D
    <2> HIDE DEF D
    <2> QED
        BY <1>10
<1> DEFINE p == [t \in 0 .. T |-> P[t][0]]
<1>12. Delay!PietrzakProve(Y, T) = p[T]
    <2>1. T \in 0 .. T
        OBVIOUS
    <2> QED
        BY <1>8, <2>1
<1>13. \A t \in 0 .. T : p[t] \in Seq(W)
    <2>1. \A t \in 0 .. T : P[t][0] \in Seq(W)
        BY <1>11
    <2> QED
        BY <2>1
<1>14. ASSUME NEW t \in 2 .. T
       PROVE  \E rest \in Seq(W) : p[t] = <<Y[t \div 2]>> \o p[t \div 2] \o rest
    <2>1. t \in 0 .. T /\ ~ t <= 1 /\ 0 \in Nat
        OBVIOUS
    <2>2. P[t][0] = parts(P, t, 0)
        BY <1>9, <2>1
    <2>3. half(t) \in Nat /\ half(t) \in 0 .. T /\ t - half(t) \in 0 .. T /\ 0 + half(t) = half(t)
        <3>1. half(t) \in Nat /\ half(t) \in 0 .. T /\ t - half(t) \in 0 .. T
            BY <1>0
        <3>2. \A k \in Nat : 0 + k = k
            OBVIOUS
        <3> QED
            BY <3>1, <3>2
    <2>4. P[t - half(t)][half(t)] \in Seq(W)
        BY <1>11, <2>3
    <2>5. p[t] = <<Y[half(t)]>> \o p[half(t)] \o P[t - half(t)][half(t)]
        BY <2>1, <2>2, <2>3
    <2> HIDE DEF p, P
    <2> QED
        BY <2>4, <2>5 DEF half
<1> HIDE DEF p
<1>15. Elements(Y, T, p)
    BY <1>13, <1>14 DEF W, Elements
<1> QED
    BY <1>12, <1>15

\* What the verifier of Pietrzak's proof decides.
Decides(T, E, A) ==
    \A t \in 0 .. T, x \in Residues, y \in Residues, i \in 1 .. Len(E) + 1 :
        \/ t = 0 /\ x = y
        \/ t = 1 /\ (x * x) % Delay!N = y
        \/ t > 1 /\ i <= Len(E) /\ A[t \div 2][<<x, E[i], i + 1>>]
        => A[t][<<x, y, i>>]

\* The verifier decides so.
LEMMA PietrzakDecides ==
    ASSUME NEW input, NEW output, NEW T \in Nat, output.proof.T = T,
           NEW E, E = output.proof.elements
    PROVE  \E A : /\ Delay!VerifyPietrzak(input, output) = A[T][<<input, output.value, 1>>]
                  /\ Decides(T, E, A)
<1> DEFINE I == 1 .. Len(E) + 1
           r(x, y, i) == (Delay!HashToBigInt(<<x, y, E[i]>>) % (Delay!N - 2)) + 2
           a(x, y, i) == (Delay!ModPow(x, r(x, y, i), Delay!N) * E[i]) % Delay!N
           b(x, y, i) == (Delay!ModPow(E[i], r(x, y, i), Delay!N) * y) % Delay!N
           clause(h, t, x, y, i) ==
             IF t = 0 THEN x = y
             ELSE IF t = 1 THEN (x * x) % Delay!N = y
             ELSE /\ i <= Len(E)
                  /\ (h[<<x, E[i], i + 1>>] \/ h[<<a(x, y, i), b(x, y, i), i + 1>>])
           C == (0 .. Delay!N - 1) \X (0 .. Delay!N - 1) \X I
           value(g, t) == [c \in C |-> clause(g[t \div 2], t, c[1], c[2], c[3])]
           Body(g) == [t \in 0 .. T |-> value(g, t)]
           D == [C -> BOOLEAN]
           F == [z \in (0 .. T) \X [0 .. T -> D] |-> value(z[2], z[1])]
           P == CHOOSE g : g = Body(g)
<1>1. Delay!VerifyPietrzak(input, output) = P[T][<<input, output.value, 1>>]
    BY DEF Delay!VerifyPietrzak
<1>2. ASSUME NEW h, NEW t, NEW x, NEW y, NEW i PROVE clause(h, t, x, y, i) \in BOOLEAN
    <2>1. CASE t = 0
        BY <2>1, Zenon
    <2>2. CASE t # 0 /\ t = 1
        BY <2>2, Zenon
    <2>3. CASE t # 0 /\ t # 1
        BY <2>3, Zenon
    <2> QED
        BY <2>1, <2>2, <2>3, Zenon
<1>3. ASSUME NEW h, NEW k, NEW t \in 0 .. T, t <= 1 \/ h = k
      PROVE  \A x, y, i : clause(h, t, x, y, i) = clause(k, t, x, y, i)
    <2>1. t = 0 \/ t = 1 \/ h = k
        BY <1>3
    <2>2. CASE t = 0
        BY <2>2
    <2>3. CASE t = 1
        BY <2>3
    <2>4. CASE h = k
        BY <2>4
    <2> QED
        BY <2>1, <2>2, <2>3, <2>4
<1>4. ASSUME NEW h, NEW t \in 0 .. T, NEW x, NEW y, NEW i,
             \/ t = 0 /\ x = y
             \/ t = 1 /\ (x * x) % Delay!N = y
             \/ t > 1 /\ i <= Len(E) /\ h[<<x, E[i], i + 1>>]
      PROVE  clause(h, t, x, y, i)
    BY <1>4
<1>45. \A x \in Residues, y \in Residues, i \in I : <<x, y, i>> \in C
    BY DEF Residues
<1> HIDE DEF clause, I, C
<1>5. \A g, t : value(g, t) \in D
    BY <1>2
<1>6. F \in [(0 .. T) \X [0 .. T -> D] -> D]
    <2> HIDE DEF D, value
    <2> QED
        BY <1>5
<1>7. ASSUME NEW t \in 0 .. T, NEW g \in [0 .. T -> D] PROVE F[<<t, g>>] = value(g, t)
    <2> HIDE DEF D, value
    <2> QED
        OBVIOUS
<1>8. \A t \in 0 .. T : \A g, h \in [0 .. T -> D] :
         (\A s \in 0 .. t - 1 : g[s] = h[s]) => F[<<t, g>>] = F[<<t, h>>]
    <2> HIDE DEF D
    <2> TAKE t \in 0 .. T
    <2> TAKE g, h \in [0 .. T -> D]
    <2> HAVE \A s \in 0 .. t - 1 : g[s] = h[s]
    <2>1. t <= 1 \/ t \div 2 \in 0 .. t - 1
        OBVIOUS
    <2>2. t <= 1 \/ g[t \div 2] = h[t \div 2]
        BY <2>1
    <2>3. value(g, t) = value(h, t)
        BY <1>3, <2>2
    <2> HIDE DEF F, value
    <2> QED
        BY <1>7, <2>3
<1>9. PICK g \in [0 .. T -> D] : \A t \in 0 .. T : g[t] = F[<<t, g>>]
    <2>1. value(1, 1) \in D
        BY <1>5
    <2> HIDE DEF F, value, D
    <2>2. Recursive(T, D, F)
        BY <1>6, <1>8 DEF Recursive
    <2> QED
        BY <2>1, <2>2, RecursionExists
<1>10. g = Body(g)
    <2> HIDE DEF D
    <2>1. \A t \in 0 .. T : g[t] = value(g, t)
        <3> HIDE DEF F, value
        <3> QED
            BY <1>7, <1>9
    <2> HIDE DEF F, value
    <2> QED
        BY <1>9, <2>1
<1>11. P = Body(P)
    <2> HIDE DEF Body
    <2> QED
        BY <1>10
<1> HIDE DEF P
<1>12. \A t \in 0 .. T : P[t] = value(P, t)
    <2> HIDE DEF value
    <2> QED
        BY <1>11
<1>13. ASSUME NEW t \in 0 .. T, NEW x \in Residues, NEW y \in Residues, NEW i \in I
       PROVE  P[t][<<x, y, i>>] = clause(P[t \div 2], t, x, y, i)
    <2>1. P[t] = value(P, t)
        BY <1>12
    <2>2. value(P, t)[<<x, y, i>>] = clause(P[t \div 2], t, x, y, i)
        BY <1>45
    <2> HIDE DEF value
    <2> QED
        BY <2>1, <2>2
<1>14. ASSUME NEW t \in 0 .. T, NEW x \in Residues, NEW y \in Residues, NEW i \in I,
              \/ t = 0 /\ x = y
              \/ t = 1 /\ (x * x) % Delay!N = y
              \/ t > 1 /\ i <= Len(E) /\ P[t \div 2][<<x, E[i], i + 1>>]
       PROVE  P[t][<<x, y, i>>]
    <2>1. clause(P[t \div 2], t, x, y, i)
        BY <1>4, <1>14
    <2> QED
        BY <1>13, <2>1
<1> QED
    BY <1>1, <1>14 DEF I, Decides

\* Pietrzak's proof: each element is the middle of the claim before it.
LEMMA PietrzakVerifies ==
    ASSUME NEW x \in Residues, NEW T \in Nat
    PROVE  Delay!VerifyPietrzak(x, Delay!Pietrzak(x, T))
<1>1. PICK Y : Y = Delay!Squared(x, T)
    OBVIOUS
<1>2. /\ Y[0] = x
      /\ \A i \in 1 .. T : Y[i] = (Y[i - 1] * Y[i - 1]) % Delay!N
      /\ \A i \in 0 .. T : Y[i] \in Residues
    BY <1>1, SquaredIs
<1>3. PICK E : E = Delay!PietrzakProve(Y, T)
    OBVIOUS
<1> DEFINE W == {Y[i] : i \in Nat}
<1>40. PICK p : E = p[T] /\ Elements(Y, T, p)
    BY <1>3, PietrzakProved
<1>4. /\ E = p[T]
      /\ \A t \in 0 .. T : p[t] \in Seq(W)
      /\ \A t \in 2 .. T : \E rest \in Seq(W) :
            p[t] = <<Y[t \div 2]>> \o p[t \div 2] \o rest
    BY <1>40 DEF Elements
<1>5. PICK output : output = Delay!Pietrzak(x, T)
    OBVIOUS
<1>6. output.value = Y[T] /\ output.proof.T = T /\ output.proof.elements = E
    BY <1>1, <1>3, <1>5 DEF Delay!Pietrzak
<1>70. PICK A : Delay!VerifyPietrzak(x, output) = A[T][<<x, output.value, 1>>] /\ Decides(T, E, A)
    BY <1>6, PietrzakDecides
<1>7. /\ Delay!VerifyPietrzak(x, output) = A[T][<<x, Y[T], 1>>]
      /\ \A t \in 0 .. T, u \in Residues, y \in Residues, i \in 1 .. Len(E) + 1 :
            \/ t = 0 /\ u = y
            \/ t = 1 /\ (u * u) % Delay!N = y
            \/ t > 1 /\ i <= Len(E) /\ A[t \div 2][<<u, E[i], i + 1>>]
            => A[t][<<u, y, i>>]
    BY <1>6, <1>70 DEF Decides
<1>0. E \in Seq(W) /\ Len(E) \in Nat
    <2>1. T \in 0 .. T
        OBVIOUS
    <2> HIDE DEF W
    <2>2. E \in Seq(W)
        BY <1>4, <2>1
    <2> QED
        BY <2>2
\* The proof of a claim of t squarings lies at place i.
<1> DEFINE At(t, i) == /\ i + Len(p[t]) <= Len(E) + 1
                       /\ \A j \in 1 .. Len(p[t]) : E[i + j - 1] = p[t][j]
           S == {t \in 0 .. T : \E i \in Nat \ {0} : At(t, i) /\ ~ A[t][<<x, Y[t], i>>]}
<1>8. ASSUME NEW t \in 2 .. T, NEW i \in Nat \ {0}, At(t, i)
      PROVE  /\ i \in 1 .. Len(E) /\ E[i] = Y[t \div 2] /\ At(t \div 2, i + 1)
             /\ t \div 2 \in 0 .. T /\ t \div 2 < t
    <2>0. t \div 2 \in 0 .. T /\ t \div 2 < t
        OBVIOUS
    <2>1. PICK rest \in Seq(W) : p[t] = <<Y[t \div 2]>> \o p[t \div 2] \o rest
        BY <1>4
    <2>2. PICK q : q = p[t \div 2]
        OBVIOUS
    <2>3. PICK mu : mu = Y[t \div 2]
        OBVIOUS
    <2>4. mu \in W /\ q \in Seq(W) /\ p[t] \in Seq(W)
        <3>1. t \div 2 \in Nat /\ t \in 0 .. T
            BY <2>0
        <3>2. mu \in W
            BY <2>3, <3>1
        <3> HIDE DEF W
        <3> QED
            BY <1>4, <2>0, <2>2, <3>1, <3>2
    <2> HIDE DEF W
    <2>5. p[t] = <<mu>> \o q \o rest
        BY <2>1, <2>2, <2>3
    <2>6. PICK o : o = p[t]
        OBVIOUS
    <2>7. /\ Len(o) = 1 + Len(q) + Len(rest) /\ o[1] = mu
          /\ \A j \in 1 .. Len(q) : o[1 + j] = q[j]
          /\ Len(q) \in Nat /\ Len(rest) \in Nat
        BY <2>4, <2>5, <2>6
    <2>8. /\ i + Len(o) <= Len(E) + 1
          /\ \A j \in 1 .. Len(o) : E[i + j - 1] = o[j]
        BY <1>8, <2>6
    <2>9. i \in 1 .. Len(E)
        BY <1>0, <2>7, <2>8
    <2>10. E[i] = mu
        <3>1. 1 \in 1 .. Len(o) /\ i + 1 - 1 = i
            BY <2>7
        <3> QED
            BY <2>7, <2>8, <3>1
    <2>11. (i + 1) + Len(q) <= Len(E) + 1
        BY <1>0, <2>7, <2>8
    <2>12. ASSUME NEW j \in 1 .. Len(q) PROVE E[(i + 1) + j - 1] = q[j]
        <3>1. 1 + j \in 1 .. Len(o) /\ i + (1 + j) - 1 = (i + 1) + j - 1
            BY <2>7
        <3> QED
            BY <2>7, <2>8, <3>1
    <2> QED
        BY <2>0, <2>2, <2>3, <2>9, <2>10, <2>11, <2>12
<1> HIDE DEF At
<1>9. S = {}
    <2> SUFFICES ASSUME S # {} PROVE FALSE
        OBVIOUS
    <2>1. PICK t \in S : \A j \in S : t <= j
        <3>1. S \subseteq Nat
            OBVIOUS
        <3> HIDE DEF S
        <3> QED
            BY <3>1, LeastNumber
    <2>2. t \in 0 .. T
        OBVIOUS
    <2>3. PICK i \in Nat \ {0} : At(t, i) /\ ~ A[t][<<x, Y[t], i>>]
        OBVIOUS
    <2>4. \A s \in 0 .. T, k \in Nat \ {0} : s < t /\ At(s, k) => A[s][<<x, Y[s], k>>]
        <3>1. \A s \in 0 .. T : s < t => ~ t <= s
            BY <2>2
        <3> QED
            BY <2>1, <3>1
    <2> HIDE DEF S
    <2>5. i \in 1 .. Len(E) + 1
        <3>1. p[t] \in Seq(W)
            <4> HIDE DEF W
            <4> QED
                BY <1>4, <2>2
        <3>2. Len(p[t]) \in Nat
            <4> HIDE DEF W
            <4> QED
                BY <3>1
        <3> QED
            BY <1>0, <2>3, <3>2 DEF At
    <2>6. Y[t] \in Residues /\ x \in Residues
        BY <1>2, <2>2
    <2>7. CASE t = 0
        BY <1>2, <1>7, <2>2, <2>3, <2>5, <2>6, <2>7
    <2>8. CASE t = 1
        <3>1. Y[t] = (x * x) % Delay!N
            <4>1. 1 \in 1 .. T /\ 1 - 1 = 0
                BY <2>2, <2>8
            <4> QED
                BY <1>2, <2>8, <4>1
        <3> QED
            BY <1>7, <2>2, <2>3, <2>5, <2>6, <2>8, <3>1
    <2>9. CASE t > 1
        <3>1. t \in 2 .. T
            BY <2>2, <2>9
        <3>2. /\ i \in 1 .. Len(E) /\ E[i] = Y[t \div 2] /\ At(t \div 2, i + 1)
              /\ t \div 2 \in 0 .. T /\ t \div 2 < t
            BY <1>8, <2>3, <3>1
        <3>3. A[t \div 2][<<x, E[i], i + 1>>]
            <4>1. i + 1 \in Nat \ {0}
                OBVIOUS
            <4> QED
                BY <2>4, <3>2, <4>1
        <3>4. i <= Len(E)
            BY <1>0, <3>2
        <3> QED
            BY <1>7, <2>2, <2>3, <2>5, <2>6, <2>9, <3>3, <3>4
    <2> QED
        BY <2>2, <2>7, <2>8, <2>9
<1>10. At(T, 1)
    <2>1. \A j \in 1 .. Len(E) : 1 + j - 1 = j
        BY <1>0
    <2> QED
        BY <1>0, <1>4, <2>1 DEF At
<1>11. A[T][<<x, Y[T], 1>>]
    <2>1. T \in 0 .. T /\ 1 \in Nat \ {0}
        OBVIOUS
    <2> QED
        BY <1>9, <1>10, <2>1
<1> QED
    BY <1>5, <1>7, <1>11

\* A product does not change when two of its factors change places.
LEMMA ExchangeMultiplies ==
    ASSUME NEW f \in [Nat -> Int], NEW g \in [Nat -> Int], NEW i \in Nat \ {0}, NEW j \in Nat,
           i <= j, f[i] = g[j], f[j] = g[i], \A k \in Nat : k # i /\ k # j => f[k] = g[k],
           NEW n \in Nat, j <= n
    PROVE  Product(f)[n] = Product(g)[n]
<1>1. PICK u : u = Product(f) /\ Multiplies(f, u)
    BY ProductIs
<1>2. PICK v : v = Product(g) /\ Multiplies(g, v)
    BY ProductIs
<1>3. /\ u \in [Nat -> Int] /\ v \in [Nat -> Int] /\ u[0] = 1 /\ v[0] = 1
      /\ \A k \in Nat : u[k + 1] = u[k] * f[k + 1] /\ v[k + 1] = v[k] * g[k + 1]
    BY <1>1, <1>2 DEF Multiplies
<1> DEFINE S == {k \in 0 .. n : /\ k < i \/ k >= j => u[k] = v[k]
                                /\ k >= i /\ k < j => u[k] * g[i] = v[k] * f[i]}
<1>4. 0 \in S
    BY <1>3
<1>5. ASSUME NEW k \in 1 .. n, k - 1 \in S PROVE k \in S
    <2>1. k - 1 \in Nat /\ (k - 1) + 1 = k /\ k \in Nat
        OBVIOUS
    <2>2. u[k] = u[k - 1] * f[k] /\ v[k] = v[k - 1] * g[k]
        BY <1>3, <2>1
    <2>3. PICK a \in Int, b \in Int : a = u[k - 1] /\ b = v[k - 1]
        BY <1>3, <2>1
    <2>4. PICK c \in Int, d \in Int : c = f[i] /\ d = g[i]
        OBVIOUS
    <2>5. /\ k - 1 < i \/ k - 1 >= j => a = b
          /\ k - 1 >= i /\ k - 1 < j => a * d = b * c
        BY <1>5, <2>3, <2>4
    <2>6. CASE k # i /\ k # j
        <3>1. PICK e \in Int : e = f[k] /\ e = g[k]
            BY <2>1, <2>6
        <3>2. u[k] = a * e /\ v[k] = b * e
            BY <2>2, <2>3, <3>1
        <3>3. (a * e) * d = (a * d) * e /\ (b * e) * c = (b * c) * e
            OBVIOUS
        <3>4. k < i \/ k >= j => u[k] = v[k]
            BY <2>5, <2>6, <3>2
        <3>5. k >= i /\ k < j => u[k] * d = v[k] * c
            BY <2>5, <2>6, <3>2, <3>3
        <3> QED
            BY <2>4, <3>4, <3>5
    <2>7. CASE k = i /\ k # j
        <3>1. a = b /\ k < j /\ ~ k < i /\ ~ k >= j
            BY <2>5, <2>7
        <3>2. u[k] = a * c /\ v[k] = b * d
            BY <2>2, <2>3, <2>4, <2>7
        <3>3. (a * c) * d = (a * d) * c
            OBVIOUS
        <3> QED
            BY <2>4, <3>1, <3>2, <3>3
    <2>8. CASE k # i /\ k = j
        <3>1. a * d = b * c /\ ~ k < j
            BY <2>5, <2>8
        <3>2. u[k] = a * d /\ v[k] = b * c
            BY <2>2, <2>3, <2>4, <2>8
        <3> QED
            BY <3>1, <3>2
    <2>9. CASE k = i /\ k = j
        <3>1. a = b /\ ~ k < j
            BY <2>5, <2>9
        <3>2. u[k] = a * c /\ v[k] = b * c
            BY <2>2, <2>3, <2>4, <2>9
        <3> QED
            BY <3>1, <3>2
    <2> QED
        BY <2>6, <2>7, <2>8, <2>9
<1>6. \A k \in 0 .. n : k \in S
    <2> HIDE DEF S
    <2> QED
        BY <1>4, <1>5, UpTo
<1>7. u[n] = v[n]
    <2>1. n \in 0 .. n /\ n >= j
        OBVIOUS
    <2> QED
        BY <1>6, <2>1
<1> QED
    BY <1>1, <1>2, <1>7

\* The product of an array of n numbers.
Factors(n, a) == [k \in Nat |-> IF k \in 1 .. n THEN a[k] ELSE 1]

\* In whatever order the numbers are, their product is the same.
LEMMA OrdersMultiply ==
    ASSUME NEW n \in Nat \ {0}, NEW a \in Orders(n)
    PROVE  Product(Factors(n, a))[n] = Product(Factors(n, [i \in 1 .. n |-> i]))[n]
<1>1. PICK c \in Pool!Draws(n) : Pool!Shuffled(n, c) = a
    BY ShufflesReach
<1>2. c \in [1 .. n - 1 -> 0 .. n - 1] /\ \A k \in 1 .. n - 1 : c[k] + 1 <= n + 1 - k
    BY DrawsAre
<1>3. PICK A : A = Pool!Arrays(n, c)
    OBVIOUS
<1>4. /\ A[0] = [i \in 1 .. n |-> i]
      /\ \A k \in 1 .. n - 1 : A[k] = Pool!Exchanged(A[k - 1], n + 1 - k, c[k] + 1)
      /\ \A k \in 0 .. n - 1 : A[k] \in Orders(n)
    BY <1>2, <1>3, ArraysFollow
<1>5. ASSUME NEW o \in Orders(n) PROVE Factors(n, o) \in [Nat -> Int]
    BY DEF Orders, Factors
<1> DEFINE S == {k \in 0 .. n - 1 : Product(Factors(n, A[k]))[n] = Product(Factors(n, A[0]))[n]}
<1>6. 0 \in S
    OBVIOUS
<1>7. ASSUME NEW k \in 1 .. n - 1, k - 1 \in S PROVE k \in S
    <2>1. PICK i \in 1 .. n, j \in 1 .. n : i = c[k] + 1 /\ j = n + 1 - k /\ i <= j
        BY <1>2
    <2>2. PICK o \in Orders(n) : o = A[k - 1]
        BY <1>4
    <2>3. PICK p \in Orders(n) : p = A[k]
        BY <1>4
    <2>4. p = Pool!Exchanged(o, j, i)
        BY <1>4, <2>1, <2>2, <2>3
    <2>5. p[j] = o[i] /\ p[i] = o[j] /\ \A l \in 1 .. n : l # i /\ l # j => p[l] = o[l]
        <3>1. /\ Pool!Exchanged(o, j, i)[j] = o[i] /\ Pool!Exchanged(o, j, i)[i] = o[j]
              /\ \A l \in 1 .. n : l # j /\ l # i => Pool!Exchanged(o, j, i)[l] = o[l]
            BY ExchangedIs
        <3> QED
            BY <2>4, <3>1
    <2>6. PICK f \in [Nat -> Int], g \in [Nat -> Int] : f = Factors(n, p) /\ g = Factors(n, o)
        BY <1>5
    <2>7. f[i] = g[j] /\ f[j] = g[i] /\ \A l \in Nat : l # i /\ l # j => f[l] = g[l]
        BY <2>5, <2>6 DEF Factors
    <2>8. i \in Nat \ {0} /\ j \in Nat /\ j <= n
        OBVIOUS
    <2>9. Product(f)[n] = Product(g)[n]
        BY <2>1, <2>7, <2>8, ExchangeMultiplies
    <2> QED
        BY <1>7, <2>2, <2>3, <2>6, <2>9
<1>8. n - 1 \in S
    <2>1. n - 1 \in Nat
        OBVIOUS
    <2> HIDE DEF S
    <2> QED
        BY <1>6, <1>7, <2>1, UpTo
<1>9. A[n - 1] = a
    BY <1>1, <1>3 DEF Pool!Shuffled
<1> QED
    BY <1>4, <1>8, <1>9

\* Modulo a prime there are no divisors of zero: the least one would divide the prime.
LEMMA NoZeroDivisors ==
    ASSUME NEW p, Prime(p), NEW a \in 1 .. p - 1, NEW b \in Int, Same(p, a * b, 0)
    PROVE  Same(p, b, 0)
<1>0. p \in Nat \ {0, 1} /\ \A d \in 2 .. p - 1 : p % d # 0
    BY DEF Prime
<1> DEFINE Zeros == {m \in 1 .. p - 1 : Same(p, m * b, 0)}
<1>1. PICK m \in Zeros : \A n \in Zeros : m <= n
    <2>1. Zeros \subseteq Nat /\ a \in Zeros
        BY <1>0
    <2> HIDE DEF Zeros
    <2> QED
        BY <2>1, LeastNumber
<1>2. m \in 1 .. p - 1 /\ Same(p, m * b, 0)
    OBVIOUS
<1>3. CASE m = 1
    <2>1. 1 * b = b
        OBVIOUS
    <2> QED
        BY <1>2, <1>3, <2>1
<1>4. CASE m # 1
    <2>1. m \in 2 .. p - 1 /\ m \in Nat \ {0} /\ p \in Nat
        BY <1>0, <1>2, <1>4
    <2>2. PICK q \in Int, r \in 0 .. m - 1 : p = m * q + r /\ r = (p % m)
        <3>1. p = m * (p \div m) + (p % m) /\ (p \div m) \in Int /\ (p % m) \in 0 .. m - 1
            BY <2>1
        <3> QED
            BY <3>1
    <2>3. r # 0
        BY <1>0, <2>1, <2>2
    <2>4. PICK k \in Int : m * b = 0 + p * k
        BY <1>2 DEF Same
    <2>5. r * b = 0 + p * (b - q * k) /\ b - q * k \in Int
        <3>1. r * b = p * b - q * (m * b)
            <4>1. r = p - m * q /\ m \in Int /\ p \in Int
                BY <2>1, <2>2
            <4>2. (p - m * q) * b = p * b - q * (m * b)
                BY <4>1
            <4> QED
                BY <4>1, <4>2
        <3>2. q * (m * b) = p * (q * k)
            BY <2>1, <2>4
        <3> QED
            BY <2>1, <3>1, <3>2
    <2>6. Same(p, r * b, 0)
        BY <2>5 DEF Same
    <2>7. r \in 1 .. p - 1
        BY <2>1, <2>2, <2>3
    <2>8. r \in Zeros
        BY <2>6, <2>7
    <2> HIDE DEF Zeros
    <2>9. m <= r
        BY <1>1, <2>8
    <2> QED
        BY <2>1, <2>2, <2>9
<1> QED
    BY <1>3, <1>4

\* The multiples of a number that the prime does not divide are the numbers in an order.
LEMMA MultiplesOrdered ==
    ASSUME NEW p, Prime(p), NEW x \in Int, ~ Same(p, x, 0)
    PROVE  [i \in 1 .. p - 1 |-> (x * i) % p] \in Orders(p - 1)
<1>0. p \in Nat \ {0} /\ p \in Int
    BY DEF Prime
<1> DEFINE a == [i \in 1 .. p - 1 |-> (x * i) % p]
<1>1. ASSUME NEW i \in 1 .. p - 1
      PROVE  a[i] \in 0 .. p - 1 /\ Same(p, a[i], x * i) /\ Same(p, x * i, a[i])
    <2>1. PICK c \in Int : c = x * i
        OBVIOUS
    <2>2. (c % p) \in 0 .. p - 1 /\ Same(p, (c % p), c) /\ Same(p, c, (c % p))
        BY <1>0, Remainder
    <2>3. a[i] = (c % p)
        BY <2>1
    <2> HIDE DEF a
    <2> QED
        BY <2>1, <2>2, <2>3
<1> HIDE DEF a
<1>2. ASSUME NEW i \in 1 .. p - 1 PROVE ~ Same(p, x * i, 0)
    <2>1. SUFFICES ASSUME Same(p, x * i, 0) PROVE FALSE
        OBVIOUS
    <2>2. Same(p, i * x, 0)
        <3>1. i * x = x * i
            OBVIOUS
        <3> QED
            BY <2>1, <3>1
    <2> QED
        BY <2>2, NoZeroDivisors
<1>3. ASSUME NEW i \in 1 .. p - 1 PROVE a[i] \in 1 .. p - 1
    <2>1. a[i] # 0
        <3>1. SUFFICES ASSUME a[i] = 0 PROVE FALSE
            OBVIOUS
        <3>2. Same(p, x * i, 0)
            BY <1>1, <3>1
        <3> QED
            BY <1>2, <3>2
    <2> QED
        BY <1>1, <2>1
<1>4. ASSUME NEW i \in 1 .. p - 1, NEW j \in 1 .. p - 1, a[i] = a[j], i > j PROVE FALSE
    <2>1. PICK c \in Int, d \in Int, e \in Int : c = x * i /\ d = x * j /\ e = a[i]
        BY <1>1
    <2>2. Same(p, c, e) /\ Same(p, e, d)
        BY <1>1, <1>4, <2>1
    <2>3. Same(p, c, d)
        BY <1>0, <2>2, SameThrough
    <2>4. PICK k \in Int : c = d + p * k
        BY <2>3 DEF Same
    <2>5. i - j \in 1 .. p - 1 /\ i - j \in Int
        BY <1>0, <1>4
    <2>6. x * (i - j) = 0 + p * k
        <3>1. x * (i - j) = x * i - x * j
            OBVIOUS
        <3> QED
            BY <1>0, <2>1, <2>4, <3>1
    <2>7. Same(p, x * (i - j), 0)
        BY <2>6 DEF Same
    <2> QED
        BY <1>2, <2>5, <2>7
<1>5. a \in [1 .. p - 1 -> 1 .. p - 1]
    BY <1>3 DEF a
<1>6. \A i, j \in 1 .. p - 1 : a[i] = a[j] => i = j
    <2> SUFFICES ASSUME NEW i \in 1 .. p - 1, NEW j \in 1 .. p - 1, a[i] = a[j] PROVE i = j
        OBVIOUS
    <2>1. ~ i > j /\ ~ j > i
        BY <1>4
    <2> QED
        BY <2>1
<1> QED
    BY <1>5, <1>6 DEF a, Orders, Pool!IsInjective

\* Fermat's theorem: the factors of (p - 1)! times x^(p - 1) are those of (p - 1)!.
LEMMA Fermat ==
    ASSUME NEW p, Prime(p), NEW x \in Int, ~ Same(p, x, 0)
    PROVE  Same(p, Power(x)[p - 1], 1)
<1>0. p \in Nat \ {0} /\ p \in Int /\ p - 1 \in Nat \ {0}
    BY DEF Prime
<1> DEFINE n == p - 1
           sorted == [i \in 1 .. n |-> i]
           a == [i \in 1 .. n |-> (x * i) % p]
           f == Factors(n, sorted)
           g == Factors(n, a)
<1>1. a \in Orders(n)
    BY MultiplesOrdered
<1>2. sorted \in Orders(n)
    BY DEF Orders, Pool!IsInjective
<1>3. f \in [Nat -> Int] /\ g \in [Nat -> Int]
    <2>1. a \in [1 .. n -> 1 .. n] /\ sorted \in [1 .. n -> 1 .. n]
        BY <1>1, <1>2 DEF Orders
    <2> HIDE DEF a, sorted
    <2> QED
        BY <1>0, <2>1 DEF Factors
<1>4. ASSUME NEW i \in 1 .. n
      PROVE  f[i] = i /\ g[i] = (x * i) % p
    BY <1>0 DEF Factors
<1>5. PICK u : u = Product(f) /\ Multiplies(f, u)
    BY <1>3, ProductIs
<1>6. PICK v : v = Product(g) /\ Multiplies(g, v)
    BY <1>3, ProductIs
<1>7. u[n] = v[n]
    BY <1>0, <1>1, <1>5, <1>6, OrdersMultiply
<1>8. /\ u \in [Nat -> Int] /\ v \in [Nat -> Int] /\ u[0] = 1 /\ v[0] = 1
      /\ \A k \in Nat : u[k + 1] = u[k] * f[k + 1] /\ v[k + 1] = v[k] * g[k + 1]
    BY <1>5, <1>6 DEF Multiplies
<1>9. n \in Nat /\ n = p - 1
    BY <1>0
<1> HIDE DEF n, f, g
<1> DEFINE S == {k \in 0 .. n : Same(p, v[k], Power(x)[k] * u[k]) /\ ~ Same(p, u[k], 0)}
<1>10. 0 \in S
    <2>1. Power(x)[0] = 1 /\ 1 * 1 = 1 /\ Same(p, 1, 1)
        BY <1>0, PowerIs, SameItself
    <2>2. ~ Same(p, 1, 0)
        <3>1. SUFFICES ASSUME Same(p, 1, 0) PROVE FALSE
            OBVIOUS
        <3>2. 0 \in 0 .. p - 1 /\ 1 \in 0 .. p - 1
            BY <1>0
        <3> QED
            BY <1>0, <3>1, <3>2, SmallSame
    <2> QED
        BY <1>8, <1>9, <2>1, <2>2
<1>11. ASSUME NEW k \in 1 .. n, k - 1 \in S PROVE k \in S
    <2>1. k - 1 \in Nat /\ (k - 1) + 1 = k /\ k \in Nat /\ k \in 1 .. p - 1
        BY <1>9
    <2>2. PICK b \in Int, c \in Int, d \in Int : b = u[k - 1] /\ c = v[k - 1] /\ d = Power(x)[k - 1]
        BY <1>8, <2>1, PowerIs
    <2>3. u[k] = b * k /\ v[k] = c * ((x * k) % p)
        BY <1>4, <1>8, <2>1, <2>2
    <2>4. Power(x)[k] = x * d
        BY <2>1, <2>2, PowerIs
    <2>5. Same(p, c, d * b) /\ ~ Same(p, b, 0)
        BY <1>11, <2>2
    <2>6. PICK e \in Int, h \in Int, o \in Int : e = x * k /\ h = (e % p) /\ o = d * b
        <3>1. PICK e \in Int : e = x * k
            OBVIOUS
        <3>2. (e % p) \in Int
            BY <1>0
        <3> QED
            BY <3>1, <3>2
    <2>7. Same(p, h, e)
        BY <1>0, <2>6, Remainder
    <2>8. Same(p, c * h, o * e)
        BY <1>0, <2>5, <2>6, <2>7, SameTimes
    <2>9. o * e = Power(x)[k] * u[k]
        <3>1. (d * b) * (x * k) = (x * d) * (b * k)
            OBVIOUS
        <3> QED
            BY <2>3, <2>4, <2>6, <3>1
    <2>10. Same(p, v[k], Power(x)[k] * u[k])
        BY <2>3, <2>6, <2>8, <2>9
    <2>11. ~ Same(p, u[k], 0)
        <3>1. SUFFICES ASSUME Same(p, u[k], 0) PROVE FALSE
            OBVIOUS
        <3>2. k * b = u[k]
            BY <2>3
        <3> QED
            BY <2>1, <2>5, <3>1, <3>2, NoZeroDivisors
    <2> QED
        BY <2>10, <2>11
<1>12. n \in S
    <2>1. \A k \in 0 .. n : k \in S
        <3> HIDE DEF S
        <3> QED
            BY <1>9, <1>10, <1>11, UpTo
    <2> HIDE DEF S
    <2> QED
        BY <1>9, <2>1
<1>13. PICK b \in Int, c \in Int : b = u[n] /\ c = Power(x)[n]
    BY <1>8, <1>9, PowerIs
<1>14. Same(p, b, c * b) /\ ~ Same(p, b, 0)
    BY <1>7, <1>12, <1>13
<1>15. PICK k \in Int : b = c * b + p * k
    BY <1>14 DEF Same
<1>16. PICK r \in 0 .. p - 1 : r = (b % p) /\ Same(p, r, b) /\ Same(p, b, r)
    BY <1>0, Remainder
<1>17. r \in 1 .. p - 1
    BY <1>14, <1>16
<1>18. Same(p, r * (c - 1), 0)
    <2>1. PICK l \in Int : r = b + p * l
        BY <1>16 DEF Same
    <2>2. r * (c - 1) = 0 + p * (l * (c - 1) - k)
        <3>1. (b + p * l) * (c - 1) = c * b - b + p * (l * (c - 1))
            BY <1>0
        <3>2. c * b - b = -(p * k)
            BY <1>0, <1>15
        <3>3. p * (l * (c - 1) - k) = p * (l * (c - 1)) - p * k
            BY <1>0
        <3>4. PICK s \in Int, t \in Int : s = p * (l * (c - 1)) /\ t = p * k
            BY <1>0
        <3> QED
            BY <2>1, <3>1, <3>2, <3>3, <3>4
    <2>3. l * (c - 1) - k \in Int
        OBVIOUS
    <2> QED
        BY <2>2, <2>3 DEF Same
<1>19. Same(p, c - 1, 0)
    <2>1. c - 1 \in Int
        OBVIOUS
    <2> QED
        BY <1>17, <1>18, <2>1, NoZeroDivisors
<1>20. Same(p, c, 1)
    <2>1. PICK l \in Int : c - 1 = 0 + p * l
        BY <1>19 DEF Same
    <2>2. c = 1 + p * l
        BY <1>0, <2>1
    <2> QED
        BY <2>2 DEF Same
<1> QED
    BY <1>9, <1>13, <1>20

\* The powers of zero.
LEMMA PowersOfZero ==
    ASSUME NEW n \in Nat \ {0}
    PROVE  Power(0)[n] = 0
<1>1. n - 1 \in Nat /\ (n - 1) + 1 = n
    OBVIOUS
<1>2. Power(0)[n] = 0 * Power(0)[n - 1] /\ Power(0)[n - 1] \in Int
    BY <1>1, PowerIs
<1> QED
    BY <1>2

\* The powers of one.
LEMMA PowersOfOne ==
    ASSUME NEW n \in Nat
    PROVE  Power(1)[n] = 1
<1> DEFINE S == {i \in 0 .. n : Power(1)[i] = 1}
<1>1. 0 \in S
    BY PowerIs
<1>2. ASSUME NEW i \in 1 .. n, i - 1 \in S PROVE i \in S
    <2>1. i - 1 \in Nat /\ (i - 1) + 1 = i
        OBVIOUS
    <2>2. Power(1)[i] = 1 * Power(1)[i - 1]
        BY <2>1, PowerIs
    <2> QED
        BY <1>2, <2>2
<1>3. n \in S
    <2> HIDE DEF S
    <2> QED
        BY <1>1, <1>2, UpTo
<1> QED
    BY <1>3

\* Exponents may be reduced by any multiple of p - 1, as long as none becomes zero.
LEMMA ExponentReduced ==
    ASSUME NEW p, Prime(p), NEW x \in Int, NEW c \in Nat, NEW k \in Nat, NEW e \in Nat \ {0}
    PROVE  Same(p, Power(x)[((p - 1) * c) * k + e], Power(x)[e])
<1>0. p \in Nat \ {0} /\ p \in Int /\ p - 1 \in Nat
    BY DEF Prime
<1>1. PICK m \in Nat, b \in Nat : m = c * k /\ b = (p - 1) * m
    BY <1>0
<1>2. ((p - 1) * c) * k + e = b + e /\ b + e \in Nat \ {0}
    BY <1>0, <1>1
<1>3. CASE Same(p, x, 0)
    <2>1. Same(p, Power(x)[b + e], Power(0)[b + e]) /\ Same(p, Power(x)[e], Power(0)[e])
        BY <1>0, <1>2, <1>3, SamePower
    <2>2. Power(0)[b + e] = 0 /\ Power(0)[e] = 0
        BY <1>2, PowersOfZero
    <2>3. PICK s \in Int, t \in Int : s = Power(x)[b + e] /\ t = Power(x)[e]
        BY <1>2, PowerIs
    <2>4. Same(p, s, 0) /\ Same(p, 0, t)
        BY <1>0, <2>1, <2>2, <2>3, SameBack
    <2>5. Same(p, s, t)
        BY <1>0, <2>4, SameThrough
    <2> QED
        BY <1>2, <2>3, <2>5
<1>4. CASE ~ Same(p, x, 0)
    <2>1. PICK y \in Int : y = Power(x)[p - 1]
        BY <1>0, PowerIs
    <2>2. Same(p, y, 1)
        BY <1>4, <2>1, Fermat
    <2>3. Same(p, Power(y)[m], Power(1)[m]) /\ Power(1)[m] = 1
        BY <1>0, <2>2, SamePower, PowersOfOne
    <2>4. Power(y)[m] = Power(x)[b]
        BY <1>0, <1>1, <2>1, PowerOfPower
    <2>5. PICK s \in Int, t \in Int : s = Power(x)[b] /\ t = Power(x)[e]
        BY PowerIs
    <2>6. Same(p, s, 1) /\ Same(p, t, t)
        BY <1>0, <2>3, <2>4, <2>5, SameItself
    <2>7. Same(p, s * t, 1 * t)
        BY <1>0, <2>6, SameTimes
    <2>8. Power(x)[b + e] = s * t /\ 1 * t = t
        <3>1. e \in Nat
            OBVIOUS
        <3>2. Power(x)[b + e] = Power(x)[b] * Power(x)[e]
            BY <3>1, PowerAdds
        <3>3. 1 * t = t
            OBVIOUS
        <3> QED
            BY <2>5, <3>2, <3>3
    <2> QED
        BY <1>2, <2>5, <2>7, <2>8
<1> QED
    BY <1>3, <1>4

\* What is equal modulo two primes is equal modulo their product.
LEMMA SameBoth ==
    ASSUME NEW p, NEW q, Prime(p), Prime(q), p # q, NEW a \in Int, NEW b \in Int,
           Same(p, a, b), Same(q, a, b)
    PROVE  Same(p * q, a, b)
<1>0. p \in Nat \ {0, 1} /\ q \in Nat \ {0, 1} /\ \A d \in 2 .. p - 1 : p % d # 0
    BY DEF Prime
<1>1. PICK k \in Int : a = b + p * k
    BY DEF Same
<1>2. PICK l \in Int : a = b + q * l
    BY DEF Same
<1>3. PICK r \in 0 .. q - 1, j \in Int : p = q * j + r /\ r = (p % q)
    <2>1. p = q * (p \div q) + (p % q) /\ (p \div q) \in Int /\ (p % q) \in 0 .. q - 1
        BY <1>0
    <2> QED
        BY <2>1
<1>4. r # 0
    <2>1. CASE q < p
        <3>1. q \in 2 .. p - 1
            BY <1>0, <2>1
        <3> QED
            BY <1>0, <1>3, <3>1
    <2>2. CASE p < q
        <3>1. p \in 0 .. q - 1 /\ q \in Nat \ {0} /\ p \in Int
            BY <1>0, <2>2
        <3>2. PICK s : s = (p % q)
            OBVIOUS
        <3>3. s \in 0 .. q - 1 /\ Same(q, s, p)
            BY <3>1, <3>2, Remainder
        <3>4. s = p
            BY <3>1, <3>3, SmallSame
        <3> QED
            BY <1>0, <1>3, <3>2, <3>4
    <2> QED
        BY <1>0, <2>1, <2>2
<1>5. r \in 1 .. q - 1
    BY <1>0, <1>3, <1>4
<1>6. r * k = 0 + q * (l - j * k) /\ l - j * k \in Int
    <2>1. p * k = q * l
        <3>1. p * k \in Int /\ q * l \in Int
            BY <1>0
        <3> QED
            BY <1>1, <1>2, <3>1
    <2>2. (q * j + r) * k = q * (j * k) + r * k
        BY <1>0
    <2>3. q * (l - j * k) = q * l - q * (j * k)
        BY <1>0
    <2>4. PICK s \in Int, t \in Int, v \in Int : s = q * (j * k) /\ t = q * l /\ v = r * k
        BY <1>0
    <2> QED
        BY <1>3, <2>1, <2>2, <2>3, <2>4
<1>7. Same(q, r * k, 0)
    BY <1>6 DEF Same
<1>8. Same(q, k, 0)
    BY <1>5, <1>7, NoZeroDivisors
<1>9. PICK h \in Int : k = 0 + q * h
    BY <1>8 DEF Same
<1>10. p * k = (p * q) * h
    BY <1>0, <1>9
<1>11. a = b + (p * q) * h
    BY <1>1, <1>10
<1> QED
    BY <1>11 DEF Same

\* No odd number but one divides a power of two.
LEMMA OddDivides ==
    ASSUME NEW o \in Nat, o % 2 = 1, o > 1, NEW T \in Nat
    PROVE  \A m \in Nat : o * m # Power(2)[T]
<1> DEFINE S == {i \in 0 .. T : \A m \in Nat : o * m # Power(2)[i]}
<1>1. 0 \in S
    <2>1. Power(2)[0] = 1
        BY PowerIs
    <2>2. ASSUME NEW m \in Nat PROVE o * m # 1
        <3>1. m = 0 \/ m >= 1
            OBVIOUS
        <3>2. m >= 1 => o * m >= o
            OBVIOUS
        <3>3. o * 0 = 0
            OBVIOUS
        <3> QED
            BY <3>1, <3>2, <3>3
    <2> QED
        BY <2>1, <2>2
<1>2. ASSUME NEW i \in 1 .. T, i - 1 \in S PROVE i \in S
    <2>1. i - 1 \in Nat /\ (i - 1) + 1 = i
        OBVIOUS
    <2>2. PICK b \in Int : b = Power(2)[i - 1] /\ Power(2)[i] = 2 * b
        BY <2>1, PowerIs
    <2>3. ASSUME NEW m \in Nat, o * m = 2 * b PROVE FALSE
        <3>1. PICK n \in Nat : o = 2 * n + 1
            <4>1. o = 2 * (o \div 2) + 1 /\ o \div 2 \in Nat
                OBVIOUS
            <4> QED
                BY <4>1
        <3>2. PICK h \in Nat, e \in 0 .. 1 : m = 2 * h + e
            <4>1. m = 2 * (m \div 2) + (m % 2) /\ m \div 2 \in Nat /\ m % 2 \in 0 .. 1
                OBVIOUS
            <4> QED
                BY <4>1
        <3>3. e = 0
            <4>1. SUFFICES ASSUME e = 1 PROVE FALSE
                OBVIOUS
            <4>2. PICK w \in Int : w = n * m
                OBVIOUS
            <4>3. o * m = 2 * w + m
                <5>1. (2 * n + 1) * m = 2 * (n * m) + m
                    OBVIOUS
                <5> QED
                    BY <3>1, <4>2, <5>1
            <4> QED
                BY <2>3, <3>2, <4>1, <4>3
        <3>4. o * h = b
            <4>1. o * (2 * h) = 2 * (o * h)
                OBVIOUS
            <4>2. PICK w \in Int : w = o * h
                OBVIOUS
            <4> QED
                BY <2>3, <3>2, <3>3, <4>1, <4>2
        <3> QED
            BY <1>2, <2>2, <3>4
    <2> QED
        BY <2>2, <2>3
<1>3. T \in S
    <2> HIDE DEF S
    <2> QED
        BY <1>1, <1>2, UpTo
<1> QED
    BY <1>3

\* Who knows the factors computes the same with a reduced exponent.
LEMMA TrapdoorAgrees ==
    ASSUME NEW x \in Residues, NEW T \in Nat
    PROVE  Delay!WithTrapdoor(x, T) = Delay!Squared(x, T)[T]
<1>0. PICK p \in Nat \ {0, 1}, q \in Nat \ {0, 1} :
         p = FirstPrime /\ q = SecondPrime /\ Prime(p) /\ Prime(q) /\ p # q
    BY DelayAssumption DEF Prime
<1>1. PICK m \in Nat \ {0} : m = Delay!N /\ m = p * q
    BY <1>0, ModulusIs
<1>2. x \in Int
    BY DEF Residues
<1>3. PICK c \in Nat \ {0}, d \in Nat \ {0} : c = p - 1 /\ d = q - 1
    OBVIOUS
<1>4. PICK order \in Nat \ {0} : order = c * d
    <2>1. c * d \in Nat /\ c * d # 0
        OBVIOUS
    <2> QED
        BY <2>1
<1>5. PICK E \in Nat : E = Power(2)[T]
    BY PowersOfTwo
<1>6. PICK e \in 0 .. order - 1 : e = Delay!ModPow(2, T, order) /\ Same(order, e, E)
    <2>1. 2 \in Int
        OBVIOUS
    <2> QED
        BY <1>5, <2>1, ModPowIs
<1>7. PICK k \in Nat : E = order * k + e
    <2>1. PICK j \in Int : e = E + order * j
        BY <1>6 DEF Same
    <2>2. j <= 0
        <3>1. j >= 1 => order * j >= order
            OBVIOUS
        <3>2. PICK o \in Int : o = order * j
            OBVIOUS
        <3> QED
            BY <2>1, <3>1, <3>2
    <2>3. E = order * (-j) + e /\ -j \in Nat
        BY <2>1, <2>2
    <2> QED
        BY <2>3
<1>8. e # 0
    <2>1. SUFFICES ASSUME e = 0 PROVE FALSE
        OBVIOUS
    <2>2. PICK o \in 3 .. order : o % 2 = 1 /\ order % o = 0
        BY <1>0, <1>3, <1>4, OrderAssumption
    <2>3. PICK h \in Nat : order = o * h
        <3>1. PICK h \in Nat : order = o * h + (order % o)
            <4>1. order = o * (order \div o) + (order % o) /\ (order \div o) \in Nat
                OBVIOUS
            <4> QED
                BY <4>1
        <3>2. o * h \in Int /\ order % o = 0
            BY <2>2
        <3>3. order = o * h
            BY <3>1, <3>2
        <3> QED
            BY <3>3
    <2>4. h * k \in Nat /\ o * (h * k) = (o * h) * k /\ order * k \in Int
        OBVIOUS
    <2>5. o * (h * k) = Power(2)[T]
        BY <1>5, <1>7, <2>1, <2>3, <2>4
    <2>6. o \in Nat /\ o > 1
        OBVIOUS
    <2> QED
        BY <2>2, <2>4, <2>5, <2>6, OddDivides
<1>9. e \in Nat \ {0}
    BY <1>8
<1>10. PICK a \in Int, b \in Int : a = Power(x)[E] /\ b = Power(x)[e]
    BY <1>2, <1>9, PowerIs
<1>11. Same(p, a, b)
    <2>1. Same(p, Power(x)[((p - 1) * d) * k + e], Power(x)[e])
        BY <1>0, <1>2, <1>9, ExponentReduced
    <2>2. ((p - 1) * d) * k + e = E
        BY <1>3, <1>4, <1>7
    <2> QED
        BY <1>10, <2>1, <2>2
<1>12. Same(q, a, b)
    <2>1. Same(q, Power(x)[((q - 1) * c) * k + e], Power(x)[e])
        BY <1>0, <1>2, <1>9, ExponentReduced
    <2>2. (q - 1) * c = order
        BY <1>3, <1>4
    <2> QED
        BY <1>7, <1>10, <2>1, <2>2
<1>13. Same(m, a, b)
    BY <1>0, <1>1, <1>11, <1>12, SameBoth
<1>14. PICK v \in 0 .. m - 1 : v = Delay!ModPow(x, e, m) /\ Same(m, v, b)
    BY <1>2, <1>9, <1>10, ModPowIs
<1>15. PICK y \in 0 .. m - 1 : y = Delay!Squared(x, T)[T] /\ Same(m, y, a)
    <2>1. T \in 0 .. T
        OBVIOUS
    <2> QED
        <3>1. /\ Delay!Squared(x, T)[T] \in Residues
              /\ Same(Delay!N, Delay!Squared(x, T)[T], Power(x)[Power(2)[T]])
            BY <2>1, SquaredIs
        <3> QED
            BY <1>1, <1>5, <1>10, <3>1 DEF Residues
<1>16. v = y
    <2>1. m \in Int /\ v \in Int /\ y \in Int
        OBVIOUS
    <2>2. Same(m, b, a)
        BY <1>13, <2>1, SameBack
    <2>3. Same(m, v, a)
        BY <1>14, <2>1, <2>2, SameThrough
    <2>4. Same(m, a, y)
        BY <1>15, <2>1, SameBack
    <2>5. Same(m, v, y)
        BY <2>1, <2>3, <2>4, SameThrough
    <2> QED
        BY <2>1, <2>5, SmallSame
<1> QED
    BY <1>0, <1>1, <1>3, <1>4, <1>6, <1>14, <1>15, <1>16 DEF Delay!WithTrapdoor

Entry == [type : {"wesolowski", "pietrzak", "lattice", "isogeny"}, steps : Nat]

\* A chain is built link by link.
LEMMA ChainBuilt ==
    ASSUME NEW initial \in Asked, NEW schedule \in Seq(Entry), NEW configured,
           Delay!BuildChain(initial, schedule, configured)
    PROVE  /\ DOMAIN chain' = 1 .. Len(chain') /\ Len(chain') \in Nat
           /\ \A i \in DOMAIN chain' :
                /\ i = 1 => chain'[i].input \in Asked
                /\ i > 1 => chain'[i].input = Delay!HashToBigInt(<<chain'[i - 1].output.value>>)
                /\ chain'[i].vdfType = "wesolowski" =>
                     LET T == chain'[i].output.proof.T
                     IN  /\ T \in Nat
                         /\ chain'[i].output
                              = Delay!Wesolowski(Delay!EncodeInput(chain'[i].input), T)
<1> DEFINE missing == {i \in DOMAIN schedule : schedule[i].type \notin configured}
           made == IF missing = {} THEN schedule
                   ELSE SubSeq(schedule, 1, (CHOOSE i \in missing : \A j \in missing : i <= j) - 1)
           M == Len(made)
           next(o, i) == Append(o, Delay!Link(made[i], Delay!NextChallenge(o, initial)))
           Body(g) == [i \in 0 .. M |-> IF i = 0 THEN << >> ELSE next(g[i - 1], i)]
           P == CHOOSE g : g = Body(g)
<1>1. chain' = P[M]
    BY DEF Delay!BuildChain
<1>2. M \in Nat /\ \A i \in 1 .. M : made[i] \in Entry
    <2>1. CASE missing = {}
        BY <2>1
    <2>2. CASE missing # {}
        <3>1. PICK k \in missing : k = CHOOSE i \in missing : \A j \in missing : i <= j
            <4>1. missing \subseteq Nat
                OBVIOUS
            <4> HIDE DEF missing
            <4>2. \E i \in missing : \A j \in missing : i <= j
                BY <2>2, <4>1, LeastNumber
            <4> QED
                BY <4>2
        <3>2. k \in 1 .. Len(schedule)
            OBVIOUS
        <3>3. made = SubSeq(schedule, 1, k - 1)
            BY <2>2, <3>1
        <3> HIDE DEF made
        <3> QED
            BY <3>2, <3>3
    <2> QED
        BY <2>1, <2>2
<1> HIDE DEF made, M
<1> DEFINE Chains(m, g) == g = [i \in 0 .. m |-> IF i = 0 THEN << >> ELSE next(g[i - 1], i)]
           Some == {m \in 0 .. M : \E g : Chains(m, g)}
<1>3. 0 \in Some
    <2> DEFINE g == [i \in 0 .. 0 |-> << >>]
    <2>1. Chains(0, g)
        OBVIOUS
    <2> HIDE DEF g, Chains
    <2> QED
        BY <1>2, <2>1
<1>4. ASSUME NEW m \in 1 .. M, m - 1 \in Some PROVE m \in Some
    <2>1. PICK g : Chains(m - 1, g)
        BY <1>4
    <2> HIDE DEF next
    <2> DEFINE h == [i \in 0 .. m |-> IF i = m THEN next(g[m - 1], m) ELSE g[i]]
    <2>2. ASSUME NEW i \in 0 .. m PROVE h[i] = IF i = 0 THEN << >> ELSE next(h[i - 1], i)
        <3>1. CASE i = m
            <4>1. i # 0 /\ i - 1 \in 0 .. m /\ i - 1 # m
                BY <3>1
            <4> QED
                BY <3>1, <4>1
        <3>2. CASE i # m
            <4>1. i \in 0 .. m - 1
                BY <3>2
            <4>2. g[i] = IF i = 0 THEN << >> ELSE next(g[i - 1], i)
                BY <2>1, <4>1
            <4>3. h[i] = g[i]
                BY <3>2
            <4>4. i # 0 => h[i - 1] = g[i - 1]
                BY <4>1
            <4> HIDE DEF h
            <4> QED
                BY <4>2, <4>3, <4>4
        <3> QED
            BY <3>1, <3>2
    <2>3. Chains(m, h)
        <3>1. h = [i \in 0 .. m |-> h[i]]
            OBVIOUS
        <3> HIDE DEF h
        <3> QED
            BY <2>2, <3>1
    <2>4. m \in 0 .. M
        BY <1>2
    <2> HIDE DEF h, Chains
    <2> QED
        BY <2>3, <2>4
<1>5. PICK g : g = Body(g)
    <2>1. M \in Some
        <3> HIDE DEF Some
        <3>1. \A m \in 0 .. M : m \in Some
            BY <1>2, <1>3, <1>4, UpTo
        <3> QED
            BY <1>2, <3>1
    <2> QED
        BY <2>1
<1>6. P = Body(P)
    <2> HIDE DEF Body
    <2> QED
        BY <1>5
<1> HIDE DEF P
<1>7. P[0] = << >> /\ \A i \in 1 .. M : P[i] = next(P[i - 1], i)
    <2>1. 0 \in 0 .. M /\ \A i \in 1 .. M : i \in 0 .. M /\ i # 0
        BY <1>2
    <2>2. \A i \in 0 .. M : P[i] = IF i = 0 THEN << >> ELSE next(P[i - 1], i)
        <3> HIDE DEF next
        <3> QED
            BY <1>6
    <2> HIDE DEF next
    <2> QED
        BY <2>1, <2>2
<1> DEFINE entry(i) == Delay!Link(made[i], Delay!NextChallenge(P[i - 1], initial))
           R == {entry(i) : i \in 1 .. M}
           S == {i \in 0 .. M : /\ P[i] \in Seq(R) /\ Len(P[i]) = i
                                /\ \A j \in 1 .. i : P[i][j] = entry(j)}
<1>8. \A i \in 1 .. M : P[i] = Append(P[i - 1], entry(i)) /\ entry(i) \in R
    BY <1>7
<1> HIDE DEF entry, R
<1>9. 0 \in S
    <2>1. P[0] \in Seq(R) /\ Len(P[0]) = 0
        BY <1>7
    <2>2. \A j \in 1 .. 0 : P[0][j] = entry(j)
        OBVIOUS
    <2>3. 0 \in 0 .. M
        BY <1>2
    <2> QED
        BY <2>1, <2>2, <2>3
<1>10. ASSUME NEW i \in 1 .. M, i - 1 \in S PROVE i \in S
    <2>1. PICK o \in Seq(R), e \in R : o = P[i - 1] /\ e = entry(i)
        BY <1>8, <1>10
    <2>2. Len(o) = i - 1 /\ \A j \in 1 .. i - 1 : o[j] = entry(j)
        BY <1>10, <2>1
    <2>3. P[i] = Append(o, e)
        BY <1>8, <2>1
    <2>4. /\ Append(o, e) \in Seq(R) /\ Len(Append(o, e)) = i /\ Append(o, e)[i] = e
          /\ \A j \in 1 .. i - 1 : Append(o, e)[j] = o[j]
        BY <1>2, <2>2
    <2>5. ASSUME NEW j \in 1 .. i PROVE P[i][j] = entry(j)
        <3>1. j = i \/ j \in 1 .. i - 1
            OBVIOUS
        <3> QED
            BY <2>1, <2>2, <2>3, <2>4, <3>1
    <2>6. i \in 0 .. M
        BY <1>2
    <2> QED
        BY <2>3, <2>4, <2>5, <2>6
<1>11. \A i \in 0 .. M : i \in S
    <2> HIDE DEF S
    <2> QED
        BY <1>2, <1>9, <1>10, UpTo
<1>12. PICK c : c = P[M]
    OBVIOUS
<1>13. c \in Seq(R) /\ Len(c) = M /\ \A j \in 1 .. M : c[j] = entry(j)
    <2>1. M \in S
        <3> HIDE DEF S
        <3> QED
            BY <1>2, <1>11
    <2> QED
        BY <1>12, <2>1
<1>14. DOMAIN c = 1 .. M
    BY <1>13
<1>15. ASSUME NEW i \in 1 .. M
       PROVE  /\ i = 1 => c[i].input \in Asked
              /\ i > 1 => c[i].input = Delay!HashToBigInt(<<c[i - 1].output.value>>)
              /\ c[i].vdfType = "wesolowski" =>
                   /\ c[i].output.proof.T \in Nat
                   /\ c[i].output = Delay!Wesolowski(Delay!EncodeInput(c[i].input), c[i].output.proof.T)
    <2>1. PICK a, b : b = made[i] /\ b \in Entry /\ a = Delay!NextChallenge(P[i - 1], initial)
        BY <1>2
    <2>2. c[i] = [vdfType |-> b.type, input |-> a, output |-> Delay!Evaluate(b.type, a, b.steps)]
        BY <1>13, <2>1 DEF entry, Delay!Link
    <2>3. ASSUME i = 1 PROVE a = initial
        BY <1>7, <2>1, <2>3 DEF Delay!NextChallenge
    <2>4. ASSUME i > 1 PROVE a = Delay!HashToBigInt(<<c[i - 1].output.value>>)
        <3>1. i - 1 \in 0 .. M /\ i - 1 \in 1 .. M /\ i - 1 \in 1 .. i - 1
            BY <1>2, <2>4
        <3>2. PICK o : o = P[i - 1]
            OBVIOUS
        <3>3. o \in Seq(R) /\ Len(o) = i - 1 /\ o[i - 1] = entry(i - 1)
            BY <1>11, <3>1, <3>2
        <3>4. o # << >>
            BY <3>1, <3>3
        <3>5. Delay!Last(o) = c[i - 1]
            BY <1>13, <3>1, <3>3 DEF Delay!Last
        <3> QED
            BY <2>1, <3>2, <3>4, <3>5 DEF Delay!NextChallenge
    <2>5. ASSUME b.type = "wesolowski"
          PROVE  /\ c[i].output.proof.T \in Nat
                 /\ c[i].output = Delay!Wesolowski(Delay!EncodeInput(a), c[i].output.proof.T)
        <3>1. PICK y : y = Delay!EncodeInput(a)
            OBVIOUS
        <3>2. c[i].output = Delay!Wesolowski(y, b.steps)
            BY <2>2, <2>5, <3>1 DEF Delay!Evaluate
        <3>3. Delay!Wesolowski(y, b.steps).proof.T = b.steps
            BY DEF Delay!Wesolowski
        <3>4. b.steps \in Nat
            BY <2>1 DEF Entry
        <3> QED
            BY <3>1, <3>2, <3>3, <3>4
    <2>6. c[i].input = a /\ c[i].vdfType = b.type
        BY <2>2
    <2> QED
        BY <2>3, <2>4, <2>5, <2>6
<1> QED
    BY <1>1, <1>2, <1>12, <1>13, <1>14, <1>15

\* What one call leaves satisfies the invariant of the delay functions.
LEMMA DelayInductive ==
    /\ Delay!Init => Delay!DelayInv
    /\ Delay!DelayInv /\ Delay!Next => Delay!DelayInv'
    /\ Delay!DelayInv /\ UNCHANGED Delay!vars => Delay!DelayInv'
<1>1. ASSUME Delay!Init PROVE Delay!DelayInv
    <2>1. evaluated.of = "nothing"
        BY <1>1 DEF Delay!Init, Delay!Nothing
    <2>2. DOMAIN chain = 1 .. Len(chain) /\ Len(chain) \in Nat /\ Len(chain) = 0
        BY <1>1 DEF Delay!Init
    <2> QED
        BY <2>1, <2>2 DEF Delay!DelayInv
<1>2. ASSUME Delay!DelayInv, Delay!Next PROVE Delay!DelayInv'
    <2>1. evaluated = Delay!Nothing /\ chain = << >>
        BY <1>2 DEF Delay!Next
    <2>2. DOMAIN chain = 1 .. Len(chain) /\ Len(chain) \in Nat /\ Len(chain) = 0
        BY <2>1
    <2>3. ASSUME NEW c \in Asked, NEW T \in Squarings, NEW type \in {"wesolowski", "pietrzak"},
                 Delay!EvaluateOne(type, c, T)
          PROVE  Delay!DelayInv'
        <3>1. PICK o : o = Delay!Evaluate(type, c, T)
            OBVIOUS
        <3>2. evaluated' = [of |-> type, challenge |-> c, output |-> o] /\ chain' = chain
            BY <2>3, <3>1 DEF Delay!EvaluateOne
        <3>3. o.proof.T = T
            <4>1. CASE type = "wesolowski"
                BY <3>1, <4>1 DEF Delay!Evaluate, Delay!Wesolowski
            <4>2. CASE type = "pietrzak"
                BY <3>1, <4>2 DEF Delay!Evaluate, Delay!Pietrzak
            <4> QED
                BY <4>1, <4>2
        <3>4. /\ evaluated'.of = type /\ evaluated'.challenge = c /\ evaluated'.output = o
              /\ evaluated'.of # "timelock"
            BY <3>2
        <3> QED
            BY <2>2, <3>1, <3>2, <3>3, <3>4 DEF Delay!DelayInv
    <2>4. ASSUME NEW c \in Asked, NEW T \in Squarings, NEW trapdoor \in BOOLEAN,
                 Delay!Encrypt(c, T, trapdoor)
          PROVE  Delay!DelayInv'
        <3>1. PICK x : x = Delay!EncodeInput(c)
            OBVIOUS
        <3>2. PICK k \in {Delay!WithTrapdoor(x, T), Delay!Squared(x, T)[T]} :
                 evaluated' = [of |-> "timelock", challenge |-> c, lockDurationSteps |-> T, key |-> k]
            BY <2>4, <3>1 DEF Delay!Encrypt
        <3>3. chain' = chain
            BY <2>4 DEF Delay!Encrypt
        <3>4. /\ evaluated'.of = "timelock" /\ evaluated'.challenge = c
              /\ evaluated'.lockDurationSteps = T /\ evaluated'.key = k
            BY <3>2
        <3> QED
            BY <2>2, <3>1, <3>2, <3>3, <3>4 DEF Delay!DelayInv
    <2>5. ASSUME NEW c \in Asked, NEW T \in Walk, NEW type \in {"lattice", "isogeny"},
                 Delay!EvaluateOne(type, c, T)
          PROVE  Delay!DelayInv'
        <3>1. evaluated'.of = type /\ chain' = chain
            BY <2>5 DEF Delay!EvaluateOne
        <3> QED
            BY <2>2, <3>1 DEF Delay!DelayInv
    <2>6. ASSUME NEW c \in Asked, NEW schedule \in Schedule, NEW configured,
                 Delay!BuildChain(c, schedule, configured)
          PROVE  Delay!DelayInv'
        <3>1. schedule \in Seq(Entry)
            BY DelayAssumption DEF Entry
        <3>2. evaluated' = evaluated /\ evaluated.of = "nothing"
            BY <2>1, <2>6 DEF Delay!BuildChain, Delay!Nothing
        <3>3. evaluated'.of = "nothing"
            BY <3>2
        <3> QED
            BY <2>6, <3>1, <3>3, ChainBuilt DEF Delay!DelayInv
    <2> QED
        BY <1>2, <2>3, <2>4, <2>5, <2>6 DEF Delay!Next
<1>3. ASSUME Delay!DelayInv, UNCHANGED Delay!vars PROVE Delay!DelayInv'
    <2>1. evaluated' = evaluated /\ chain' = chain
        BY <1>3 DEF Delay!vars
    <2> QED
        BY <1>3, <2>1 DEF Delay!DelayInv
<1> QED
    BY <1>1, <1>2, <1>3

\* What the invariant describes verifies.
LEMMA DelaySafe == Delay!DelayInv => Delay!HonestSquaringsVerify
<1> SUFFICES ASSUME Delay!DelayInv PROVE Delay!HonestSquaringsVerify
    OBVIOUS
<1>1. ASSUME evaluated.of \in {"wesolowski", "pietrzak"}
      PROVE  Delay!VerifyBundle(evaluated.of, evaluated.challenge, evaluated.output, {})
    <2>1. PICK c \in Nat, T \in Nat :
             c = evaluated.challenge /\ evaluated.output = Delay!Evaluate(evaluated.of, c, T)
        BY <1>1, DelayAssumption DEF Delay!DelayInv
    <2>2. PICK x \in Residues : x = Delay!EncodeInput(c)
        BY InputEncoded
    <2>3. CASE evaluated.of = "wesolowski"
        <3>1. evaluated.output = Delay!Wesolowski(x, T)
            BY <2>1, <2>2, <2>3 DEF Delay!Evaluate
        <3> QED
            BY <2>1, <2>2, <2>3, <3>1, WesolowskiVerifies DEF Delay!VerifyBundle
    <2>4. CASE evaluated.of = "pietrzak"
        <3>1. evaluated.output = Delay!Pietrzak(x, T)
            BY <2>1, <2>2, <2>4 DEF Delay!Evaluate
        <3> QED
            BY <2>1, <2>2, <2>4, <3>1, PietrzakVerifies DEF Delay!VerifyBundle
    <2> QED
        BY <1>1, <2>3, <2>4
<1>2. ASSUME evaluated.of = "timelock" PROVE Delay!Decrypts(evaluated)
    <2>1. PICK c \in Nat, T \in Nat : c = evaluated.challenge /\ T = evaluated.lockDurationSteps
        BY <1>2, DelayAssumption DEF Delay!DelayInv
    <2>2. PICK x \in Residues : x = Delay!EncodeInput(c)
        BY InputEncoded
    <2>3. evaluated.key \in {Delay!WithTrapdoor(x, T), Delay!Squared(x, T)[T]}
        BY <1>2, <2>1, <2>2 DEF Delay!DelayInv
    <2>4. evaluated.key = Delay!Squared(x, T)[T]
        BY <2>3, TrapdoorAgrees
    <2> QED
        BY <2>1, <2>2, <2>4 DEF Delay!Decrypts
<1>3. ASSUME \A i \in DOMAIN chain : chain[i].vdfType = "wesolowski"
      PROVE  Delay!VerifyChain(chain, [i \in DOMAIN chain |-> {}], {"wesolowski"})
    <2> DEFINE M == Len(chain)
               S == {i \in 0 .. M : i > 0 => chain[i].input \in Nat}
    <2>1. DOMAIN chain = 1 .. M /\ M \in Nat
        BY DEF Delay!DelayInv
    <2>2. ASSUME NEW i \in 1 .. M, chain[i].input \in Nat
          PROVE  \E x \in Residues, T \in Nat : /\ x = Delay!EncodeInput(chain[i].input)
                                                /\ chain[i].output = Delay!Wesolowski(x, T)
        <3>1. PICK x \in Residues : x = Delay!EncodeInput(chain[i].input)
            BY <2>2, InputEncoded
        <3>2. PICK T \in Nat : chain[i].output = Delay!Wesolowski(x, T)
            BY <1>3, <2>1, <3>1 DEF Delay!DelayInv
        <3> QED
            BY <3>1, <3>2
    <2>3. 0 \in S
        BY <2>1
    <2>40. \A i \in 1 .. M : i \in 0 .. M
        BY <2>1
    <2>4. ASSUME NEW i \in 1 .. M, i - 1 \in S PROVE i \in S
        <3>1. CASE i = 1
            <4>1. chain[i].input \in Asked
                BY <2>1, <3>1 DEF Delay!DelayInv
            <4>2. chain[i].input \in Nat
                BY <4>1, DelayAssumption
            <4> QED
                BY <2>40, <4>2
        <3>2. CASE i # 1
            <4>1. i > 1 /\ i - 1 \in 1 .. M /\ chain[i - 1].input \in Nat
                BY <2>1, <2>4, <3>2
            <4>2. PICK x \in Residues, T \in Nat : chain[i - 1].output = Delay!Wesolowski(x, T)
                BY <2>2, <4>1
            <4>3. PICK y : y = Delay!Squared(x, T)[T]
                OBVIOUS
            <4>4. y \in Nat
                <5>1. T \in 0 .. T
                    OBVIOUS
                <5>2. y \in Residues
                    BY <4>3, <5>1, SquaredIs
                <5> QED
                    BY <5>2 DEF Residues
            <4>5. chain[i - 1].output.value = y
                BY <4>2, <4>3 DEF Delay!Wesolowski
            <4>6. chain[i].input = Delay!HashToBigInt(<<y>>)
                BY <2>1, <4>1, <4>5 DEF Delay!DelayInv
            <4>7. <<y>> \in Seq(Nat)
                BY <4>4
            <4>8. chain[i].input \in Nat
                BY <4>6, <4>7, HashIsNumber
            <4> QED
                BY <2>40, <4>8
        <3> QED
            BY <3>1, <3>2
    <2>5. \A i \in 0 .. M : i \in S
        <3> HIDE DEF S, M
        <3> QED
            BY <2>1, <2>3, <2>4, UpTo
    <2>6. ASSUME NEW i \in DOMAIN chain
          PROVE  /\ chain[i].vdfType = "wesolowski"
                 /\ Delay!VerifyWesolowski(Delay!EncodeInput(chain[i].input), chain[i].output)
                 /\ i > 1 => chain[i].input = Delay!HashToBigInt(<<chain[i - 1].output.value>>)
        <3>1. i \in 1 .. M /\ i \in 0 .. M /\ i > 0
            BY <2>1
        <3>2. chain[i].input \in Nat
            BY <2>5, <3>1
        <3>3. PICK x \in Residues, T \in Nat : /\ x = Delay!EncodeInput(chain[i].input)
                                               /\ chain[i].output = Delay!Wesolowski(x, T)
            <4> HIDE DEF M
            <4> QED
                BY <2>2, <3>1, <3>2
        <3>4. Delay!VerifyWesolowski(x, Delay!Wesolowski(x, T))
            BY WesolowskiVerifies
        <3> QED
            BY <1>3, <3>3, <3>4 DEF Delay!DelayInv
    <2>7. ASSUME NEW i \in DOMAIN chain, NEW sample
          PROVE  Delay!VerifyBundle(chain[i].vdfType, chain[i].input, chain[i].output, sample)
        BY <2>6 DEF Delay!VerifyBundle
    <2> QED
        BY <2>6, <2>7 DEF Delay!VerifyChain
<1> QED
    BY <1>1, <1>2, <1>3 DEF Delay!HonestSquaringsVerify

-----------------------------------------------------------------------------
(* DelayBeacon: winners are chosen after their candidates are committed.   *)

\* The parts of FlattenSeq's result, and the whole.
Flattens(S, ss, g) ==
    /\ g \in [1 .. Len(ss) -> Seq(S)]
    /\ \A i \in 1 .. Len(ss) : g[i] = IF i = 1 THEN ss[i] ELSE g[i - 1] \o ss[i]

\* A sequence of sequences is put together from the front.
LEMMA Flattened ==
    ASSUME NEW S, NEW ss \in Seq(Seq(S)), Len(ss) # 0
    PROVE  \E g : Flattens(S, ss, g) /\ Beacon!FlattenSeq(ss) = g[Len(ss)]
<1> DEFINE f == [x \in Nat \X Seq(S) |-> IF x[1] \in 1 .. Len(ss) THEN x[2] \o ss[x[1]] ELSE x[2]]
           Body(g) == [i \in 1 .. Len(ss) |-> IF i = 1 THEN ss[i] ELSE g[i - 1] \o ss[i]]
           G == CHOOSE g : g = Body(g)
<1>1. Len(ss) \in Nat /\ \A i \in 1 .. Len(ss) : ss[i] \in Seq(S)
    OBVIOUS
<1>2. f \in [Nat \X Seq(S) -> Seq(S)]
    <2> SUFFICES ASSUME NEW x \in Nat \X Seq(S)
                 PROVE  (IF x[1] \in 1 .. Len(ss) THEN x[2] \o ss[x[1]] ELSE x[2]) \in Seq(S)
        OBVIOUS
    <2>1. PICK t \in Seq(S) : t = x[2]
        OBVIOUS
    <2>2. \A u \in Seq(S) : t \o u \in Seq(S)
        OBVIOUS
    <2> QED
        BY <1>1, <2>1, <2>2
<1>3. PICK first \in Seq(S) : first = ss[1]
    <2>1. 1 \in 1 .. Len(ss)
        BY <1>1
    <2> QED
        BY <1>1, <2>1
<1>4. PICK g : Computes(Seq(S), Len(ss), first, f, g)
    <2> HIDE DEF f
    <2> QED
        BY <1>1, <1>2, <1>3, Computed
<1>5. g \in [1 .. Len(ss) -> Seq(S)]
    BY <1>4 DEF Computes
<1>6. ASSUME NEW i \in 1 .. Len(ss)
      PROVE  g[i] = IF i = 1 THEN ss[i] ELSE g[i - 1] \o ss[i]
    <2>1. CASE i = 1
        BY <1>3, <1>4, <2>1 DEF Computes
    <2>2. CASE i # 1
        <3>1. i \in Nat /\ g[i - 1] \in Seq(S)
            <4>1. i - 1 \in 1 .. Len(ss) /\ i \in Nat
                BY <1>1, <2>2
            <4> QED
                BY <1>5, <4>1
        <3>2. <<i, g[i - 1]>> \in Nat \X Seq(S)
            BY <3>1
        <3>3. f[<<i, g[i - 1]>>] = g[i - 1] \o ss[i]
            BY <3>2
        <3> HIDE DEF f
        <3>4. g[i] = f[<<i, g[i - 1]>>]
            BY <1>4, <2>2 DEF Computes
        <3> QED
            BY <2>2, <3>3, <3>4
    <2> QED
        BY <2>1, <2>2
<1>7. g = Body(g)
    BY <1>5, <1>6
<1>8. G = Body(G)
    BY <1>7
<1>9. Beacon!FlattenSeq(ss) = G[Len(ss)]
    BY DEF Beacon!FlattenSeq
<1>10. ASSUME NEW h, h = Body(h) PROVE Flattens(S, ss, h)
    <2> DEFINE T == {i \in 1 .. Len(ss) : h[i] \notin Seq(S)}
    <2>0. \A i \in 1 .. Len(ss) : h[i] = IF i = 1 THEN ss[i] ELSE h[i - 1] \o ss[i]
        BY <1>10
    <2>1. T = {}
        <3> SUFFICES ASSUME T # {} PROVE FALSE
            OBVIOUS
        <3>1. PICK i \in T : \A j \in T : i <= j
            <4>1. T \subseteq Nat
                BY <1>1
            <4> HIDE DEF T
            <4> QED
                BY <4>1, LeastNumber
        <3>2. i \in 1 .. Len(ss) /\ h[i] \notin Seq(S)
            BY <3>1
        <3>3. CASE i = 1
            BY <1>1, <2>0, <3>2, <3>3
        <3>4. CASE i # 1
            <4>1. i - 1 \in 1 .. Len(ss) /\ ~(i <= i - 1)
                BY <1>1, <3>2, <3>4
            <4>2. h[i - 1] \in Seq(S)
                BY <3>1, <4>1
            <4>3. \A t, u \in Seq(S) : t \o u \in Seq(S)
                OBVIOUS
            <4> QED
                BY <1>1, <2>0, <3>2, <3>4, <4>2, <4>3
        <3> QED
            BY <3>3, <3>4
    <2>2. \A i \in 1 .. Len(ss) : h[i] \in Seq(S)
        BY <2>1
    <2>3. h \in [1 .. Len(ss) -> Seq(S)]
        BY <1>10, <2>2
    <2> QED
        BY <2>0, <2>3 DEF Flattens
<1> HIDE DEF G
<1> QED
    BY <1>8, <1>9, <1>10

\* What is appended comes last.
LEMMA FlattenAppended ==
    ASSUME NEW S, NEW ss \in Seq(Seq(S)), NEW t \in Seq(S)
    PROVE  /\ Beacon!FlattenSeq(ss) \in Seq(S)
           /\ Beacon!FlattenSeq(Append(ss, t)) = Beacon!FlattenSeq(ss) \o t
<1>1. PICK tt \in Seq(Seq(S)), n \in Nat :
          /\ tt = Append(ss, t) /\ n = Len(ss) /\ Len(tt) = n + 1 /\ tt[n + 1] = t
          /\ \A i \in 1 .. n : tt[i] = ss[i]
    <2>1. PICK D : D = Seq(S)
        OBVIOUS
    <2>2. ss \in Seq(D) /\ t \in D
        BY <2>1
    <2> DEFINE u == Append(ss, t)
    <2>3. u \in Seq(D) /\ Len(u) = Len(ss) + 1 /\ u[Len(ss) + 1] = t /\ Len(ss) \in Nat
        BY <2>2
    <2>4. \A i \in 1 .. Len(ss) : u[i] = ss[i]
        BY <2>2
    <2> QED
        BY <2>1, <2>3, <2>4
<1>2. PICK h : Flattens(S, tt, h) /\ Beacon!FlattenSeq(tt) = h[Len(tt)]
    <2>1. Len(tt) # 0
        BY <1>1
    <2> QED
        BY <2>1, Flattened
<1>3. /\ h \in [1 .. n + 1 -> Seq(S)] /\ Beacon!FlattenSeq(tt) = h[n + 1]
      /\ \A i \in 1 .. n + 1 : h[i] = IF i = 1 THEN tt[i] ELSE h[i - 1] \o tt[i]
    BY <1>1, <1>2 DEF Flattens
<1>4. CASE n = 0
    <2>1. ss = << >> /\ Beacon!FlattenSeq(ss) = << >>
        BY <1>1, <1>4 DEF Beacon!FlattenSeq
    <2>2. h[1] = t
        BY <1>1, <1>3, <1>4
    <2>3. << >> \o t = t
        OBVIOUS
    <2>4. h[n + 1] = t /\ << >> \in Seq(S)
        BY <1>4, <2>2
    <2> QED
        BY <1>1, <1>3, <2>1, <2>3, <2>4
<1>5. CASE n # 0
    <2>1. PICK g : Flattens(S, ss, g) /\ Beacon!FlattenSeq(ss) = g[Len(ss)]
        BY <1>1, <1>5, Flattened
    <2>2. /\ g \in [1 .. n -> Seq(S)] /\ Beacon!FlattenSeq(ss) = g[n]
          /\ \A i \in 1 .. n : g[i] = IF i = 1 THEN ss[i] ELSE g[i - 1] \o ss[i]
        BY <1>1, <2>1 DEF Flattens
    <2> DEFINE T == {i \in 1 .. n : h[i] # g[i]}
    <2>3. T = {}
        <3> SUFFICES ASSUME T # {} PROVE FALSE
            OBVIOUS
        <3>1. PICK i \in T : \A j \in T : i <= j
            <4>1. T \subseteq Nat
                OBVIOUS
            <4> HIDE DEF T
            <4> QED
                BY <4>1, LeastNumber
        <3>2. i \in 1 .. n /\ i \in 1 .. n + 1 /\ h[i] # g[i]
            BY <3>1
        <3>3. h[i] = (IF i = 1 THEN tt[i] ELSE h[i - 1] \o tt[i]) /\ tt[i] = ss[i]
            BY <1>1, <1>3, <3>2
        <3>4. CASE i = 1
            BY <2>2, <3>2, <3>3, <3>4
        <3>5. CASE i # 1
            <4>1. i - 1 \in 1 .. n /\ ~(i <= i - 1)
                BY <3>2, <3>5
            <4>2. h[i - 1] = g[i - 1]
                BY <3>1, <4>1
            <4> QED
                BY <2>2, <3>2, <3>3, <3>5, <4>2
        <3> QED
            BY <3>4, <3>5
    <2>4. n \in 1 .. n /\ n + 1 \in 1 .. n + 1 /\ n + 1 # 1 /\ n + 1 - 1 = n
        BY <1>5
    <2>5. h[n] = g[n]
        BY <2>3, <2>4
    <2>6. h[n + 1] = h[n] \o t
        <3>1. \A i \in 1 .. n + 1 : i # 1 => h[i] = h[i - 1] \o tt[i]
            BY <1>3
        <3>2. PICK k \in 1 .. n + 1 : k = n + 1 /\ k # 1 /\ k - 1 = n
            BY <2>4
        <3>3. h[k] = h[k - 1] \o tt[k]
            BY <3>1, <3>2
        <3> QED
            BY <1>1, <3>2, <3>3
    <2> QED
        BY <1>1, <1>3, <2>2, <2>4, <2>5, <2>6
<1> QED
    BY <1>4, <1>5

\* What is mixed, what a round has, and a sequence of rounds' mixes.
Mixes == Seq(Beacon!Source)
RoundRecord == [previousOutput : Seq(Mixes), mix : Mixes]

\* What the invariant says, with names for it.
LEMMA BeaconTyped ==
    ASSUME Beacon!BeaconInv
    PROVE  /\ rounds \in Seq(RoundRecord) /\ entropySources \in Mixes
           /\ candidates \in [Election -> Seq(Candidate)]
           /\ Beacon!Mixed \in Seq(Mixes) /\ added \in Mixes
           /\ Beacon!FlattenSeq(Beacon!Mixed) \in Mixes
<1>1. /\ rounds \in Seq(RoundRecord) /\ entropySources \in Mixes
      /\ candidates \in [Election -> Seq(Candidate)]
    BY DEF Beacon!BeaconInv, RoundRecord, Mixes
<1>2. Beacon!Mixed \in Seq(Mixes)
    <2>1. \A r \in RoundRecord : r.mix \in Mixes
        BY DEF RoundRecord
    <2>2. \A i \in 1 .. Len(rounds) : rounds[i].mix \in Mixes
        BY <1>1, <2>1
    <2>3. PICK l \in Nat : l = Len(rounds)
        BY <1>1
    <2>4. Beacon!Mixed = [i \in 1 .. l |-> rounds[i].mix]
        BY <1>1, <2>3 DEF Beacon!BeaconInv
    <2>5. Beacon!Mixed \in [1 .. l -> Mixes]
        BY <2>2, <2>3, <2>4
    <2> QED
        BY <2>5
<1>3. Beacon!FlattenSeq(Beacon!Mixed) \in Mixes
    <2>1. PICK ss \in Seq(Seq(Beacon!Source)) : ss = Beacon!Mixed
        BY <1>2 DEF Mixes
    <2>2. Beacon!FlattenSeq(ss) \in Seq(Beacon!Source)
        <3>1. << >> \in Seq(Beacon!Source)
            OBVIOUS
        <3> QED
            BY <3>1, FlattenAppended
    <2> QED
        BY <2>1, <2>2 DEF Mixes
<1>4. added \in Mixes
    <2>1. added = Beacon!FlattenSeq(Beacon!Mixed) \o entropySources
        BY DEF Beacon!BeaconInv
    <2>2. \A s, t \in Seq(Beacon!Source) : s \o t \in Seq(Beacon!Source)
        OBVIOUS
    <2> QED
        BY <1>1, <1>3, <2>1, <2>2 DEF Mixes
<1> QED
    BY <1>1, <1>2, <1>3, <1>4

\* A round mixes all that waits, after all that was mixed before.
LEMMA RoundMixes ==
    ASSUME Beacon!BeaconInv
    PROVE  /\ Beacon!Challenge \in RoundRecord
           /\ Beacon!Challenge.mix = entropySources
           /\ Beacon!Challenge.previousOutput = Beacon!Mixed
           /\ Beacon!Output(Beacon!Challenge) = Append(Beacon!Mixed, entropySources)
           /\ Beacon!FlattenSeq(Beacon!Output(Beacon!Challenge)) = added
<1>1. /\ Beacon!Challenge = [previousOutput |-> Beacon!Mixed, mix |-> entropySources]
    BY DEF Beacon!Challenge, Beacon!Mixed
<1>2. Beacon!Output(Beacon!Challenge) = Append(Beacon!Mixed, entropySources)
    BY <1>1 DEF Beacon!Output
<1>3. PICK ss \in Seq(Seq(Beacon!Source)), t \in Seq(Beacon!Source) :
          ss = Beacon!Mixed /\ t = entropySources
    BY BeaconTyped DEF Mixes
<1>4. Beacon!FlattenSeq(Append(ss, t)) = Beacon!FlattenSeq(ss) \o t
    BY FlattenAppended
<1>5. Beacon!FlattenSeq(Beacon!Output(Beacon!Challenge)) = added
    BY <1>2, <1>3, <1>4 DEF Beacon!BeaconInv
<1>6. Beacon!Challenge \in RoundRecord
    BY <1>1, BeaconTyped DEF RoundRecord
<1> QED
    BY <1>1, <1>2, <1>5, <1>6

\* So the chain goes on.
LEMMA RoundAdded ==
    ASSUME Beacon!BeaconInv, Beacon!Advance, added' = added
    PROVE  /\ rounds' \in Seq(RoundRecord) /\ entropySources' \in Mixes
           /\ Beacon!Mixed' = [i \in DOMAIN rounds' |-> rounds'[i].mix]
           /\ Beacon!FlattenSeq(Beacon!Mixed)' \o entropySources' = added'
           /\ Beacon!VerifyChain'
<1>1. PICK r \in RoundRecord :
          /\ r = Beacon!Challenge /\ r.mix = entropySources /\ r.previousOutput = Beacon!Mixed
          /\ Beacon!Output(r) = Append(Beacon!Mixed, entropySources)
          /\ Beacon!FlattenSeq(Beacon!Output(r)) = added
    BY RoundMixes
<1>2. rounds' = Append(rounds, r) /\ entropySources' = << >>
    BY <1>1 DEF Beacon!Advance
<1>3. PICK l \in Nat : /\ l = Len(rounds) /\ DOMAIN rounds = 1 .. l
                       /\ rounds' \in Seq(RoundRecord) /\ Len(rounds') = l + 1
                       /\ DOMAIN rounds' = 1 .. l + 1 /\ rounds'[l + 1] = r
                       /\ \A i \in 1 .. l : rounds'[i] = rounds[i]
    BY <1>1, <1>2, BeaconTyped
<1>4. rounds' # << >> /\ Beacon!Last(rounds)' = r
    <2>1. rounds' # << >>
        BY <1>3
    <2>2. Beacon!Last(rounds)' = rounds'[Len(rounds')]
        BY DEF Beacon!Last
    <2> QED
        BY <1>3, <2>1, <2>2
<1>5. Beacon!Mixed' = Beacon!Output(r)
    BY <1>4 DEF Beacon!Mixed, Beacon!Output
<1>6. Beacon!Mixed' = [i \in DOMAIN rounds' |-> rounds'[i].mix]
    <2>1. Beacon!Mixed' = Append(Beacon!Mixed, entropySources)
        BY <1>1, <1>5
    <2>2. PICK m : m = Beacon!Mixed
        OBVIOUS
    <2>3. PICK es : es = entropySources
        OBVIOUS
    <2>4. m \in Seq(Mixes) /\ Len(m) = l /\ \A i \in 1 .. l : m[i] = rounds[i].mix
        <3>1. m = [i \in 1 .. l |-> rounds[i].mix] /\ m \in Seq(Mixes)
            BY <1>3, <2>2, BeaconTyped DEF Beacon!BeaconInv
        <3>2. DOMAIN m = 1 .. l /\ DOMAIN m = 1 .. Len(m)
            BY <3>1
        <3>3. Len(m) = l
            BY <1>3, <3>1, <3>2
        <3> QED
            BY <3>1, <3>3
    <2>5. es \in Mixes /\ es = r.mix
        BY <1>1, <2>3, BeaconTyped
    <2>6. PICK u : u = Append(m, es)
        OBVIOUS
    <2>7. u = [i \in 1 .. l + 1 |-> IF i = l + 1 THEN es ELSE m[i]]
        BY <1>3, <2>4, <2>5, <2>6
    <2>8. \A i \in 1 .. l + 1 : u[i] = rounds'[i].mix
        <3> SUFFICES ASSUME NEW i \in 1 .. l + 1 PROVE u[i] = rounds'[i].mix
            OBVIOUS
        <3>1. CASE i = l + 1
            BY <1>3, <2>5, <2>7, <3>1
        <3>2. CASE i # l + 1
            <4>1. i \in 1 .. l
                BY <1>3, <3>2
            <4> QED
                BY <1>3, <2>4, <2>7, <3>2, <4>1
        <3> QED
            BY <3>1, <3>2
    <2>9. u = [i \in 1 .. l + 1 |-> rounds'[i].mix]
        BY <2>7, <2>8
    <2> QED
        BY <1>3, <2>1, <2>2, <2>3, <2>6, <2>9
<1>7. Beacon!FlattenSeq(Beacon!Mixed)' \o entropySources' = added'
    <2>1. Beacon!FlattenSeq(Beacon!Mixed)' = added
        BY <1>1, <1>5
    <2>2. \A s \in Seq(Beacon!Source) : s \o << >> = s
        OBVIOUS
    <2>3. added \o << >> = added
        BY <2>2, BeaconTyped DEF Mixes
    <2> QED
        BY <1>2, <2>1, <2>3
<1>8. Beacon!VerifyChain'
    <2> SUFFICES ASSUME NEW i \in 2 .. l + 1
                 PROVE  rounds'[i].previousOutput = Beacon!Output(rounds'[i - 1])
        BY <1>3 DEF Beacon!VerifyChain, Beacon!Output
    <2>1. CASE i \in 2 .. l
        <3>1. i \in 1 .. l /\ i - 1 \in 1 .. l
            BY <2>1
        <3>2. rounds[i].previousOutput = Beacon!Output(rounds[i - 1])
            BY <1>3, <2>1 DEF Beacon!BeaconInv, Beacon!VerifyChain
        <3> QED
            BY <1>3, <3>1, <3>2
    <2>2. CASE i = l + 1
        <3>1. i - 1 = l /\ l \in 1 .. l
            BY <2>2
        <3>2. rounds # << >> /\ Beacon!Last(rounds) = rounds[l]
            BY <1>3, <3>1 DEF Beacon!Last
        <3>3. Beacon!Mixed = Beacon!Output(rounds[l])
            BY <3>2 DEF Beacon!Mixed
        <3> QED
            BY <1>1, <1>3, <2>2, <3>1, <3>3
    <2> QED
        BY <1>3, <2>1, <2>2
<1> QED
    BY <1>2, <1>3, <1>6, <1>7, <1>8, SMTT(30) DEF Mixes

\* Something is added to what waits.
LEMMA SourceAdded ==
    ASSUME Beacon!BeaconInv, NEW x \in Beacon!Source, UNCHANGED rounds,
           entropySources' = Append(entropySources, x), added' = Append(added, x)
    PROVE  /\ rounds' \in Seq(RoundRecord) /\ entropySources' \in Mixes
           /\ Beacon!Mixed' = [i \in DOMAIN rounds' |-> rounds'[i].mix]
           /\ Beacon!FlattenSeq(Beacon!Mixed)' \o entropySources' = added'
           /\ Beacon!VerifyChain'
           /\ DOMAIN added' = 1 .. Len(added) + 1 /\ added'[Len(added) + 1] = x
           /\ \A i \in DOMAIN added : i \in DOMAIN added' /\ added'[i] = added[i]
<1>1. PICK m \in Mixes, es \in Mixes, a \in Mixes :
          m = Beacon!FlattenSeq(Beacon!Mixed) /\ es = entropySources /\ a = added /\ a = m \o es
    BY BeaconTyped DEF Beacon!BeaconInv
<1>2. m \o Append(es, x) = Append(m \o es, x) /\ Append(es, x) \in Mixes
    BY DEF Mixes
<1>3. Beacon!Mixed' = Beacon!Mixed
    BY DEF Beacon!Mixed, Beacon!Output, Beacon!Last
<1>4. Beacon!FlattenSeq(Beacon!Mixed)' = m
    BY <1>1, <1>3
<1>5. Beacon!VerifyChain'
    BY DEF Beacon!VerifyChain, Beacon!BeaconInv, Beacon!Output
<1>6. /\ DOMAIN added' = 1 .. Len(added) + 1 /\ added'[Len(added) + 1] = x
      /\ \A i \in DOMAIN added : i \in DOMAIN added' /\ added'[i] = added[i]
    <2>1. added \in Seq(Beacon!Source) /\ added' = Append(added, x)
        BY BeaconTyped DEF Mixes
    <2> QED
        BY <2>1
<1>7. Beacon!Mixed' = [i \in DOMAIN rounds' |-> rounds'[i].mix]
    BY <1>3 DEF Beacon!BeaconInv
<1> QED
    BY <1>1, <1>2, <1>4, <1>5, <1>6, <1>7, BeaconTyped

\* What an election's result was chosen by.
Bound(r) ==
    LET mixed == Beacon!FlattenSeq(Beacon!Output(r.round))
    IN  \E i \in DOMAIN mixed : mixed[i] = [of |-> r.among]
Selected(r, ds) ==
    \E d \in ds : d.round = r.round /\ d.n = Len(r.among) /\ d.index = r.index

\* The invariant in terms of these.
LEMMA BeaconParts ==
    Beacon!BeaconInv <=>
      /\ rounds \in Seq(RoundRecord) /\ entropySources \in Mixes
      /\ candidates \in [Election -> Seq(Candidate)]
      /\ Beacon!Mixed = [i \in DOMAIN rounds |-> rounds[i].mix]
      /\ Beacon!FlattenSeq(Beacon!Mixed) \o entropySources = added
      /\ Beacon!VerifyChain
      /\ \A e \in committed : \E i \in DOMAIN added : added[i] = [of |-> candidates[e]]
      /\ \A r \in results : Bound(r) /\ Selected(r, drawn)
<1>1. (\A r \in results : Bound(r) /\ Selected(r, drawn)) <=>
      \A r \in results :
         LET mixed == Beacon!FlattenSeq(Beacon!Output(r.round))
         IN  /\ \E i \in DOMAIN mixed : mixed[i] = [of |-> r.among]
             /\ \E d \in drawn : d.round = r.round /\ d.n = Len(r.among) /\ d.index = r.index
    BY DEF Bound, Selected
<1> QED
    BY <1>1 DEF Beacon!BeaconInv, Beacon!Commitment, RoundRecord, Mixes

\* And of its next value.
LEMMA BeaconPartsNext ==
    ASSUME rounds' \in Seq(RoundRecord), entropySources' \in Mixes,
           candidates' \in [Election -> Seq(Candidate)],
           Beacon!Mixed' = [i \in DOMAIN rounds' |-> rounds'[i].mix],
           Beacon!FlattenSeq(Beacon!Mixed)' \o entropySources' = added',
           Beacon!VerifyChain',
           \A e \in committed' : \E i \in DOMAIN added' : added'[i] = [of |-> candidates'[e]],
           \A r \in results' : Bound(r) /\ Selected(r, drawn')
    PROVE  Beacon!BeaconInv'
<1>1. \A r \in results' :
         LET mixed == Beacon!FlattenSeq(Beacon!Output(r.round))
         IN  /\ \E i \in DOMAIN mixed : mixed[i] = [of |-> r.among]
             /\ \E d \in drawn' : d.round = r.round /\ d.n = Len(r.among) /\ d.index = r.index
    BY DEF Bound, Selected
<1> QED
    BY <1>1 DEF Beacon!BeaconInv, Beacon!Commitment, RoundRecord, Mixes

\* Every step of the beacon and of its elections keeps it.
LEMMA BeaconInductive ==
    /\ Beacon!Init => Beacon!BeaconInv
    /\ Beacon!BeaconInv /\ [Beacon!Next]_(Beacon!vars) => Beacon!BeaconInv'
<1>1. ASSUME Beacon!Init PROVE Beacon!BeaconInv
    <2>1. /\ rounds = << >> /\ entropySources = << >> /\ committed = {} /\ results = {}
          /\ added = << >> /\ candidates \in [Election -> Seq(Candidate)]
        BY <1>1 DEF Beacon!Init
    <2>2. Beacon!Mixed = << >> /\ Beacon!FlattenSeq(<< >>) = << >>
        BY <2>1 DEF Beacon!Mixed, Beacon!Zeros, Beacon!FlattenSeq
    <2>3. << >> = [i \in DOMAIN rounds |-> rounds[i].mix]
        BY <2>1
    <2>4. << >> \o << >> = << >>
        OBVIOUS
    <2>5. Beacon!VerifyChain
        BY <2>1 DEF Beacon!VerifyChain
    <2> QED
        BY <2>1, <2>2, <2>3, <2>4, <2>5, BeaconParts DEF Mixes
<1>2. ASSUME Beacon!BeaconInv, [Beacon!Next]_(Beacon!vars) PROVE Beacon!BeaconInv'
    <2>0. /\ rounds \in Seq(RoundRecord) /\ entropySources \in Mixes
          /\ candidates \in [Election -> Seq(Candidate)]
          /\ Beacon!Mixed = [i \in DOMAIN rounds |-> rounds[i].mix]
          /\ Beacon!FlattenSeq(Beacon!Mixed) \o entropySources = added
          /\ Beacon!VerifyChain
          /\ \A e \in committed : \E i \in DOMAIN added : added[i] = [of |-> candidates[e]]
          /\ \A r \in results : Bound(r) /\ Selected(r, drawn)
        BY <1>2, BeaconParts
    <2>1. ASSUME UNCHANGED <<rounds, entropySources, added, results, drawn>>,
                 candidates' \in [Election -> Seq(Candidate)],
                 \A e \in committed' : e \in committed /\ candidates'[e] = candidates[e]
          PROVE  Beacon!BeaconInv'
        <3>1. Beacon!Mixed' = Beacon!Mixed
            BY <2>1 DEF Beacon!Mixed, Beacon!Output, Beacon!Last
        <3>2. Beacon!FlattenSeq(Beacon!Mixed)' = Beacon!FlattenSeq(Beacon!Mixed)
            BY <3>1
        <3>3. Beacon!VerifyChain'
            BY <2>0, <2>1 DEF Beacon!VerifyChain, Beacon!Output
        <3>4. \A e \in committed' : \E i \in DOMAIN added' : added'[i] = [of |-> candidates'[e]]
            BY <2>0, <2>1, SMTT(30)
        <3> QED
            BY <2>0, <2>1, <3>1, <3>2, <3>3, <3>4, BeaconPartsNext
    <2>2. CASE \E e \in Election, c \in Candidate : Beacon!RegisterCandidate(e, c)
        <3>1. PICK e \in Election, c \in Candidate : Beacon!RegisterCandidate(e, c)
            BY <2>2
        <3>2. /\ candidates' = [candidates EXCEPT ![e] = Append(candidates[e], c)]
              /\ e \notin committed /\ committed' = committed
              /\ UNCHANGED <<rounds, entropySources, added, results, drawn>>
            BY <3>1 DEF Beacon!RegisterCandidate
        <3>3. candidates[e] \in Seq(Candidate)
            BY <2>0
        <3>4. Append(candidates[e], c) \in Seq(Candidate)
            BY <3>3
        <3>5. candidates' \in [Election -> Seq(Candidate)]
            BY <2>0, <3>2, <3>4
        <3>6. \A ee \in committed' : ee \in committed /\ candidates'[ee] = candidates[ee]
            BY <2>0, <3>2
        <3> QED
            BY <2>1, <3>2, <3>5, <3>6
    <2>3. CASE \E e \in Election : Beacon!Reset(e)
        <3>1. PICK e \in Election : Beacon!Reset(e)
            BY <2>3
        <3>2. /\ candidates' = [candidates EXCEPT ![e] = << >>]
              /\ committed' = committed \ {e}
              /\ UNCHANGED <<rounds, entropySources, added, results, drawn>>
            BY <3>1 DEF Beacon!Reset
        <3>3. candidates' \in [Election -> Seq(Candidate)]
            BY <2>0, <3>2
        <3>4. \A ee \in committed' : ee \in committed /\ candidates'[ee] = candidates[ee]
            BY <2>0, <3>2
        <3> QED
            BY <2>1, <3>2, <3>3, <3>4
    <2>4. ASSUME NEW x \in Beacon!Source, Beacon!AddTo(x),
                 UNCHANGED <<rounds, candidates, drawn, results>>,
                 \A e \in committed' : e \in committed \/ x = [of |-> candidates[e]]
          PROVE  Beacon!BeaconInv'
        <3>1. entropySources' = Append(entropySources, x) /\ added' = Append(added, x)
            BY <2>4 DEF Beacon!AddTo
        <3>2. /\ rounds' \in Seq(RoundRecord) /\ entropySources' \in Mixes
              /\ Beacon!Mixed' = [i \in DOMAIN rounds' |-> rounds'[i].mix]
              /\ Beacon!FlattenSeq(Beacon!Mixed)' \o entropySources' = added'
              /\ Beacon!VerifyChain'
              /\ DOMAIN added' = 1 .. Len(added) + 1 /\ added'[Len(added) + 1] = x
              /\ \A i \in DOMAIN added : i \in DOMAIN added' /\ added'[i] = added[i]
            BY <1>2, <2>4, <3>1, SourceAdded
        <3>3. ASSUME NEW e \in committed'
              PROVE  \E i \in DOMAIN added' : added'[i] = [of |-> candidates'[e]]
            <4>1. CASE e \in committed
                <5>1. PICK i \in DOMAIN added : added[i] = [of |-> candidates[e]]
                    BY <2>0, <4>1
                <5> QED
                    BY <2>4, <3>2, <5>1
            <4>2. CASE e \notin committed
                <5>1. Len(added) + 1 \in DOMAIN added'
                    <6>1. Len(added) \in Nat
                        BY <1>2, BeaconTyped DEF Mixes
                    <6> QED
                        BY <3>2, <6>1
                <5> QED
                    BY <2>4, <3>2, <4>2, <5>1
            <4> QED
                BY <4>1, <4>2
        <3> QED
            BY <2>0, <2>4, <3>2, <3>3, BeaconPartsNext
    <2>5. CASE \E source \in Entropy : Beacon!AddEntropy(source)
        <3>1. PICK source \in Entropy : Beacon!AddEntropy(source)
            BY <2>5
        <3>2. source \in Beacon!Source
            BY DEF Beacon!Source
        <3> QED
            BY <2>4, <3>1, <3>2 DEF Beacon!AddEntropy
    <2>6. CASE \E e \in Election : Beacon!CloseRegistration(e)
        <3>1. PICK e \in Election : Beacon!CloseRegistration(e)
            BY <2>6
        <3>2. PICK x : x = [of |-> candidates[e]]
            OBVIOUS
        <3>3. x \in Beacon!Source
            <4>1. candidates[e] \in Seq(Candidate)
                BY <2>0
            <4> QED
                BY <3>2, <4>1 DEF Beacon!Source
        <3>4. Beacon!AddTo(x) /\ committed' = committed \cup {e}
            BY <3>1, <3>2 DEF Beacon!CloseRegistration, Beacon!Commitment
        <3>5. UNCHANGED <<rounds, candidates, drawn, results>>
            BY <3>1 DEF Beacon!CloseRegistration
        <3>6. \A ee \in committed' : ee \in committed \/ x = [of |-> candidates[ee]]
            BY <3>2, <3>4
        <3> QED
            BY <2>4, <3>3, <3>4, <3>5, <3>6
    <2>7. ASSUME Beacon!Advance, UNCHANGED <<candidates, committed, added>>,
                 \A r \in results' : Bound(r) /\ Selected(r, drawn')
          PROVE  Beacon!BeaconInv'
        <3>1. /\ rounds' \in Seq(RoundRecord) /\ entropySources' \in Mixes
              /\ Beacon!Mixed' = [i \in DOMAIN rounds' |-> rounds'[i].mix]
              /\ Beacon!FlattenSeq(Beacon!Mixed)' \o entropySources' = added'
              /\ Beacon!VerifyChain'
            BY <1>2, <2>7, RoundAdded
        <3>2. \A e \in committed' : \E i \in DOMAIN added' : added'[i] = [of |-> candidates'[e]]
            BY <2>0, <2>7
        <3> QED
            BY <2>0, <2>7, <3>1, <3>2, BeaconPartsNext
    <2>8. CASE Beacon!NextRound
        BY <2>0, <2>7, <2>8 DEF Beacon!NextRound
    <2>9. CASE \E e \in Election : Beacon!Elect(e)
        <3>1. PICK e \in Election : Beacon!Elect(e)
            BY <2>9
        <3>2. PICK ch, cs : ch = Beacon!Challenge /\ cs = candidates[e]
            OBVIOUS
        <3>3. PICK index \in DOMAIN cs :
                  /\ Beacon!Select(ch, Len(cs), index)
                  /\ results' = results \cup {[election |-> e, round |-> ch, index |-> index,
                                               winnerId |-> cs[index], among |-> cs]}
            BY <3>1, <3>2 DEF Beacon!Elect
        <3>4. drawn \subseteq drawn' /\ [round |-> ch, n |-> Len(cs), index |-> index] \in drawn'
            BY <3>3 DEF Beacon!Select
        <3>5. PICK r : r = [election |-> e, round |-> ch, index |-> index,
                            winnerId |-> cs[index], among |-> cs]
            OBVIOUS
        <3>6. r.round = ch /\ r.index = index /\ r.among = cs
            BY <3>5
        <3>7. Selected(r, drawn')
            BY <3>4, <3>6 DEF Selected
        <3>8. Bound(r)
            <4>1. Beacon!FlattenSeq(Beacon!Output(ch)) = added
                BY <1>2, <3>2, RoundMixes
            <4>2. \E i \in DOMAIN added : added[i] = [of |-> cs]
                BY <2>0, <3>1, <3>2 DEF Beacon!Elect
            <4> QED
                BY <3>6, <4>1, <4>2 DEF Bound
        <3>9. \A q \in results : Bound(q) /\ Selected(q, drawn')
            BY <2>0, <3>4 DEF Selected
        <3>10. \A q \in results' : Bound(q) /\ Selected(q, drawn')
            BY <3>3, <3>5, <3>7, <3>8, <3>9
        <3> QED
            BY <2>7, <3>1, <3>10 DEF Beacon!Elect
    <2>10. CASE UNCHANGED Beacon!vars
        BY <2>0, <2>1, <2>10 DEF Beacon!vars
    <2> QED
        BY <1>2, <2>2, <2>3, <2>5, <2>6, <2>8, <2>9, <2>10 DEF Beacon!Next
<1> QED
    BY <1>1, <1>2

\* So winners are chosen after their candidates were committed to.
LEMMA BeaconSafe == Beacon!BeaconInv => Beacon!WinnersBoundToCandidates
<1> SUFFICES ASSUME Beacon!BeaconInv PROVE Beacon!WinnersBoundToCandidates
    OBVIOUS
<1>1. /\ Beacon!Mixed = [i \in DOMAIN rounds |-> rounds[i].mix]
      /\ Beacon!FlattenSeq(Beacon!Mixed) \o entropySources = added
      /\ Beacon!VerifyChain
      /\ \A r \in results : Bound(r) /\ Selected(r, drawn)
    BY BeaconParts
<1>2. Beacon!FlattenSeq([i \in DOMAIN rounds |-> rounds[i].mix]) \o entropySources = added
    BY <1>1
<1>3. ASSUME NEW r \in results
      PROVE  LET mixed == Beacon!FlattenSeq(Beacon!Output(r.round))
             IN  /\ \E i \in DOMAIN mixed : mixed[i] = [of |-> r.among]
                 /\ candidates[r.election] = r.among => Beacon!VerifyElection(r.election, r)
    BY <1>1 DEF Bound, Selected, Beacon!VerifyElection
<1> QED
    BY <1>1, <1>2, <1>3 DEF Beacon!WinnersBoundToCandidates

-----------------------------------------------------------------------------

\* The inductive invariant of the whole: that of every part, whichever part runs.
MCInv ==
    /\ ServiceInv
    /\ samples \in Seq(Symbol)
    /\ Drbg!DrbgInv
    /\ Pool!PoolInv
    /\ Delay!DelayInv
    /\ Beacon!BeaconInv

\* A part that does not run keeps its invariant.
LEMMA Beside ==
    ASSUME MCInv
    PROVE  /\ UNCHANGED vars => ServiceInv'
           /\ UNCHANGED samples => (samples \in Seq(Symbol))'
           /\ UNCHANGED drbgVars => Drbg!DrbgInv'
           /\ UNCHANGED poolVars => Pool!PoolInv'
           /\ UNCHANGED delayVars => Delay!DelayInv'
           /\ UNCHANGED beaconVars => Beacon!BeaconInv'
<1>1. ASSUME UNCHANGED vars PROVE ServiceInv'
    BY <1>1, ServiceInductive DEF MCInv
<1>2. ASSUME UNCHANGED samples PROVE (samples \in Seq(Symbol))'
    BY <1>2 DEF MCInv
<1>3. ASSUME UNCHANGED drbgVars PROVE Drbg!DrbgInv'
    BY <1>3, DrbgInductive DEF MCInv, drbgVars, Drbg!vars
<1>4. ASSUME UNCHANGED poolVars PROVE Pool!PoolInv'
    BY <1>4, PoolInductive DEF MCInv, poolVars, Pool!vars
<1>5. ASSUME UNCHANGED beaconVars PROVE Beacon!BeaconInv'
    BY <1>5, BeaconInductive DEF MCInv, beaconVars, Beacon!vars
<1>6. ASSUME UNCHANGED delayVars PROVE Delay!DelayInv'
    BY <1>6, DelayInductive DEF MCInv, delayVars, Delay!vars
<1> QED
    BY <1>1, <1>2, <1>3, <1>4, <1>5, <1>6

\* It holds at first.
LEMMA MCInitial == MCInit => MCInv
BY ServiceInductive, SamplesInductive, DrbgInductive, PoolInductive, DelayInductive,
   BeaconInductive
DEF MCInit, MCInv

\* Every step of every part keeps it.
LEMMA MCStep ==
    MCInv /\ [MCNext]_<<part, byteVars, keyVars>> => MCInv'
<1> SUFFICES ASSUME MCInv, [MCNext]_<<part, byteVars, keyVars>> PROVE MCInv'
    OBVIOUS
<1>0. /\ ServiceInv /\ samples \in Seq(Symbol) /\ Drbg!DrbgInv /\ Pool!PoolInv
      /\ Delay!DelayInv /\ Beacon!BeaconInv
    BY DEF MCInv
<1>1. CASE Next /\ UNCHANGED <<samples, drbgVars, poolVars, delayVars, beaconVars>>
    <2>1. ServiceInv'
        BY <1>0, <1>1, ServiceInductive
    <2> QED
        BY <1>1, <2>1, Beside DEF MCInv
<1>2. CASE Health!Next /\ UNCHANGED <<vars, drbgVars, poolVars, delayVars, beaconVars>>
    <2>1. (samples \in Seq(Symbol))'
        BY <1>0, <1>2, SamplesInductive
    <2> QED
        BY <1>2, <2>1, Beside DEF MCInv
<1>3. CASE Drbg!Next /\ UNCHANGED <<vars, samples, poolVars, delayVars, beaconVars>>
    <2>1. Drbg!DrbgInv'
        BY <1>0, <1>3, DrbgInductive
    <2> QED
        BY <1>3, <2>1, Beside DEF MCInv
<1>4. CASE Pool!Next /\ UNCHANGED <<vars, samples, drbgVars, delayVars, beaconVars>>
    <2>1. Pool!PoolInv'
        BY <1>0, <1>4, PoolInductive
    <2> QED
        BY <1>4, <2>1, Beside DEF MCInv
<1>5. CASE Beacon!Next /\ UNCHANGED <<vars, samples, drbgVars, poolVars, delayVars>>
    <2>1. Beacon!BeaconInv'
        BY <1>0, <1>5, BeaconInductive
    <2> QED
        BY <1>5, <2>1, Beside DEF MCInv
<1>6. CASE Delay!Next /\ UNCHANGED <<vars, samples, drbgVars, poolVars, beaconVars>>
    <2>1. Delay!DelayInv'
        BY <1>0, <1>6, DelayInductive
    <2> QED
        BY <1>6, <2>1, Beside DEF MCInv
<1>7. CASE UNCHANGED byteVars
    BY <1>7, Beside DEF MCInv, byteVars
<1> QED
    BY <1>1, <1>2, <1>3, <1>4, <1>5, <1>6, <1>7 DEF MCNext

\* All of it holds at every state.
THEOREM EntropyInvariant == MCSpec => []MCInv
<1> QED
    BY MCInitial, MCStep, PTL DEF MCSpec

\* Whatever the service calls full entropy is proved so, by what its capture measured
\* (EntropyService, extractSeed()).
THEOREM FullEntropyAlwaysProven == MCSpec => []FullEntropyProven
<1>1. MCInv => FullEntropyProven
    BY ServiceSafe DEF MCInv
<1> QED
    BY <1>1, EntropyInvariant, PTL

\* No byte of a device, of the DRBG or of the sampling pool is handed out twice.
THEOREM BytesNeverRepeat == MCSpec => []BytesUsedOnce
<1>1. MCInv => BytesUsedOnce
    BY ServiceSafe, DrbgSafe DEF MCInv, BytesUsedOnce, Pool!PoolInv
<1> QED
    BY <1>1, EntropyInvariant, PTL

\* A source that sticks is found wherever the run lies; the first test fails no other
\* (repetitionCountTest(), adaptiveProportionTest()).
THEOREM StuckSourcesAlwaysFound == MCSpec => []StuckSourcesFound
<1>1. MCInv => StuckSourcesFound
    BY HealthSafe DEF MCInv, StuckSourcesFound
<1> QED
    BY <1>1, EntropyInvariant, PTL

\* No result of randomUniformInt() or randomBigIntBelow() comes of more values of its
\* bytes than another, and every order of fisherYatesShuffle() of just one way to draw.
THEOREM NothingDrawnIsBiased == MCSpec => []Unbiased
<1>1. MCInv => Unbiased
    BY DrawsAreFair DEF MCInv, Unbiased
<1> QED
    BY <1>1, EntropyInvariant, PTL

\* Both proofs of an honest squaring are accepted, and chains of the first; a timelock
\* encrypted with the factors opens without them (evaluateWesolowski(), evaluatePietrzak(),
\* buildChain(), TimelockEncryption).
THEOREM HonestSquaringsAlwaysVerify == MCSpec => []HonestSquaringsVerify
<1>1. MCInv => HonestSquaringsVerify
    BY DelaySafe DEF MCInv, HonestSquaringsVerify
<1> QED
    BY <1>1, EntropyInvariant, PTL

\* A winner is chosen by a round that mixed the commitment to its candidates, however
\* elections share the beacon (RandomnessBeacon, FairLeaderElection).
THEOREM WinnersAlwaysBound == MCSpec => []WinnersBoundToCandidates
<1>1. MCInv => WinnersBoundToCandidates
    BY BeaconSafe DEF MCInv, WinnersBoundToCandidates
<1> QED
    BY <1>1, EntropyInvariant, PTL

-----------------------------------------------------------------------------
(* KeyStore: its invariant and the steps that keep it are in that module. *)

\* The keys' invariant holds at first, and the other parts leave it alone.
LEMMA KeysInductive ==
    /\ MCInit => Keys!IInv
    /\ Keys!IInv /\ [MCNext]_<<part, byteVars, keyVars>> => Keys!IInv'
<1>1. MCInit => Keys!IInv
    BY KeyAssumption, Keys!InitHolds DEF MCInit
<1>2. UNCHANGED keyVars => UNCHANGED Keys!vars
    BY DEF keyVars, Keys!vars, Keys!disk, Keys!ghost
<1>3. Keys!IInv /\ [Keys!Next]_(Keys!vars) => Keys!IInv'
    BY KeyAssumption, Keys!StepHolds
<1>4. ASSUME Keys!IInv, [MCNext]_<<part, byteVars, keyVars>> PROVE Keys!IInv'
    <2>1. Keys!Next \/ UNCHANGED keyVars
        BY <1>4 DEF MCNext
    <2> QED
        BY <1>2, <1>3, <1>4, <2>1
<1> QED
    BY <1>1, <1>4

\* What retrieve-key hands out was on disk, whole, unless two stores of the key
\* overlapped or a restart cut one short.
THEOREM HandsOutWhatWasStored == MCSpec => []HandedOutWasOnDisk
<1>1. Keys!IInv => HandedOutWasOnDisk
    BY Keys!InvariantSafe DEF HandedOutWasOnDisk
<1> QED
    BY <1>1, KeysInductive, PTL DEF MCSpec

\* An acknowledged store survives other calls, the cache's expiry and restarts.
THEOREM AcknowledgedIsDurable == MCSpec => []DurableOnceAcknowledged
<1>1. Keys!IInv => DurableOnceAcknowledged
    BY Keys!InvariantSafe DEF DurableOnceAcknowledged
<1> QED
    BY <1>1, KeysInductive, PTL DEF MCSpec

=============================================================================
