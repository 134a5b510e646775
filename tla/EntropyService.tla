--------------------------- MODULE EntropyService ---------------------------
(***************************************************************************)
(* src/src/utils/entropy: EntropyService (sources.ts) with the gate for    *)
(* captures of an external device and the sources that come of them        *)
(* (ingest.ts).  The tool secure-random calls generate() of one service    *)
(* that the whole server shares, the tool entropy-ingest the gate; devices *)
(* are registered by whoever uses the package as a library.                *)
(*                                                                         *)
(* A capture is its length, what the tests of SP 800-90B find in it, and   *)
(* its measured min-entropy, in quarters of a bit per byte.  Nothing reads *)
(* the health report of a draw, so it is left out.  A call that throws     *)
(* changes nothing and is a stuttering step: a length that is not a        *)
(* positive integer, a buffer with too few bytes left, a hardware          *)
(* generator that returns no data.                                         *)
(***************************************************************************)
EXTENDS Integers, Sequences

CONSTANTS
    Capture,   \* bound: the captures, [size, finding, hMin] each
    DrawSize,  \* bound: the lengths that are asked for
    SeedBits,  \* seedBits
    Margin,    \* 2 * log2(1 / epsilon), BEST_EPSILON of an ingest
    MinEntropyFloor, \* minEntropyFloor, in quarters of a bit
    MaxDevices,      \* bound: the captures that are registered
    MaxDraws         \* bound: the draws that succeed

ASSUME CaptureAssumption ==
    \A c \in Capture : /\ c.size \in Nat /\ c.hMin \in 0 .. 32
                       /\ c.finding \in {"none", "stuck", "biased"}

\* The floor is that of an ingest which names none, five bits, or a higher one.
ASSUME EntropyAssumption ==
    /\ SeedBits \in Nat /\ Margin \in Nat
    /\ MinEntropyFloor \in Nat /\ 20 <= MinEntropyFloor
    /\ DrawSize \subseteq Nat

VARIABLES
    hwrng,    \* /dev/hwrng: "absent", "ready", or "dry" when it has no data
    sources,  \* the service's sources, in its order; a device by its number
    devices,  \* the device buffers, in the order of their registration
    seeds,    \* the results that carried a seed
    answers   \* the draws that succeeded

vars == <<hwrng, sources, devices, seeds, answers>>

HwRng == 0
Csprng == -1
Device(s) == s > 0

Init ==
    /\ hwrng = "absent"
    /\ sources = <<HwRng, Csprng>>
    /\ devices = << >>
    /\ seeds = {}
    /\ answers = << >>

-----------------------------------------------------------------------------
(* The gate.                                                               *)

\* leftoverHashLemmaCheck() on input bytes of h quarters of a bit each.
SatisfiesLHL(inputBytes, outputBits, h, margin) ==
    4 * (outputBits + margin) <= inputBytes * h

\* The bytes that a seed of full entropy takes, rounded up.
NeedBytes(h) == (4 * (SeedBits + Margin + 64) + h - 1) \div h

Accepted(c) ==
    /\ c.finding = "none"
    /\ c.hMin >= MinEntropyFloor
    /\ NeedBytes(c.hMin) <= c.size

\* The result for an accepted capture, with its certificate.
SeedFrom(c) ==
    [capture |-> c, consumed |-> NeedBytes(c.hMin),
     fullEntropy |-> SatisfiesLHL(NeedBytes(c.hMin), SeedBits, c.hMin, Margin)]

IngestExternalEntropy(c) ==
    /\ Accepted(c)
    /\ seeds' = seeds \cup {SeedFrom(c)}
    /\ UNCHANGED <<hwrng, sources, devices, answers>>

-----------------------------------------------------------------------------
(* The sources.                                                            *)

Registered(s) == <<s>> \o sources

\* Whole bits, between one and eight.
Credited(c) == IF c.hMin < 4 THEN 1 ELSE c.hMin \div 4

RegisterValidatedSource(c) ==
    /\ Len(devices) < MaxDevices
    /\ Accepted(c)
    /\ seeds' = seeds \cup {SeedFrom(c)}
    /\ devices' = Append(devices, [capture |-> c, off |-> 0,
                                   credited |-> Credited(c)])
    /\ sources' = Registered(Len(devices) + 1)
    /\ UNCHANGED <<hwrng, answers>>

Raw(s) == s # Csprng

Available(s) ==
    CASE s = HwRng  -> hwrng # "absent"
      [] s = Csprng -> TRUE
      [] OTHER      -> devices[s].off < devices[s].capture.size

\* The source that generate() uses: the first raw one that is available, and
\* the system's generator when there is none.
Chosen ==
    LET raw == {i \in DOMAIN sources : Raw(sources[i]) /\ Available(sources[i])}
    IN  IF raw = {} THEN Csprng ELSE sources[CHOOSE i \in raw : \A j \in raw : i <= j]

\* Faulty variant: as many raw bytes as are asked for.
RawBytesSame(n) == n
RawBytes(n) == 2 * n

CanRead(d, k) == devices[d].off + k <= devices[d].capture.size

\* Faulty variant: the offset advances by what is handed out.
OffsetBehind(d, k) == devices[d].off + k \div 2
OffsetAfter(d, k) == devices[d].off + k

Answer(s, n, from, entropy) ==
    [source |-> s, bytes |-> n, from |-> from, read |-> RawBytes(n), hMin |-> entropy]

GenerateFromDevice(n) ==
    /\ Device(Chosen)
    /\ CanRead(Chosen, RawBytes(n))
    /\ devices' = [devices EXCEPT ![Chosen].off = OffsetAfter(Chosen, RawBytes(n))]
    /\ answers' = Append(answers, Answer(Chosen, n, devices[Chosen].off,
                                         devices[Chosen].capture.hMin))
    /\ UNCHANGED <<hwrng, sources, seeds>>

\* /dev/hwrng is credited with six bits per byte.
GenerateFromHwRng(n) ==
    /\ Chosen = HwRng
    /\ hwrng = "ready"
    /\ answers' = Append(answers, Answer(HwRng, n, 0, 24))
    /\ UNCHANGED <<hwrng, sources, devices, seeds>>

GenerateFromCsprng(n) ==
    /\ Chosen = Csprng
    /\ answers' = Append(answers, Answer(Csprng, n, 0, 32))
    /\ UNCHANGED <<hwrng, sources, devices, seeds>>

Generate(n) ==
    /\ Len(answers) < MaxDraws
    /\ \/ GenerateFromDevice(n)
       \/ GenerateFromHwRng(n)
       \/ GenerateFromCsprng(n)

\* The device file appears, vanishes, fails and recovers.
HardwareChanges ==
    /\ hwrng' \in {"absent", "ready", "dry"} \ {hwrng}
    /\ UNCHANGED <<sources, devices, seeds, answers>>

Next ==
    \/ \E c \in Capture : IngestExternalEntropy(c) \/ RegisterValidatedSource(c)
    \/ \E n \in DrawSize : Generate(n)
    \/ HardwareChanges

Spec == Init /\ [][Next]_vars

-----------------------------------------------------------------------------
(* Properties.                                                             *)

\* Two draws from one registered device share no byte of its capture, and
\* read none beyond its end.
NoByteServedTwice ==
    \A i, j \in DOMAIN answers :
        LET a == answers[i]
            b == answers[j]
        IN  Device(a.source) =>
              /\ a.from + a.read <= devices[a.source].capture.size
              /\ (i < j /\ a.source = b.source) => a.from + a.read <= b.from

\* Whatever is called full entropy is proved so by the Leftover Hash Lemma from
\* the entropy that was measured: every seed, however the division rounds, with
\* bytes that were captured; and every draw of 32 bytes or more from raw bytes,
\* at 2^-32.  (For a shorter draw it is not: the surplus of the doubled read is
\* then smaller than the lemma's 64 bits.)
FullEntropyProven ==
    /\ \A s \in seeds : s.fullEntropy /\ s.consumed <= s.capture.size
    /\ \A i \in DOMAIN answers :
         LET a == answers[i]
         IN  Raw(a.source) /\ a.bytes >= 32
               => SatisfiesLHL(a.read, 8 * a.bytes, a.hMin, 64)

-----------------------------------------------------------------------------

\* The sources, by what serves them.
Served == {HwRng, Csprng} \cup 1 .. Len(devices)

\* What a draw was answered with is of its source.
Answered(a) ==
    /\ a.read = 2 * a.bytes
    /\ a.source = HwRng => a.hMin = 24
    /\ Device(a.source) => /\ a.hMin = devices[a.source].capture.hMin
                           /\ a.from + a.read <= devices[a.source].off

\* What makes both properties inductive: every device is of an accepted capture, and is
\* read from behind all that was drawn from it.
ServiceInv ==
    /\ sources \in Seq(Served)
    /\ devices \in Seq([capture : {c \in Capture : Accepted(c)}, off : Nat, credited : Int])
    /\ answers \in Seq([source : Served, bytes : Nat, from : Nat, read : Nat, hMin : Int])
    /\ \A d \in DOMAIN devices : devices[d].off <= devices[d].capture.size
    /\ seeds \subseteq {SeedFrom(c) : c \in {c \in Capture : Accepted(c)}}
    /\ \A i \in DOMAIN answers : Answered(answers[i])
    /\ \A i, j \in DOMAIN answers :
         (i < j /\ answers[i].source = answers[j].source /\ Device(answers[i].source)) =>
             answers[i].from + answers[i].read <= answers[j].from

=============================================================================
