---------------------------- MODULE HealthTests ----------------------------
(***************************************************************************)
(* The two continuous tests of SP 800-90B in src/src/utils/entropy/        *)
(* health.ts, on a source whose samples arrive one at a time; the tests    *)
(* look at all samples so far, as a caller does who captures more.  The    *)
(* cutoffs are constants: they come from the assessed min-entropy alone.   *)
(***************************************************************************)
EXTENDS Integers, FiniteSets, FiniteSetsExt, Sequences

CONSTANTS
    Symbol,      \* the values of a sample
    RctCutoff,   \* 1 + ceil(-log2(alpha) / H)
    AptCutoff,   \* critBinom(W, 2^-H, 1 - alpha) + 1
    Window,      \* aptWindow
    MaxSamples   \* bound: the samples that are captured

VARIABLE samples

Init == samples = << >>

Sample(b) ==
    /\ Len(samples) < MaxSamples
    /\ samples' = Append(samples, b)

Next == \E b \in Symbol : Sample(b)

Spec == Init /\ [][Next]_samples

-----------------------------------------------------------------------------

\* Faulty variant: a new value does not end the run.
RunKept(s) ==
    LET run[i \in 1 .. Len(s)] ==
          IF i = 1 THEN 1
          ELSE IF s[i] = s[i - 1] THEN run[i - 1] + 1 ELSE run[i - 1]
    IN  run

\* The variable run of the loop, after every sample.
Run(s) ==
    LET run[i \in 1 .. Len(s)] ==
          IF i = 1 THEN 1
          ELSE IF s[i] = s[i - 1] THEN run[i - 1] + 1 ELSE 1
    IN  run

MaxRun(s) == Max({Run(s)[i] : i \in DOMAIN s} \cup {0})

RepetitionCountTest(s) == MaxRun(s) < RctCutoff

\* The windows lie side by side; an incomplete last one is not looked at.
WindowStarts(s) ==
    {k * Window + 1 : k \in {k \in 0 .. Len(s) : (k + 1) * Window <= Len(s)}}

AdaptiveProportionTest(s) ==
    \A first \in WindowStarts(s) :
        Cardinality({i \in first .. first + Window - 1 : s[i] = s[first]}) < AptCutoff

-----------------------------------------------------------------------------
(* Properties.                                                             *)

Stuck(s, k) ==
    \E i \in 1 .. Len(s) : /\ i + k - 1 <= Len(s)
                           /\ \A j \in i .. i + k - 1 : s[j] = s[i]

\* "fail if any byte value repeats C or more times in a row", and no other
\* samples fail; and a source that sticks for all but one sample of two windows
\* fails the other test as well, wherever the windows happen to lie.
StuckSourcesFound ==
    /\ RepetitionCountTest(samples) <=> ~Stuck(samples, RctCutoff)
    /\ Stuck(samples, 2 * Window - 1) => ~AdaptiveProportionTest(samples)

=============================================================================
