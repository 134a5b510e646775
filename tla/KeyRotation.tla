----------------------------- MODULE KeyRotation ----------------------------
(***************************************************************************)
(* The schedule by which keys are replaced (KeyRotation of                 *)
(* pq-certificate-authority.ts).  Each rotation copies the schedule of the *)
(* key it replaces to the new key, so a line of keys has one schedule for  *)
(* the name it was registered by and one more for every rotation.  Map     *)
(* order decides which schedule isInOverlapPeriod() looks at: `order' is   *)
(* the order in which their keys were set first.                           *)
(***************************************************************************)
EXTENDS Integers, Sequences

CONSTANTS
    Interval,   \* rotation intervals that may be asked for
    Overlap,    \* overlap periods that may be asked for
    MaxKeys,    \* bound: keys of all lines
    MaxTime     \* bound: time

VARIABLES
    now,
    schedule,   \* rotationSchedule: by key, numbered as they come to be
    order,
    givenUp,    \* whether a key that had replaced another was registered anew
    promised    \* for each replaced key, the ends of overlap that were returned

vars == <<now, schedule, order, givenUp, promised>>

NoKey == 0
Key == 1 .. MaxKeys
NewKey == Len(order) + 1

Init ==
    /\ now = 0
    /\ schedule = << >>
    /\ order = << >>
    /\ givenUp = FALSE
    /\ promised = [k \in Key |-> << >>]

\* rotationSchedule.set()
SetSchedule(keys, s) ==
    schedule' = [k \in DOMAIN schedule \cup keys |-> IF k \in keys THEN s ELSE schedule[k]]

\* registerKey(): of a new key, or once more of one that has a schedule, which
\* gives up the overlap of the key before it.
RegisterKey(key, interval, overlap) ==
    /\ key <= MaxKeys
    /\ order' = IF key = NewKey THEN Append(order, key) ELSE order
    /\ SetSchedule({key}, [current |-> key, previous |-> NoKey,
                           nextRotation |-> now + interval, overlap |-> overlap,
                           interval |-> interval, generation |-> 1])
    /\ givenUp' = (givenUp \/ (key # NewKey /\ schedule[key].previous # NoKey))
    /\ UNCHANGED <<now, promised>>

\* Faulty variant: the interval starts over at the time it should have.
RotatedOnSchedule(s) ==
    [s EXCEPT !.previous = s.current, !.current = NewKey,
              !.nextRotation = @ + s.interval, !.generation = @ + 1]

\* What rotate() makes of a schedule.
Rotated(s) ==
    [s EXCEPT !.previous = s.current, !.current = NewKey,
              !.nextRotation = now + s.interval, !.generation = @ + 1]

\* rotate()
Rotate(key) ==
    LET s == schedule[key]
    IN  /\ NewKey <= MaxKeys
        /\ order' = Append(order, NewKey)
        /\ SetSchedule({key, NewKey}, Rotated(s))
        /\ promised' = [promised EXCEPT ![s.current] = Append(@, now + s.overlap)]
        /\ UNCHANGED <<now, givenUp>>

OverlapEnd(s) == s.nextRotation - s.interval + s.overlap

\* isInOverlapPeriod(): the first schedule that replaced the key decides.
IsInOverlapPeriod(key) ==
    LET replaced == {i \in DOMAIN order : schedule[order[i]].previous = key}
    IN  /\ replaced # {}
        /\ LET i == CHOOSE i \in replaced : \A j \in replaced : i <= j
           IN  now < OverlapEnd(schedule[order[i]])

Tick ==
    /\ now < MaxTime
    /\ now' = now + 1
    /\ UNCHANGED <<schedule, order, givenUp, promised>>

Next ==
    \/ \E key \in DOMAIN schedule \cup {NewKey}, interval \in Interval, overlap \in Overlap :
         RegisterKey(key, interval, overlap)
    \/ \E key \in DOMAIN schedule : Rotate(key)
    \/ Tick

Spec == Init /\ [][Next]_vars

-----------------------------------------------------------------------------

\* As long as no key was replaced under two of its names, or registered anew in
\* the middle of its line, every replaced key is in its overlap period exactly until
\* the end that rotate() returned, through any number of later rotations of its line
\* by whichever of their names.  (Both names are due at the same time, and rotating
\* both replaces one key by two and drops the overlap of the key before it.)
OverlapAsPromised ==
    (~givenUp /\ \A k \in Key : Len(promised[k]) <= 1) =>
        \A k \in Key :
            promised[k] # << >> => (IsInOverlapPeriod(k) <=> now < promised[k][1])

-----------------------------------------------------------------------------

Keys == 1 .. Len(order)

Schedules == [current : Keys, previous : Keys \cup {NoKey}, nextRotation : Int,
              overlap : Int, interval : Int, generation : Int]

TypeOK ==
    /\ now \in Int
    /\ order \in Seq(Int)
    /\ Len(order) <= MaxKeys
    /\ \A i \in DOMAIN order : order[i] = i
    /\ schedule \in [Keys -> Schedules]
    /\ givenUp \in BOOLEAN
    /\ promised \in [Key -> Seq(Int)]

\* A schedule that replaced a key was promised an end of its overlap.
Promised ==
    \A x \in Keys : schedule[x].previous # NoKey => promised[schedule[x].previous] # << >>

\* No key was replaced under two names, or registered anew amid its line.
Single == ~givenUp /\ \A k \in Key : Len(promised[k]) <= 1

\* The schedule by x can be rotated without k's being forgotten: it is out of use, for
\* its key was replaced under another name, or there is another one like it.
Kept(k, x) ==
    /\ schedule[x].previous = k
    /\ \/ promised[schedule[x].current] # << >>
       \/ \E y \in Keys \ {x} : /\ schedule[y].previous = k
                                /\ schedule[y].current = schedule[x].current

\* What makes it inductive: all schedules that replaced a key agree on the end of its
\* overlap, and one of them is there for good.
OverlapInv ==
    /\ TypeOK
    /\ Promised
    /\ Single => \A k \in Key : promised[k] # << >> =>
         /\ \A x \in Keys : schedule[x].previous = k => OverlapEnd(schedule[x]) = promised[k][1]
         /\ \E x \in Keys : Kept(k, x)

=============================================================================
