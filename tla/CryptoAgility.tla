---------------------------- MODULE CryptoAgility ---------------------------
(***************************************************************************)
(* Algorithm negotiation and migration of pq-certificate-authority.ts      *)
(* (CryptoAgility): an order of preference that may be replaced, and a     *)
(* growing set of deprecated algorithms with deadlines.                    *)
(***************************************************************************)
EXTENDS Integers, Sequences, FiniteSets

CONSTANTS
    Preferences,    \* orders of preference that may be set
    Supported,      \* sets of algorithms that a party may support
    Deadline,       \* migration deadlines that may be given
    MaxTime         \* bound: time

VARIABLES
    now,
    algorithmPreferences,
    deprecatedAlgorithms,   \* in the order they were deprecated in
    migrationDeadlines

vars == <<now, algorithmPreferences, deprecatedAlgorithms, migrationDeadlines>>

NoDeadline == -1
Algorithm == UNION {{p[i] : i \in DOMAIN p} : p \in Preferences}
Deprecated(alg) == \E i \in DOMAIN deprecatedAlgorithms : deprecatedAlgorithms[i] = alg

\* The first preferred algorithm among some, or "null".
FirstOf(algs) ==
    LET found == {i \in DOMAIN algorithmPreferences : algorithmPreferences[i] \in algs}
    IN  IF found = {} THEN "null"
        ELSE algorithmPreferences[CHOOSE i \in found : \A j \in found : i <= j]

\* Faulty variant: the first preference both support, deprecated or not.
NegotiateAny(client, server) == FirstOf(client \cap server)

\* negotiateSignatureAlgorithm()
NegotiateSignatureAlgorithm(client, server) ==
    FirstOf({a \in client \cap server : ~Deprecated(a)})

\* getMigrationPlan(): where each deprecated algorithm is to lead, and how soon.
Replacement ==
    LET r == FirstOf({a \in Algorithm : ~Deprecated(a)})
    IN  IF r = "null" THEN "ML-DSA-65" ELSE r
Remaining(alg) == migrationDeadlines[alg] - now
Urgency(alg) ==
    IF migrationDeadlines[alg] = NoDeadline THEN 3
    ELSE IF Remaining(alg) < 0 THEN 0 ELSE IF Remaining(alg) < 1 THEN 1
    ELSE IF Remaining(alg) < 3 THEN 2 ELSE 3

\* The plan is sorted by urgency; a stable sort keeps the order of deprecation.
Entry(i) == [from |-> deprecatedAlgorithms[i], to |-> Replacement,
             urgency |-> Urgency(deprecatedAlgorithms[i])]
Before(i) ==
    {j \in DOMAIN deprecatedAlgorithms :
        \/ Entry(j).urgency < Entry(i).urgency
        \/ Entry(j).urgency = Entry(i).urgency /\ j < i}
MigrationPlan ==
    [n \in DOMAIN deprecatedAlgorithms |->
        Entry(CHOOSE i \in DOMAIN deprecatedAlgorithms : Cardinality(Before(i)) = n - 1)]

Init ==
    /\ now = 0
    /\ algorithmPreferences \in Preferences
    /\ deprecatedAlgorithms = << >>
    /\ migrationDeadlines = [a \in Algorithm |-> NoDeadline]

\* deprecateAlgorithm(): a deadline given earlier stays when none is given now.
DeprecateAlgorithm(alg, deadline) ==
    /\ deprecatedAlgorithms' = IF Deprecated(alg) THEN deprecatedAlgorithms
                               ELSE Append(deprecatedAlgorithms, alg)
    /\ migrationDeadlines' = IF deadline = NoDeadline THEN migrationDeadlines
                             ELSE [migrationDeadlines EXCEPT ![alg] = deadline]
    /\ UNCHANGED <<now, algorithmPreferences>>

SetSignaturePreferences(prefs) ==
    /\ algorithmPreferences' = prefs
    /\ UNCHANGED <<now, deprecatedAlgorithms, migrationDeadlines>>

Tick ==
    /\ now < MaxTime
    /\ now' = now + 1
    /\ UNCHANGED <<algorithmPreferences, deprecatedAlgorithms, migrationDeadlines>>

Next ==
    \/ \E alg \in Algorithm, deadline \in Deadline \cup {NoDeadline} :
         DeprecateAlgorithm(alg, deadline)
    \/ \E prefs \in Preferences : SetSignaturePreferences(prefs)
    \/ Tick

Spec == Init /\ [][Next]_vars

-----------------------------------------------------------------------------

\* Parties that have migrated as the plan says still find an algorithm: what two of
\* them negotiate once both support the plan's target is that target, unless every
\* preference is deprecated, when nothing can be negotiated though the plan still
\* names one; and the plan puts what is overdue first.
PlanCanBeFollowed ==
    LET plan == MigrationPlan
    IN  /\ \A i \in DOMAIN plan, client, server \in Supported :
             LET got == NegotiateSignatureAlgorithm(client \cup {plan[i].to},
                                                    server \cup {plan[i].to})
             IN  IF \A j \in DOMAIN algorithmPreferences : Deprecated(algorithmPreferences[j])
                 THEN got = "null" ELSE got = plan[i].to
        /\ \A i, j \in DOMAIN plan : i < j => plan[i].urgency <= plan[j].urgency

\* All that the plan rests on.
AgilityInv == algorithmPreferences \in Preferences /\ deprecatedAlgorithms \in Seq(Algorithm)

=============================================================================
