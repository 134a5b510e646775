----------------------------- MODULE AuditTrail -----------------------------
(***************************************************************************)
(* AuditLog of pq-secure-messaging.ts: every entry carries a hash over its *)
(* data and the hash before.  getEntries() hands out the list itself, so   *)
(* whoever has it may change it; the key and the last hash stay inside.    *)
(***************************************************************************)
EXTENDS Naturals, Sequences, SequencesExt

CONSTANTS
    Event,
    MaxEntries      \* bound: of entries

VARIABLES
    entries,
    lastHmac,
    recorded        \* the entries as they were recorded

vars == <<entries, lastHmac, recorded>>

\* Hashes of the key are the lists they were made from; before the first there are zeros.
Genesis == << >>

\* Faulty variant: the hash of the entry alone.
HmacUnchained(previous, data) == <<data>>

Hmac(previous, data) == Append(previous, data)

Init ==
    /\ entries = << >>
    /\ lastHmac = Genesis
    /\ recorded = << >>

Record(event) ==
    /\ Len(recorded) < MaxEntries
    /\ LET entry == [data |-> event, integrity |-> Hmac(lastHmac, event)]
       IN  /\ lastHmac' = entry.integrity
           /\ entries' = Append(entries, entry)
           /\ recorded' = Append(recorded, entry)

\* What a holder of the list can do without the key.
Tamper(i, event) ==
    /\ entries' = [entries EXCEPT ![i].data = event]
    /\ UNCHANGED <<lastHmac, recorded>>

Drop(i) ==
    /\ entries' = RemoveAt(entries, i)
    /\ UNCHANGED <<lastHmac, recorded>>

Repeat(i) ==
    /\ Len(entries) < MaxEntries
    /\ entries' = InsertAt(entries, i, entries[i])
    /\ UNCHANGED <<lastHmac, recorded>>

Next ==
    \/ \E event \in Event : Record(event)
    \/ \E i \in DOMAIN entries, event \in Event : Tamper(i, event)
    \/ \E i \in DOMAIN entries : Drop(i)
    \/ \E i \in DOMAIN entries : Repeat(i)

Spec == Init /\ [][Next]_vars

-----------------------------------------------------------------------------

\* The hash that verify() carries along: that of the data before.
Previous(i) == [n \in 1 .. i - 1 |-> entries[n].data]

\* verify(): the place of the first entry whose hash is not that of its data, or 0.
\* The last hash is not compared with anything.
Verify ==
    LET broken == {i \in DOMAIN entries : entries[i].integrity # Hmac(Previous(i), entries[i].data)}
    IN  IF broken = {} THEN 0 ELSE CHOOSE i \in broken : \A j \in broken : i <= j

\* The log is found whole exactly if it is a beginning of what was recorded: changes,
\* gaps and repetitions are found where they start, entries missing at the end are not.
TamperingFound ==
    IF IsPrefix(entries, recorded) THEN Verify = 0
    ELSE Verify # 0 /\ IsPrefix(SubSeq(entries, 1, Verify - 1), recorded)

=============================================================================
