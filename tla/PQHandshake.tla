----------------------------- MODULE PQHandshake -----------------------------
(***************************************************************************)
(* The handshake of pq-certificate-authority.ts: PQHandshake objects, and  *)
(* the tickets of the SessionTicket they share.  An object may be asked    *)
(* for any step of either side, again after it failed, and with a hello    *)
(* whose key share or ciphertext has no right form.                        *)
(*                                                                         *)
(* No handshake comes to an end: createServerHello() throws when it signs, *)
(* and processServerHello() refuses every signature, because the key is    *)
(* given to the library where it wants the message or the signature.  A    *)
(* server's hello is another program's.  What was assigned before stays,   *)
(* and tickets are issued for it.  createFinished() needs a state that is  *)
(* never reached.                                                          *)
(*                                                                         *)
(* A secret is the number of the key exchange it came from.                *)
(***************************************************************************)
EXTENDS Naturals, FiniteSets

CONSTANTS
    Object,
    Suite,
    Strong,         \* the suites that have the security level negotiate() asks for
    Lifetime,       \* of a ticket
    MaxSecrets,     \* bounds: of key exchanges,
    MaxTickets,     \* of tickets,
    MaxRotations,   \* of key rotations,
    MaxTime         \* of the time

VARIABLES
    object,
    tickets,
    ticketKey,      \* how often it was changed
    exchanges,      \* how many key exchanges there were
    now

vars == <<object, tickets, ticketKey, exchanges, now>>

None == "none"
NoSecret == 0
Preferences == UNION {[1 .. n -> Suite] : n \in 1 .. Cardinality(Suite)}

Init ==
    /\ object = [o \in Object |->
         [state |-> "initial", finalized |-> FALSE, suite |-> None, secret |-> NoSecret,
          certificate |-> FALSE, keys |-> NoSecret]]
    /\ tickets = {}
    /\ ticketKey = 0
    /\ exchanges = 0
    /\ now = 0

\* The first of the server's suites that is strong enough and that the client has.
Negotiate(client, server) ==
    LET fits == {i \in DOMAIN server : server[i] \in Strong \cap client}
    IN  IF fits = {} THEN None ELSE server[CHOOSE i \in fits : \A j \in fits : i <= j]

\* deriveHandshakeKeys(): both keys come from the secret alone.
Derived(secret) == secret

\* addMessage() throws once the transcript is finalized, before anything changes.
Open(o) == ~object[o].finalized

CreateClientHello(o) ==
    /\ Open(o)
    /\ object' = [object EXCEPT ![o].state = "client_hello_sent"]
    /\ UNCHANGED <<tickets, ticketKey, exchanges, now>>

\* Without a common suite the handshake fails.  With one, suite and certificate are
\* taken; encapsulate() throws for a share that has no right form, and sign() for the
\* others, when the secret has been taken: state and keys are those before.
CreateServerHello(o, client, preferences, malformed) ==
    LET suite == Negotiate(client, preferences)
        agrees == suite # None /\ ~malformed
    IN  /\ Open(o)
        /\ agrees => exchanges < MaxSecrets
        /\ exchanges' = exchanges + (IF agrees THEN 1 ELSE 0)
        /\ object' = [object EXCEPT
             ![o].suite = suite,
             ![o].state = IF suite = None THEN "failed" ELSE @,
             ![o].certificate = @ \/ suite # None,
             ![o].secret = IF agrees THEN exchanges' ELSE @]
        /\ UNCHANGED <<tickets, ticketKey, now>>

\* The handshake fails: the suite is not known, or the ciphertext has no right form, or
\* else the signature is refused when secret and certificate have been taken.
ProcessServerHello(o, suite, malformed) ==
    LET agrees == suite # None /\ ~malformed
    IN  /\ object[o].state = "client_hello_sent" /\ Open(o)
        /\ agrees => exchanges < MaxSecrets
        /\ exchanges' = exchanges + (IF agrees THEN 1 ELSE 0)
        /\ object' = [object EXCEPT
             ![o].suite = suite, ![o].state = "failed", ![o].certificate = @ \/ agrees,
             ![o].secret = IF agrees THEN exchanges' ELSE @]
        /\ UNCHANGED <<tickets, ticketKey, now>>

\* It finalizes the transcript, whatever it answers; without keys it throws.
VerifyFinished(o) ==
    /\ object' = [object EXCEPT ![o].finalized = TRUE]
    /\ UNCHANGED <<tickets, ticketKey, exchanges, now>>

\* issue(): the state of the object, under the key of the time.
TicketOf(o) ==
    [key |-> ticketKey, expiresAt |-> now + Lifetime, secret |-> object[o].secret,
     suite |-> object[o].suite]

IssueSessionTicket(o) ==
    /\ object[o].secret # NoSecret /\ object[o].suite # None /\ object[o].certificate
    /\ Cardinality(tickets) < MaxTickets
    /\ tickets' = tickets \cup {TicketOf(o)}
    /\ UNCHANGED <<object, ticketKey, exchanges, now>>

\* redeem(): any number of times, until it expires or the key is another.
Redeemable(ticket) == now <= ticket.expiresAt /\ ticket.key = ticketKey

ResumeSession(o, ticket) ==
    /\ Redeemable(ticket)
    /\ object' = [object EXCEPT
         ![o].secret = ticket.secret, ![o].suite = ticket.suite,
         ![o].keys = Derived(ticket.secret), ![o].state = "established"]
    /\ UNCHANGED <<tickets, ticketKey, exchanges, now>>

RotateKey ==
    /\ ticketKey < MaxRotations
    /\ ticketKey' = ticketKey + 1
    /\ UNCHANGED <<object, tickets, exchanges, now>>

Tick ==
    /\ now < MaxTime
    /\ now' = now + 1
    /\ UNCHANGED <<object, tickets, ticketKey, exchanges>>

Next ==
    \/ \E o \in Object :
         \/ CreateClientHello(o)
         \/ \E malformed \in BOOLEAN :
              \/ \E client \in SUBSET Suite, preferences \in Preferences :
                   CreateServerHello(o, client, preferences, malformed)
              \/ \E suite \in Suite \cup {None} : ProcessServerHello(o, suite, malformed)
         \/ VerifyFinished(o)
         \/ IssueSessionTicket(o)
         \/ \E ticket \in tickets : ResumeSession(o, ticket)
    \/ RotateKey
    \/ Tick

Spec == Init /\ [][Next]_vars

-----------------------------------------------------------------------------

\* What getSharedSecret() says it gives is the secret of the established session: that of
\* the keys the session has.
SecretIsTheSessions ==
    \A o \in Object :
        object[o].state = "established" => object[o].keys = Derived(object[o].secret)

=============================================================================
