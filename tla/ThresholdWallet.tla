--------------------------- MODULE ThresholdWallet ---------------------------
(***************************************************************************)
(* ThresholdCryptoSystem of threshold-signatures.ts with its MultiSigWallet *)
(* and DistributedRandomBeacon.  The three hold one array of shares, which *)
(* a refresh writes in place; each initialization makes a new array, a new *)
(* wallet and a new beacon.  An array is a number; what it holds is the    *)
(* number of times it was refreshed.                                       *)
(***************************************************************************)
EXTENDS Integers, Sequences, FiniteSets

CONSTANTS
    NumSigners, Threshold,
    MaxArrays,      \* bound: initializations
    MaxRefreshes,   \* bound: refreshes
    MaxNonce,       \* bound: transactions that a wallet is proposed
    MaxRounds       \* bound: rounds of a beacon

VARIABLES
    initializing,   \* calls of initialize() that wait for their DKG
    started,        \* how many there were
    array,          \* what each array of shares holds
    signer,         \* the array of the system, 0 before there is one
    wallet,         \* its array, its nonce and its pending transactions
    beacon          \* its array, its round and what was contributed and not combined

vars == <<initializing, started, array, signer, wallet, beacon>>

Signer == 1 .. NumSigners
NoWallet == [shares |-> 0, nonce |-> 0, pendingTx |-> << >>, executed |-> 0]
NoBeacon == [shares |-> 0, round |-> 0, partials |-> << >>, history |-> << >>]
Initialized == signer # 0

Init ==
    /\ initializing = 0
    /\ started = 0
    /\ array = << >>
    /\ signer = 0
    /\ wallet = NoWallet
    /\ beacon = NoBeacon

\* initialize() up to its await
Initialize ==
    /\ started < MaxArrays
    /\ started' = started + 1
    /\ initializing' = initializing + 1
    /\ UNCHANGED <<array, signer, wallet, beacon>>

\* initialize() from its await on: the transactions of the old wallet are gone.
InitializeDone ==
    /\ initializing > 0
    /\ initializing' = initializing - 1
    /\ array' = Append(array, 0)
    /\ signer' = Len(array) + 1
    /\ wallet' = [NoWallet EXCEPT !.shares = Len(array) + 1]
    /\ beacon' = [NoBeacon EXCEPT !.shares = Len(array) + 1]
    /\ UNCHANGED started

\* Faulty variant: the refreshed shares are a new array.
RefreshSharesCopied ==
    /\ Initialized
    /\ array[signer] < MaxRefreshes
    /\ array' = Append(array, array[signer] + 1)
    /\ signer' = Len(array) + 1
    /\ UNCHANGED <<initializing, started, wallet, beacon>>

\* refreshShares(): share by share, in the array that everyone holds.
RefreshShares ==
    /\ Initialized
    /\ array[signer] < MaxRefreshes
    /\ array' = [array EXCEPT ![signer] = @ + 1]
    /\ UNCHANGED <<initializing, started, signer, wallet, beacon>>

-----------------------------------------------------------------------------
(* The wallet. *)

\* partialSign(): with the share as it is now.
Partial(shares, party) == [party |-> party, shares |-> shares, refreshed |-> array[shares]]

ProposeTransaction ==
    /\ Initialized
    /\ wallet.nonce < MaxNonce
    /\ wallet' = [wallet EXCEPT
                    !.pendingTx = Append(@, [nonce |-> wallet.nonce, status |-> "pending",
                                             signatures |-> << >>]),
                    !.nonce = @ + 1]
    /\ UNCHANGED <<initializing, started, array, signer, beacon>>

\* signTransaction(): the same signer may sign again.
SignTransaction(tx, party) ==
    LET t == wallet.pendingTx[tx]
        signatures == Append(t.signatures, Partial(wallet.shares, party))
    IN  /\ t.status = "pending"
        /\ wallet' = [wallet EXCEPT !.pendingTx[tx] =
                        [t EXCEPT !.signatures = signatures,
                                  !.status = IF Len(signatures) >= Threshold
                                             THEN "signed" ELSE "pending"]]
        /\ UNCHANGED <<initializing, started, array, signer, beacon>>

\* verify() of a combined signature: it has the challenge of the first part only, and
\* every part was made for a challenge of its own, so that of one part would do.
Verifies(signatures) == Len(signatures) = 1

\* executeTransaction(): a transaction that was rejected stays pending and may be tried
\* again.
ExecuteTransaction(tx) ==
    LET t == wallet.pendingTx[tx]
    IN  /\ t.status # "executed"
        /\ Len(t.signatures) >= Threshold
        /\ IF Verifies(SubSeq(t.signatures, 1, Threshold))
           THEN wallet' = [wallet EXCEPT !.pendingTx[tx].status = "executed",
                                         !.executed = @ + 1]
           ELSE wallet' = [wallet EXCEPT !.pendingTx[tx].status = "rejected"]
        /\ UNCHANGED <<initializing, started, array, signer, beacon>>

-----------------------------------------------------------------------------
(* The beacon. *)

\* contributePartial()
GenerateBeaconPartial(party) ==
    /\ Initialized
    /\ Len(beacon.partials) < Threshold
    /\ beacon' = [beacon EXCEPT !.partials = Append(@, Partial(beacon.shares, party))]
    /\ UNCHANGED <<initializing, started, array, signer, wallet>>

\* finalizeRound(): the round advances whether or not the signature verifies.
FinalizeBeacon ==
    /\ Initialized
    /\ beacon.round < MaxRounds
    /\ Len(beacon.partials) >= Threshold
    /\ beacon' = [beacon EXCEPT !.history = Append(@, SubSeq(beacon.partials, 1, Threshold)),
                                !.round = @ + 1, !.partials = << >>]
    /\ UNCHANGED <<initializing, started, array, signer, wallet>>

Next ==
    \/ Initialize
    \/ InitializeDone
    \/ RefreshShares
    \/ ProposeTransaction
    \/ \E tx \in DOMAIN wallet.pendingTx :
         \/ \E party \in Signer : SignTransaction(tx, party)
         \/ ExecuteTransaction(tx)
    \/ \E party \in Signer : GenerateBeaconPartial(party)
    \/ FinalizeBeacon

Spec == Init /\ [][Next]_vars

-----------------------------------------------------------------------------

Signed(tx) == tx.status \in {"signed", "rejected", "executed"}

\* The wallet, the beacon and the system work with the same shares, however
\* initializations overlap and refreshes come between: the signatures on a
\* transaction, and those that went into a beacon round, are by shares of the current
\* key, and no transaction takes more signatures than it needs.
OneSetOfShares ==
    /\ wallet.shares = signer
    /\ beacon.shares = signer
    /\ \A i \in DOMAIN wallet.pendingTx :
         LET tx == wallet.pendingTx[i]
         IN  /\ Signed(tx) <=> Len(tx.signatures) = Threshold
             /\ \A j \in DOMAIN tx.signatures : tx.signatures[j].shares = signer
    /\ \A r \in DOMAIN beacon.history : \A j \in 1 .. Threshold :
         beacon.history[r][j].shares = signer

-----------------------------------------------------------------------------

Part == [party : Signer, shares : Nat, refreshed : Nat]
Status == {"pending", "signed", "rejected", "executed"}
Transaction == [nonce : Nat, status : Status, signatures : Seq(Part)]
WalletState == [shares : Nat, nonce : Nat, pendingTx : Seq(Transaction), executed : Nat]
BeaconState == [shares : Nat, round : Nat, partials : Seq(Part), history : Seq(Seq(Part))]

\* With partial signatures of the shares of the system only.
BySystem(parts) == \A j \in DOMAIN parts : parts[j].shares = signer

\* What makes the property inductive.
WalletInv ==
    /\ array \in Seq(Nat) /\ signer \in 0 .. Len(array)
    /\ wallet \in WalletState /\ wallet.shares = signer
    /\ wallet.pendingTx # << >> => Initialized
    /\ beacon \in BeaconState /\ beacon.shares = signer
    /\ \A i \in DOMAIN wallet.pendingTx :
         LET tx == wallet.pendingTx[i]
         IN  /\ Len(tx.signatures) <= Threshold
             /\ Signed(tx) <=> Len(tx.signatures) = Threshold
             /\ BySystem(tx.signatures)
    /\ BySystem(beacon.partials)
    /\ \A r \in DOMAIN beacon.history :
          Len(beacon.history[r]) = Threshold /\ BySystem(beacon.history[r])

=============================================================================
