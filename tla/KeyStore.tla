------------------------------ MODULE KeyStore ------------------------------
(***************************************************************************)
(* The key store of src/src/utils/keymanagement.ts behind the MCP tools    *)
(* store-key, retrieve-key and list-stored-keys: one JSON file per key, a  *)
(* node-cache in front of the files, and tool calls that interleave at     *)
(* every await.  fs.writeFile first truncates the file and then writes it, *)
(* so a reader, another writer or the end of the process can come between. *)
(*                                                                         *)
(* What is stored is abstract: sealing and metadata are part of it.  Of    *)
(* its length the model keeps what two writers of one file can do to each  *)
(* other: writing a shorter text over a longer one leaves the longer one's *)
(* tail, and JSON.parse throws on the result, as it does on an empty file. *)
(* A call that throws before its first effect is a stuttering step; so is  *)
(* one refused because KEY_ENCRYPTION_SECRET is not set.                   *)
(***************************************************************************)
EXTENDS Naturals, FiniteSets, TLAPS

CONSTANTS
    KeyId,
    Caller,         \* tool calls that can be in progress at once
    Data,           \* what callers store
    Long,           \* the data whose file is longer than that of the others
    MaxStores,      \* bound: store-key calls
    MaxRestarts     \* bound: ends of the process

\* What is assumed of them.
Assumed ==
    /\ Long \subseteq Data
    /\ Data \cap {"nothing", "empty", "garbled"} = {}
    /\ MaxStores \in Nat /\ MaxRestarts \in Nat

Nothing == "nothing"
Broken == {"empty", "garbled"}
File == Data \cup Broken \cup {Nothing}

VARIABLES
    dir,        \* whether the key store directory exists
    file,       \* the file of each key
    cache,      \* the node-cache entry of each key
    call,       \* each tool call: where it stands, and its local variables
    \* what the properties remember
    stores,     \* how many stores were called
    restarts,   \* how often the process ended
    acked,      \* the last store of each key that answered success
    raced,      \* keys two stores overlapped on, or a restart cut a store of
    written     \* the contents each key's file has held whole

disk == <<dir, file>>
ghost == <<stores, restarts, acked, raced, written>>
vars == <<disk, cache, call, ghost>>

Idle == [at |-> "idle"]

\* alone: whether the store has had its key to itself.
\* owed: the keys acknowledged before the listing began.
Call ==
    {Idle}
    \cup [at : {"open", "write", "stored"}, key : KeyId, val : Data, alone : BOOLEAN]
    \cup [at : {"read", "loaded"}, key : KeyId, val : File]
    \cup [at : {"readdir", "list"}, files : SUBSET KeyId, keys : SUBSET KeyId,
          owed : SUBSET KeyId]

Init ==
    /\ dir = FALSE
    /\ file = [k \in KeyId |-> Nothing]
    /\ cache = [k \in KeyId |-> Nothing]
    /\ call = [c \in Caller |-> Idle]
    /\ stores = 0
    /\ restarts = 0
    /\ acked = [k \in KeyId |-> Nothing]
    /\ raced = {}
    /\ written = [k \in KeyId |-> {}]

Storing(c, k) == call[c].at \in {"open", "write", "stored"} /\ call[c].key = k
InStore(k) == \E c \in Caller : Storing(c, k)

Continue(c, local) == call' = [call EXCEPT ![c] = local]
Return(c) == Continue(c, Idle)

-----------------------------------------------------------------------------
(* The constructor does not wait for initKeyStore: calls can come first.   *)

InitKeyStore ==
    /\ ~dir
    /\ dir' = TRUE
    /\ UNCHANGED <<file, cache, call, ghost>>

-----------------------------------------------------------------------------
(* storeKey.                                                               *)

\* Up to the first await: the key data is sealed.
StoreKey(c, k, d) ==
    /\ call[c] = Idle
    /\ stores < MaxStores
    /\ call' = [o \in Caller |->
         IF o = c THEN [at |-> "open", key |-> k, val |-> d, alone |-> ~InStore(k)]
         ELSE IF Storing(o, k) THEN [call[o] EXCEPT !.alone = FALSE] ELSE call[o]]
    /\ stores' = stores + 1
    /\ UNCHANGED <<disk, cache, restarts, acked, raced, written>>

\* Faulty variants: the key is cached before it is written; the write is not
\* awaited.
OpenFileCaching(c) ==
    /\ call[c].at = "open"
    /\ file' = IF dir THEN [file EXCEPT ![call[c].key] = "empty"] ELSE file
    /\ cache' = [cache EXCEPT ![call[c].key] = call[c].val]
    /\ Continue(c, IF dir THEN [call[c] EXCEPT !.at = "write"] ELSE Idle)
    /\ UNCHANGED <<dir, ghost>>

OpenFileUnawaited(c) ==
    /\ call[c].at = "open"
    /\ file' = IF dir THEN [file EXCEPT ![call[c].key] = "empty"] ELSE file
    /\ Continue(c, IF dir THEN [call[c] EXCEPT !.at = "stored"] ELSE Idle)
    /\ UNCHANGED <<dir, cache, ghost>>

\* writeFile opens the file, which truncates it; without the directory the call
\* throws.
OpenFile(c) ==
    /\ call[c].at = "open"
    /\ file' = IF dir THEN [file EXCEPT ![call[c].key] = "empty"] ELSE file
    /\ Continue(c, IF dir THEN [call[c] EXCEPT !.at = "write"] ELSE Idle)
    /\ UNCHANGED <<dir, cache, ghost>>

\* What a file holds after d was written over it from the start.
Overwrite(f, d) ==
    IF (f = "garbled" \/ f \in Long) /\ d \notin Long THEN "garbled" ELSE d

WriteFile(c) ==
    /\ call[c].at = "write"
    /\ LET k == call[c].key
           now == Overwrite(file[k], call[c].val)
       IN  /\ file' = [file EXCEPT ![k] = now]
           /\ written' = [written EXCEPT ![k] = @ \cup ({now} \cap Data)]
    /\ Continue(c, [call[c] EXCEPT !.at = "stored"])
    /\ UNCHANGED <<dir, cache, stores, restarts, acked, raced>>

\* The rest of storeKey: cache the key and answer success.
Acknowledge(c) ==
    /\ call[c].at = "stored"
    /\ LET k == call[c].key
       IN  /\ cache' = [cache EXCEPT ![k] = call[c].val]
           /\ acked' = [acked EXCEPT ![k] = call[c].val]
           /\ raced' = IF call[c].alone THEN raced \ {k} ELSE raced \cup {k}
    /\ Return(c)
    /\ UNCHANGED <<disk, stores, restarts, written>>

-----------------------------------------------------------------------------
(* retrieveKey.  An entry found in the cache is handed out before the first *)
(* await, which changes nothing; the other calls go to the file.            *)

RetrieveKey(c, k) ==
    /\ call[c] = Idle
    /\ cache[k] = Nothing
    /\ Continue(c, [at |-> "read", key |-> k, val |-> Nothing])
    /\ UNCHANGED <<disk, cache, ghost>>

\* readFile, which rejects when there is no file.
ReadFile(c) ==
    /\ call[c].at = "read"
    /\ LET f == file[call[c].key]
       IN  Continue(c, IF f = Nothing THEN Idle
                       ELSE [call[c] EXCEPT !.at = "loaded", !.val = f])
    /\ UNCHANGED <<disk, cache, ghost>>

\* Faulty variant: whatever was read is cached.
FinishRetrieveAnything(c) ==
    /\ call[c].at = "loaded"
    /\ cache' = [cache EXCEPT ![call[c].key] = call[c].val]
    /\ Return(c)
    /\ UNCHANGED <<disk, ghost>>

\* The rest of retrieveKey works on what was read, however old it is by now; a
\* broken file throws before it is cached.
FinishRetrieve(c) ==
    /\ call[c].at = "loaded"
    /\ cache' = IF call[c].val \in Broken THEN cache
                ELSE [cache EXCEPT ![call[c].key] = call[c].val]
    /\ Return(c)
    /\ UNCHANGED <<disk, ghost>>

\* Faulty variant: entries are kept for good.
ExpireNever(k) == cache[k] = Nothing /\ UNCHANGED vars

\* node-cache drops an entry ten minutes after it was set.
Expire(k) ==
    /\ cache[k] # Nothing
    /\ cache' = [cache EXCEPT ![k] = Nothing]
    /\ UNCHANGED <<disk, call, ghost>>

-----------------------------------------------------------------------------
(* listKeys: the names in the directory, then one file after the other.    *)

ListKeys(c) ==
    /\ call[c] = Idle
    /\ Continue(c, [at |-> "readdir", files |-> {}, keys |-> {},
                    owed |-> {k \in KeyId : acked[k] # Nothing}])
    /\ UNCHANGED <<disk, cache, ghost>>

ReadDir(c) ==
    /\ call[c].at = "readdir"
    /\ Continue(c, IF ~dir THEN Idle
                   ELSE [call[c] EXCEPT !.at = "list",
                                        !.files = {k \in KeyId : file[k] # Nothing}])
    /\ UNCHANGED <<disk, cache, ghost>>

\* One broken file makes the whole call throw.
ListFile(c) ==
    /\ call[c].at = "list"
    /\ \E k \in call[c].files :
          Continue(c, IF file[k] \in Broken THEN Idle
                      ELSE [call[c] EXCEPT !.files = @ \ {k}, !.keys = @ \cup {k}])
    /\ UNCHANGED <<disk, cache, ghost>>

FinishList(c) ==
    /\ call[c].at = "list"
    /\ call[c].files = {}
    /\ Return(c)
    /\ UNCHANGED <<disk, cache, ghost>>

-----------------------------------------------------------------------------
(* The end of the process, by SIGTERM (which flushes the cache and exits   *)
(* without waiting for the calls in progress) or otherwise, and the next   *)
(* start.                                                                  *)

Restart ==
    /\ restarts < MaxRestarts
    /\ restarts' = restarts + 1
    /\ cache' = [k \in KeyId |-> Nothing]
    /\ call' = [c \in Caller |-> Idle]
    /\ raced' = raced \cup {k \in KeyId : InStore(k)}
    /\ UNCHANGED <<disk, stores, acked, written>>

-----------------------------------------------------------------------------

CallStep(c) ==
    \/ OpenFile(c)
    \/ WriteFile(c)
    \/ Acknowledge(c)
    \/ ReadFile(c)
    \/ FinishRetrieve(c)
    \/ ReadDir(c)
    \/ ListFile(c)
    \/ FinishList(c)

NewCall(c) ==
    \/ \E k \in KeyId, d \in Data : StoreKey(c, k, d)
    \/ \E k \in KeyId : RetrieveKey(c, k)
    \/ ListKeys(c)

Next ==
    \/ InitKeyStore
    \/ \E c \in Caller : CallStep(c) \/ NewCall(c)
    \/ \E k \in KeyId : Expire(k)
    \/ Restart

Spec == Init /\ [][Next]_vars

\* The event loop resumes every call whose file operation is done, and cache
\* entries reach the end of their ten minutes.
Fairness ==
    /\ \A c \in Caller : WF_vars(CallStep(c))
    /\ \A k \in KeyId : WF_vars(Expire(k))

FairSpec == Spec /\ Fairness

-----------------------------------------------------------------------------
(* Properties.                                                             *)

TypeOK ==
    /\ dir \in BOOLEAN
    /\ file \in [KeyId -> File]
    /\ cache \in [KeyId -> Data \cup {Nothing}]
    /\ call \in [Caller -> Call]
    /\ stores \in 0 .. MaxStores
    /\ restarts \in 0 .. MaxRestarts
    /\ acked \in [KeyId -> Data \cup {Nothing}]
    /\ raced \in SUBSET KeyId
    /\ written \in [KeyId -> SUBSET Data]

\* A key that a retrieve hands out, from the cache or from what it has read,
\* was in that key's file, whole, at some time: never the remains of a race or
\* of a restart.  Two stores that overlapped can leave a cached key that no file
\* has ever held.
HandedOutWasOnDisk ==
    /\ \A k \in KeyId \ raced : cache[k] # Nothing => cache[k] \in written[k]
    /\ \A c \in Caller :
          call[c].at = "loaded" /\ call[c].val \notin Broken =>
              call[c].val \in written[call[c].key]

\* A key that was acknowledged is in its file, through restarts as well, until
\* the next store of it begins.
DurableOnceAcknowledged ==
    \A k \in KeyId \ raced :
        ~InStore(k) /\ acked[k] # Nothing => file[k] = acked[k]

\* A listing that does not throw has every key acknowledged before it began,
\* whatever is being stored meanwhile.
ListingComplete ==
    \A c \in Caller : call[c].at = "list" /\ call[c].files = {} =>
        call[c].owed \subseteq call[c].keys

\* Once stores stop, whatever stale entry a late retrieve has put back, the
\* cache ends up with what the files hold, or nothing.
CacheConverges == <>[](\A k \in KeyId : cache[k] \in {Nothing, file[k]})

\* "round-trips a stored key when the secret is set": with no store under way
\* a cached answer is what was last stored.
RoundTrip ==
    \A k \in KeyId \ raced :
        ~InStore(k) /\ acked[k] # Nothing /\ cache[k] # Nothing =>
            cache[k] = acked[k]

-----------------------------------------------------------------------------
(* The proofs, for any keys, key data and number of calls.                 *)
(*                                                                         *)
(* A store that has its key to itself finds the file as it left it at its  *)
(* last await: truncated, then whole.  A store that has not marks its key  *)
(* as raced when it answers, and so does a restart that cuts one short; a  *)
(* key that is not raced therefore has in its file what was acknowledged   *)
(* last.  Once a key is acknowledged its file exists for good, so every    *)
(* listing that begins later finds it.                                     *)

StoreCall == [at : {"open", "write", "stored"}, key : KeyId, val : Data, alone : BOOLEAN]
RetrieveCall == [at : {"read", "loaded"}, key : KeyId, val : File]
ListCall == [at : {"readdir", "list"}, files : SUBSET KeyId, keys : SUBSET KeyId,
             owed : SUBSET KeyId]

\* A store that was alone all the way is alone, and its file is as it left it.
Solitary ==
    \A c \in Caller : call[c].at \in {"open", "write", "stored"} /\ call[c].alone =>
        /\ \A o \in Caller : Storing(o, call[c].key) => o = c
        /\ call[c].at = "write" => file[call[c].key] = "empty"
        /\ call[c].at = "stored" => file[call[c].key] = call[c].val

\* A file that was written stays, and so does the directory.
Present ==
    /\ \A c \in Caller : call[c].at \in {"write", "stored"} =>
          dir /\ file[call[c].key] # Nothing
    /\ \A k \in KeyId : acked[k] # Nothing => dir /\ file[k] # Nothing

\* What is whole was written; what was read was there.
Whole ==
    /\ \A k \in KeyId : file[k] \in Data => file[k] \in written[k]
    /\ \A c \in Caller : call[c].at = "stored" /\ call[c].alone =>
          call[c].val \in written[call[c].key]
    /\ HandedOutWasOnDisk

\* A listing has found, or will find, what it owes.
Listed ==
    /\ \A c \in Caller : call[c].at = "readdir" =>
          \A k \in call[c].owed : file[k] # Nothing
    /\ \A c \in Caller : call[c].at = "list" =>
          call[c].owed \subseteq call[c].keys \cup call[c].files

IInv ==
    /\ TypeOK
    /\ Solitary
    /\ Present
    /\ Whole
    /\ Listed
    /\ DurableOnceAcknowledged

-----------------------------------------------------------------------------

Writing == {"open", "write", "stored"}

LEMMA NoData ==
    ASSUME Assumed
    PROVE  Nothing \notin Data /\ "empty" \notin Data /\ "garbled" \notin Data
BY DEF Assumed, Nothing

\* Where a call stands says which record it is.
LEMMA Shapes ==
    ASSUME TypeOK, NEW c \in Caller
    PROVE  /\ call[c] \in Call
           /\ call[c].at \in Writing => call[c] \in StoreCall
           /\ call[c].at \in {"read", "loaded"} => call[c] \in RetrieveCall
           /\ call[c].at \in {"readdir", "list"} => call[c] \in ListCall
<1>1. call[c] \in Call
    BY DEF TypeOK
<1>2. call[c] = Idle \/ call[c] \in StoreCall \/ call[c] \in RetrieveCall
      \/ call[c] \in ListCall
    BY <1>1 DEF Call, StoreCall, RetrieveCall, ListCall
<1>3. CASE call[c] = Idle
    BY <1>1, <1>3 DEF Idle, Writing
<1>4. CASE call[c] \in StoreCall
    BY <1>1, <1>4 DEF StoreCall, Writing
<1>5. CASE call[c] \in RetrieveCall
    BY <1>1, <1>5 DEF RetrieveCall, Writing
<1>6. CASE call[c] \in ListCall
    BY <1>1, <1>6 DEF ListCall, Writing
<1> QED BY <1>2, <1>3, <1>4, <1>5, <1>6

LEMMA Calls ==
    /\ Idle \in Call
    /\ StoreCall \subseteq Call
    /\ RetrieveCall \subseteq Call
    /\ ListCall \subseteq Call
BY DEF Call, StoreCall, RetrieveCall, ListCall

LEMMA InitHolds == ASSUME Assumed PROVE Init => IInv
<1> SUFFICES ASSUME Init PROVE IInv
    OBVIOUS
<1>1. TypeOK
  <2>1. Nothing \in File
    BY DEF File
  <2>2. 0 \in 0 .. MaxStores /\ 0 \in 0 .. MaxRestarts
    BY DEF Assumed
  <2> QED BY <2>1, <2>2, Calls DEF Init, TypeOK
<1> USE DEF Init, Idle
<1>2. Solitary /\ Present /\ Listed
    BY DEF Solitary, Present, Listed
<1>3. Whole
    BY NoData DEF Whole, HandedOutWasOnDisk
<1>4. DurableOnceAcknowledged
    BY DEF DurableOnceAcknowledged
<1> QED BY <1>1, <1>2, <1>3, <1>4 DEF IInv

\* A step of a call that stores nothing, and leaves the disk and the cache
\* alone.
LEMMA ReaderStep ==
    ASSUME IInv, NEW c \in Caller, NEW local \in Call,
           call[c].at \notin Writing, local.at \notin Writing,
           Continue(c, local), UNCHANGED <<disk, cache, ghost>>,
           local.at = "loaded" /\ local.val \notin Broken =>
               local.val \in written[local.key],
           local.at = "readdir" => \A k \in local.owed : file[k] # Nothing,
           local.at = "list" => local.owed \subseteq local.keys \cup local.files
    PROVE  IInv'
<1> USE DEF disk, ghost, Continue
<1>1. /\ call \in [Caller -> Call]
      /\ call' = [call EXCEPT ![c] = local]
      /\ call'[c] = local
      /\ \A o \in Caller : o # c => call'[o] = call[o]
    BY DEF IInv, TypeOK
<1>2. TypeOK'
    BY <1>1 DEF IInv, TypeOK
<1>3. \A o \in Caller, k \in KeyId : Storing(o, k)' <=> Storing(o, k)
    BY <1>1 DEF Storing, Writing
<1>4. \A o \in Caller : call'[o].at \in Writing => call'[o] = call[o]
    BY <1>1
<1>5. Solitary'
    BY <1>1, <1>3, <1>4 DEF IInv, Solitary, Writing, Storing
<1>6. Present'
    BY <1>4 DEF IInv, Present, Writing
<1>7. Whole'
    BY <1>1, <1>4 DEF IInv, Whole, HandedOutWasOnDisk, Writing
<1>8. Listed'
    BY <1>1 DEF IInv, Listed
<1>9. DurableOnceAcknowledged'
    BY <1>3 DEF IInv, DurableOnceAcknowledged, InStore
<1> QED BY <1>2, <1>5, <1>6, <1>7, <1>8, <1>9 DEF IInv

\* The end of a call that changed nothing but the cache.
LEMMA FinishRetrieveStep ==
    ASSUME IInv, NEW c \in Caller, FinishRetrieve(c)
    PROVE  IInv'
<1> USE DEF disk, ghost, Return, Continue
<1> DEFINE k == call[c].key
<1>1. /\ call \in [Caller -> Call]
      /\ call' = [call EXCEPT ![c] = Idle]
      /\ \A o \in Caller : call'[o] = IF o = c THEN Idle ELSE call[o]
      /\ call[c].at = "loaded"
    BY DEF IInv, TypeOK, FinishRetrieve
<1>2. k \in KeyId /\ call[c].val \in File
    BY <1>1, Shapes DEF IInv, RetrieveCall
<1>3. \/ cache' = cache
      \/ /\ call[c].val \in written[k]
         /\ cache' = [cache EXCEPT ![k] = call[c].val]
    BY <1>1 DEF FinishRetrieve, IInv, Whole, HandedOutWasOnDisk
<1>4. UNCHANGED <<dir, file, stores, restarts, acked, raced, written>>
    BY DEF FinishRetrieve
<1>5. written \in [KeyId -> SUBSET Data] /\ cache \in [KeyId -> Data \cup {Nothing}]
    BY DEF IInv, TypeOK
<1> HIDE DEF k
<1>6. TypeOK'
  <2>1. call' \in [Caller -> Call]
    BY <1>1, Calls
  <2>2. cache' \in [KeyId -> Data \cup {Nothing}]
    BY <1>2, <1>3, <1>5
  <2> QED BY <2>1, <2>2, <1>4 DEF IInv, TypeOK
<1>7. \A o \in Caller : call'[o].at \in Writing \cup {"loaded", "readdir", "list"} =>
          call'[o] = call[o]
    BY <1>1 DEF Idle, Writing
<1>8. \A o \in Caller, l \in KeyId : Storing(o, l)' <=> Storing(o, l)
    BY <1>1 DEF Storing, Idle
<1>9. Solitary'
    BY <1>4, <1>7, <1>8, Shapes DEF IInv, Solitary, Writing, StoreCall
<1>10. Present'
    BY <1>4, <1>7 DEF IInv, Present, Writing
<1>11. Whole'
  <2>1. \A l \in KeyId \ raced : cache'[l] # Nothing => cache'[l] \in written[l]
    BY <1>2, <1>3, <1>5 DEF IInv, Whole, HandedOutWasOnDisk
  <2> QED BY <2>1, <1>4, <1>7 DEF IInv, Whole, HandedOutWasOnDisk, Writing
<1>12. Listed'
    BY <1>4, <1>7 DEF IInv, Listed
<1>13. DurableOnceAcknowledged'
    BY <1>4, <1>8 DEF IInv, DurableOnceAcknowledged, InStore
<1> QED BY <1>6, <1>9, <1>10, <1>11, <1>12, <1>13 DEF IInv

LEMMA ExpireStep ==
    ASSUME IInv, NEW k \in KeyId, Expire(k)
    PROVE  IInv'
<1> USE DEF disk, ghost, Expire
<1>1. TypeOK'
    BY DEF IInv, TypeOK
<1>2. Solitary'
    BY DEF IInv, Solitary, Storing
<1>3. Present' /\ Listed'
    BY DEF IInv, Present, Listed
<1>4. Whole'
    BY DEF IInv, TypeOK, Whole, HandedOutWasOnDisk
<1>5. DurableOnceAcknowledged'
    BY DEF IInv, DurableOnceAcknowledged, InStore, Storing
<1> QED BY <1>1, <1>2, <1>3, <1>4, <1>5 DEF IInv

LEMMA InitKeyStoreStep ==
    ASSUME IInv, InitKeyStore
    PROVE  IInv'
<1> USE DEF ghost, InitKeyStore
<1>1. TypeOK'
    BY DEF IInv, TypeOK
<1>2. Solitary'
    BY DEF IInv, Solitary, Storing
<1>3. Present' /\ Listed'
    BY DEF IInv, Present, Listed
<1>4. Whole'
    BY DEF IInv, Whole, HandedOutWasOnDisk
<1>5. DurableOnceAcknowledged'
    BY DEF IInv, DurableOnceAcknowledged, InStore, Storing
<1> QED BY <1>1, <1>2, <1>3, <1>4, <1>5 DEF IInv

\* A restart keeps the disk, and marks every key whose store it cut short.
LEMMA RestartStep ==
    ASSUME Assumed, IInv, Restart
    PROVE  IInv'
<1> USE DEF disk, Restart
<1>1. \A c \in Caller : call'[c] = Idle
    OBVIOUS
<1>2. TypeOK'
  <2>1. call' \in [Caller -> Call] /\ cache' \in [KeyId -> Data \cup {Nothing}]
    BY Calls
  <2>2. restarts' \in 0 .. MaxRestarts
    BY DEF Assumed, IInv, TypeOK
  <2> QED BY <2>1, <2>2 DEF IInv, TypeOK
<1>3. Solitary'
    BY <1>1 DEF Solitary, Idle
<1>4. Present'
    BY <1>1 DEF IInv, Present, Idle
<1>5. Whole'
    BY <1>1 DEF IInv, Whole, HandedOutWasOnDisk, Idle
<1>6. Listed'
    BY <1>1 DEF Listed, Idle
<1>7. DurableOnceAcknowledged'
    BY DEF IInv, DurableOnceAcknowledged
<1> QED BY <1>2, <1>3, <1>4, <1>5, <1>6, <1>7 DEF IInv

-----------------------------------------------------------------------------
(* The steps of a store.                                                   *)

\* A store that begins while others of its key are under way leaves none of
\* them alone.
LEMMA StoreKeyStep ==
    ASSUME Assumed, IInv, NEW c \in Caller, NEW k \in KeyId, NEW d \in Data, StoreKey(c, k, d)
    PROVE  IInv'
<1> USE DEF disk
<1> DEFINE begun == [at |-> "open", key |-> k, val |-> d, alone |-> ~InStore(k)]
<1>1. begun \in StoreCall /\ begun.at = "open" /\ begun.key = k
      /\ begun.alone = ~InStore(k)
    BY DEF StoreCall
<1>2. /\ call'[c] = begun
      /\ call[c] = Idle
      /\ \A o \in Caller : o # c =>
            call'[o] = IF Storing(o, k) THEN [call[o] EXCEPT !.alone = FALSE] ELSE call[o]
      /\ call' = [o \in Caller |-> call'[o]]
    BY DEF StoreKey
<1> HIDE DEF begun
<1>3. UNCHANGED <<dir, file, cache, restarts, acked, raced, written>>
    BY DEF StoreKey
<1>4. \A o \in Caller : o # c =>
        /\ call'[o].at = call[o].at
        /\ call[o].at \in Writing =>
              /\ call'[o] \in StoreCall
              /\ call'[o].key = call[o].key
              /\ call'[o].val = call[o].val
              /\ call'[o].alone <=> call[o].alone /\ call[o].key # k
        /\ call[o].at \notin Writing => call'[o] = call[o]
  <2> SUFFICES ASSUME NEW o \in Caller, o # c
               PROVE  /\ call'[o].at = call[o].at
                      /\ call[o].at \in Writing =>
                            /\ call'[o] \in StoreCall
                            /\ call'[o].key = call[o].key
                            /\ call'[o].val = call[o].val
                            /\ call'[o].alone <=> call[o].alone /\ call[o].key # k
                      /\ call[o].at \notin Writing => call'[o] = call[o]
    OBVIOUS
  <2>1. CASE Storing(o, k)
    BY <1>2, <2>1, Shapes DEF Storing, Writing, StoreCall, IInv
  <2>2. CASE ~Storing(o, k)
    BY <1>2, <2>2, Shapes DEF Storing, Writing, StoreCall, IInv
  <2> QED BY <2>1, <2>2
<1>5. \A o \in Caller, l \in KeyId :
        Storing(o, l)' <=> Storing(o, l) \/ (o = c /\ l = k)
    BY <1>1, <1>2, <1>4 DEF Storing, Writing, Idle
<1>6. TypeOK'
  <2>1. \A o \in Caller : call'[o] \in Call
    BY <1>1, <1>2, <1>4, Calls, Shapes DEF IInv
  <2>2. stores' \in 0 .. MaxStores
    BY DEF Assumed, StoreKey, IInv, TypeOK
  <2> QED BY <1>2, <1>3, <2>1, <2>2 DEF IInv, TypeOK
<1>7. Solitary'
  <2> SUFFICES ASSUME NEW o \in Caller, call'[o].at \in Writing, call'[o].alone
               PROVE  /\ \A p \in Caller :
                            call'[p].at \in Writing /\ call'[p].key = call'[o].key => p = o
                      /\ call'[o].at = "write" => file[call'[o].key] = "empty"
                      /\ call'[o].at = "stored" => file[call'[o].key] = call'[o].val
    BY <1>3 DEF Solitary, Writing, Storing
  <2>1. CASE o = c
    BY <1>1, <1>2, <1>4, <2>1 DEF InStore, Storing, Writing
  <2>2. CASE o # c
    <3>1. call[o].at \in Writing /\ call[o].alone /\ call[o].key # k
      BY <1>4, <2>2
    <3> QED BY <1>1, <1>2, <1>4, <2>2, <3>1 DEF IInv, Solitary, Storing, Writing
  <2> QED BY <2>1, <2>2
<1>8. Present'
    BY <1>1, <1>2, <1>3, <1>4 DEF IInv, Present, Writing
<1>9. Whole'
  <2>1. \A o \in Caller : call'[o].at = "stored" /\ call'[o].alone =>
            call'[o].val \in written[call'[o].key]
    BY <1>1, <1>2, <1>4 DEF IInv, Whole, Writing
  <2>2. HandedOutWasOnDisk'
    BY <1>1, <1>2, <1>3, <1>4 DEF IInv, Whole, HandedOutWasOnDisk, Writing
  <2> QED BY <1>3, <2>1, <2>2 DEF IInv, Whole
<1>10. Listed'
    BY <1>1, <1>2, <1>3, <1>4 DEF IInv, Listed, Writing
<1>11. DurableOnceAcknowledged'
    BY <1>3, <1>5 DEF IInv, DurableOnceAcknowledged, InStore
<1> QED BY <1>6, <1>7, <1>8, <1>9, <1>10, <1>11 DEF IInv

\* A store goes on to its next stage, or returns.
LEMMA Advance ==
    ASSUME IInv, NEW c \in Caller, call[c].at \in Writing,
           NEW next \in {"write", "stored", "idle"},
           Continue(c, IF next = "idle" THEN Idle ELSE [call[c] EXCEPT !.at = next])
    PROVE  /\ call[c] \in StoreCall
           /\ call' \in [Caller -> Call]
           /\ call'[c].at = next
           /\ next # "idle" => /\ call'[c].key = call[c].key
                               /\ call'[c].val = call[c].val
                               /\ call'[c].alone = call[c].alone
           /\ \A o \in Caller : o # c => call'[o] = call[o]
           /\ \A o \in Caller, l \in KeyId :
                 Storing(o, l)' <=> Storing(o, l) /\ (o = c => next # "idle")
<1> DEFINE local == IF next = "idle" THEN Idle ELSE [call[c] EXCEPT !.at = next]
<1>1. call[c] \in StoreCall /\ call \in [Caller -> Call]
    BY Shapes DEF IInv, TypeOK
<1>2. /\ local \in Call
      /\ local.at = next
      /\ next # "idle" => /\ local.key = call[c].key
                          /\ local.val = call[c].val
                          /\ local.alone = call[c].alone
  <2>1. CASE next = "idle"
    BY <2>1, Calls DEF Idle
  <2>2. CASE next # "idle"
    <3>1. local \in StoreCall
      BY <1>1, <2>2 DEF StoreCall
    <3> QED BY <1>1, <2>2, <3>1, Calls DEF StoreCall
  <2> QED BY <2>1, <2>2
<1>3. call' = [call EXCEPT ![c] = local]
    BY DEF Continue
<1> HIDE DEF local
<1>4. /\ call' \in [Caller -> Call]
      /\ call'[c] = local
      /\ \A o \in Caller : o # c => call'[o] = call[o]
    BY <1>1, <1>2, <1>3
<1> QED BY <1>1, <1>2, <1>4 DEF Storing, Writing

LEMMA OpenFileStep ==
    ASSUME Assumed, IInv, NEW c \in Caller, OpenFile(c)
    PROVE  IInv'
<1> USE DEF ghost
<1> DEFINE k == call[c].key
           next == IF dir THEN "write" ELSE "idle"
<1>1. call[c].at \in Writing /\ call[c].at = "open" /\ next \in {"write", "stored", "idle"}
    BY DEF OpenFile, Writing
<1>2. Continue(c, IF next = "idle" THEN Idle ELSE [call[c] EXCEPT !.at = next])
    BY DEF OpenFile
<1>3. \/ dir /\ next = "write" /\ file' = [file EXCEPT ![k] = "empty"]
      \/ ~dir /\ next = "idle" /\ file' = file
    BY DEF OpenFile
<1>4. UNCHANGED <<dir, cache, stores, restarts, acked, raced, written>>
    BY DEF OpenFile
<1> HIDE DEF next
<1>5. /\ call[c] \in StoreCall
      /\ call' \in [Caller -> Call]
      /\ call'[c].at = next
      /\ next # "idle" => /\ call'[c].key = call[c].key
                          /\ call'[c].val = call[c].val
                          /\ call'[c].alone = call[c].alone
      /\ \A o \in Caller : o # c => call'[o] = call[o]
      /\ \A o \in Caller, l \in KeyId :
            Storing(o, l)' <=> Storing(o, l) /\ (o = c => next # "idle")
    BY <1>1, <1>2, Advance
<1>6. k \in KeyId /\ file \in [KeyId -> File]
    BY <1>5 DEF StoreCall, IInv, TypeOK
<1> HIDE DEF k
<1>7. \A l \in KeyId : file'[l] = file[l] \/ (l = k /\ dir /\ file'[l] = "empty")
    BY <1>3, <1>6
<1>8. TypeOK'
  <2>1. file' \in [KeyId -> File]
    BY <1>3, <1>6 DEF File, Broken
  <2> QED BY <1>4, <1>5, <2>1 DEF IInv, TypeOK
<1>9. Solitary'
  <2> SUFFICES ASSUME NEW o \in Caller, call'[o].at \in Writing, call'[o].alone
               PROVE  /\ \A p \in Caller :
                            call'[p].at \in Writing /\ call'[p].key = call'[o].key => p = o
                      /\ call'[o].at = "write" => file'[call'[o].key] = "empty"
                      /\ call'[o].at = "stored" => file'[call'[o].key] = call'[o].val
    BY DEF Solitary, Writing, Storing
  <2>1. CASE o = c
    <3>1. next = "write" /\ file' = [file EXCEPT ![k] = "empty"]
      BY <1>3, <1>5, <2>1 DEF Writing
    <3>2. call'[c].at = "write" /\ call'[c].key = k /\ call[c].alone
      BY <1>5, <2>1, <3>1 DEF k
    <3>3. \A p \in Caller : Storing(p, k) => p = c
      BY <1>1, <3>2 DEF IInv, Solitary, Writing, k
    <3>4. \A p \in Caller : p # c /\ call'[p].at \in Writing => call'[p].key # k
      BY <1>5, <3>3 DEF Storing, Writing
    <3> QED BY <1>6, <2>1, <3>1, <3>2, <3>4
  <2>2. CASE o # c
    <3>1. call[o] \in StoreCall /\ call'[o] = call[o]
      BY <1>5, <2>2, Shapes DEF IInv
    <3>2. \A p \in Caller : Storing(p, call[o].key) => p = o
      BY <3>1 DEF IInv, Solitary, Writing
    <3>3. call[o].key # k
      BY <1>1, <2>2, <3>2 DEF Storing, Writing, k
    <3>4. \A p \in Caller : call'[p].at \in Writing =>
              call[p].at \in Writing /\ call'[p].key = call[p].key
      BY <1>1, <1>3, <1>5 DEF Writing
    <3> QED BY <1>7, <3>1, <3>2, <3>3, <3>4 DEF IInv, Solitary, Writing, Storing, StoreCall
  <2> QED BY <2>1, <2>2
<1>10. \A l \in KeyId : file[l] # Nothing => file'[l] # Nothing
    BY <1>7 DEF Nothing
<1>11. Present'
  <2>1. ASSUME NEW o \in Caller, call'[o].at \in {"write", "stored"}
        PROVE  dir' /\ file'[call'[o].key] # Nothing
    <3>1. CASE o = c
      BY <1>3, <1>4, <1>5, <1>6, <2>1, <3>1 DEF Nothing, k
    <3>2. CASE o # c
      <4>1. call'[o] = call[o] /\ call[o].key \in KeyId
        BY <1>5, <2>1, <3>2, Shapes DEF IInv, Writing, StoreCall
      <4> QED BY <1>4, <1>10, <2>1, <4>1 DEF IInv, Present
    <3> QED BY <3>1, <3>2
  <2> QED BY <1>4, <1>10, <2>1 DEF IInv, Present
<1>12. Whole'
  <2>1. \A l \in KeyId : file'[l] \in Data => file'[l] \in written[l]
    BY <1>7, NoData DEF IInv, Whole
  <2>2. \A o \in Caller : call'[o].at \in {"stored", "loaded"} => call'[o] = call[o]
    BY <1>3, <1>5
  <2> QED BY <1>4, <2>1, <2>2 DEF IInv, Whole, HandedOutWasOnDisk
<1>13. Listed'
  <2>1. \A o \in Caller : call'[o].at \in {"readdir", "list"} =>
            call'[o] = call[o] /\ call[o] \in ListCall
    BY <1>3, <1>5, Shapes DEF IInv
  <2> QED BY <1>10, <2>1 DEF IInv, Listed, ListCall
<1>14. DurableOnceAcknowledged'
  <2> SUFFICES ASSUME NEW l \in KeyId \ raced, ~InStore(l)', acked[l] # Nothing
               PROVE  file'[l] = acked[l]
    BY <1>4 DEF DurableOnceAcknowledged
  <2>1. dir /\ next = "write"
    BY <1>3 DEF IInv, Present
  <2>2. ~InStore(l)
    BY <1>5, <2>1 DEF InStore
  <2>3. l # k
    BY <1>1, <2>2 DEF InStore, Storing, k, Writing
  <2> QED BY <1>7, <2>2, <2>3 DEF IInv, DurableOnceAcknowledged
<1> QED BY <1>8, <1>9, <1>11, <1>12, <1>13, <1>14 DEF IInv

\* Over a truncated file the new text is whole.
LEMMA Overwritten ==
    ASSUME Assumed, NEW f \in File, NEW d \in Data
    PROVE  /\ Overwrite(f, d) \in {d, "garbled"}
           /\ f = "empty" => Overwrite(f, d) = d
BY NoData DEF Assumed, Overwrite

LEMMA WriteFileStep ==
    ASSUME Assumed, IInv, NEW c \in Caller, WriteFile(c)
    PROVE  IInv'
<1> DEFINE k == call[c].key
           d == call[c].val
           now == Overwrite(file[k], d)
<1>1. call[c].at \in Writing /\ call[c].at = "write"
    BY DEF WriteFile, Writing
<1>2. Continue(c, [call[c] EXCEPT !.at = "stored"])
    BY DEF WriteFile
<1>3. /\ file' = [file EXCEPT ![k] = now]
      /\ written' = [written EXCEPT ![k] = @ \cup ({now} \cap Data)]
      /\ UNCHANGED <<dir, cache, stores, restarts, acked, raced>>
    BY DEF WriteFile
<1>4. /\ call[c] \in StoreCall
      /\ call' \in [Caller -> Call]
      /\ call'[c].at = "stored"
      /\ call'[c].key = k
      /\ call'[c].val = d
      /\ call'[c].alone = call[c].alone
      /\ \A o \in Caller : o # c => call'[o] = call[o]
      /\ \A o \in Caller, l \in KeyId : Storing(o, l)' <=> Storing(o, l)
  <2> DEFINE next == "stored"
  <2>1. next \in {"write", "stored", "idle"} /\ next # "idle"
    OBVIOUS
  <2>2. Continue(c, IF next = "idle" THEN Idle ELSE [call[c] EXCEPT !.at = next])
    BY <1>2
  <2> HIDE DEF next
  <2>3. /\ call[c] \in StoreCall
        /\ call' \in [Caller -> Call]
        /\ call'[c].at = next
        /\ call'[c].key = call[c].key
        /\ call'[c].val = call[c].val
        /\ call'[c].alone = call[c].alone
        /\ \A o \in Caller : o # c => call'[o] = call[o]
        /\ \A o \in Caller, l \in KeyId : Storing(o, l)' <=> Storing(o, l)
    BY <1>1, <2>1, <2>2, Advance
  <2> QED BY <2>3 DEF next
<1>5. k \in KeyId /\ d \in Data /\ file \in [KeyId -> File]
      /\ written \in [KeyId -> SUBSET Data]
    BY <1>4 DEF StoreCall, IInv, TypeOK
<1>6. now \in {d, "garbled"} /\ (file[k] = "empty" => now = d)
    BY <1>5, Overwritten
<1>7. call[c].alone => file[k] = "empty" /\ \A o \in Caller : Storing(o, k) => o = c
    BY <1>1 DEF IInv, Solitary, Writing
<1>8. Storing(c, k)
    BY <1>1 DEF Storing, Writing
<1> HIDE DEF k, d, now
<1>9. /\ file'[k] = now
      /\ \A l \in KeyId : l # k => file'[l] = file[l] /\ written'[l] = written[l]
      /\ \A l \in KeyId : written[l] \subseteq written'[l]
      /\ now \in Data => now \in written'[k]
    BY <1>3, <1>5
<1>10. \A l \in KeyId : file[l] # Nothing => file'[l] # Nothing
    BY <1>5, <1>6, <1>9, NoData DEF Nothing
<1>11. TypeOK'
  <2>1. file' \in [KeyId -> File] /\ written' \in [KeyId -> SUBSET Data]
    BY <1>3, <1>5, <1>6 DEF File, Broken
  <2> QED BY <1>3, <1>4, <2>1 DEF IInv, TypeOK
<1>12. Solitary'
  <2> SUFFICES ASSUME NEW o \in Caller, call'[o].at \in Writing, call'[o].alone
               PROVE  /\ \A p \in Caller :
                            call'[p].at \in Writing /\ call'[p].key = call'[o].key => p = o
                      /\ call'[o].at = "write" => file'[call'[o].key] = "empty"
                      /\ call'[o].at = "stored" => file'[call'[o].key] = call'[o].val
    BY DEF Solitary, Writing, Storing
  <2>1. \A p \in Caller : call'[p].at \in Writing =>
            call[p].at \in Writing /\ call'[p].key = call[p].key
    BY <1>1, <1>4 DEF k
  <2>2. CASE o = c
    <3>1. \A p \in Caller : Storing(p, k) => p = c
      BY <1>4, <1>7, <2>2
    <3>2. \A p \in Caller : call'[p].at \in Writing /\ call'[p].key = k => p = c
      BY <2>1, <3>1 DEF Storing, Writing
    <3> QED BY <1>4, <1>6, <1>7, <1>9, <2>2, <3>2
  <2>3. CASE o # c
    <3>1. call[o] \in StoreCall /\ call'[o] = call[o]
      BY <1>4, <2>3, Shapes DEF IInv
    <3>2. \A p \in Caller : Storing(p, call[o].key) => p = o
      BY <3>1 DEF IInv, Solitary, Writing
    <3>3. call[o].key # k
      BY <1>8, <2>3, <3>2
    <3> QED BY <1>9, <2>1, <3>1, <3>2, <3>3 DEF IInv, Solitary, Writing, Storing, StoreCall
  <2> QED BY <2>2, <2>3
<1>13. Present'
  <2>1. \A o \in Caller : call'[o].at \in {"write", "stored"} =>
            /\ call[o].at \in {"write", "stored"}
            /\ call'[o].key = call[o].key
            /\ call[o].key \in KeyId
    BY <1>1, <1>4, Shapes DEF IInv, Writing, StoreCall, k
  <2> QED BY <1>3, <1>10, <2>1 DEF IInv, Present
<1>14. Whole'
  <2>1. \A l \in KeyId : file'[l] \in Data => file'[l] \in written'[l]
    BY <1>9 DEF IInv, Whole
  <2>2. ASSUME NEW o \in Caller, call'[o].at = "stored", call'[o].alone
        PROVE  call'[o].val \in written'[call'[o].key]
    <3>1. CASE o = c
      BY <1>4, <1>5, <1>6, <1>7, <1>9, <2>2, <3>1
    <3>2. CASE o # c
      <4>1. call'[o] = call[o] /\ call[o].key \in KeyId
        BY <1>4, <2>2, <3>2, Shapes DEF IInv, Writing, StoreCall
      <4> QED BY <1>9, <2>2, <4>1 DEF IInv, Whole
    <3> QED BY <3>1, <3>2
  <2>3. \A l \in KeyId \ raced : cache[l] # Nothing => cache[l] \in written'[l]
    BY <1>9 DEF IInv, Whole, HandedOutWasOnDisk
  <2>4. \A o \in Caller : call'[o].at = "loaded" =>
            call'[o] = call[o] /\ call[o].key \in KeyId
    BY <1>4, Shapes DEF IInv, RetrieveCall
  <2> QED BY <1>3, <1>9, <2>1, <2>2, <2>3, <2>4 DEF IInv, Whole, HandedOutWasOnDisk
<1>15. Listed'
  <2>1. \A o \in Caller : call'[o].at \in {"readdir", "list"} =>
            call'[o] = call[o] /\ call[o] \in ListCall
    BY <1>4, Shapes DEF IInv
  <2> QED BY <1>10, <2>1 DEF IInv, Listed, ListCall
<1>16. DurableOnceAcknowledged'
  <2>1. \A l \in KeyId : InStore(l)' <=> InStore(l)
    BY <1>4 DEF InStore
  <2>2. InStore(k)
    BY <1>8 DEF InStore
  <2> QED BY <1>3, <1>9, <2>1, <2>2 DEF IInv, DurableOnceAcknowledged
<1> QED BY <1>11, <1>12, <1>13, <1>14, <1>15, <1>16 DEF IInv

LEMMA AcknowledgeStep ==
    ASSUME IInv, NEW c \in Caller, Acknowledge(c)
    PROVE  IInv'
<1> USE DEF disk
<1> DEFINE k == call[c].key
           d == call[c].val
<1>1. call[c].at \in Writing /\ call[c].at = "stored"
    BY DEF Acknowledge, Writing
<1>2. Continue(c, Idle)
    BY DEF Acknowledge, Return
<1>3. /\ cache' = [cache EXCEPT ![k] = d]
      /\ acked' = [acked EXCEPT ![k] = d]
      /\ raced' = IF call[c].alone THEN raced \ {k} ELSE raced \cup {k}
      /\ UNCHANGED <<dir, file, stores, restarts, written>>
    BY DEF Acknowledge
<1>4. /\ call[c] \in StoreCall
      /\ call' \in [Caller -> Call]
      /\ call'[c].at = "idle"
      /\ \A o \in Caller : o # c => call'[o] = call[o]
      /\ \A o \in Caller, l \in KeyId : Storing(o, l)' <=> Storing(o, l) /\ o # c
  <2> DEFINE next == "idle"
  <2>1. next \in {"write", "stored", "idle"} /\ next = "idle"
    OBVIOUS
  <2>2. Continue(c, IF next = "idle" THEN Idle ELSE [call[c] EXCEPT !.at = next])
    BY <1>2
  <2> HIDE DEF next
  <2> QED BY <1>1, <2>1, <2>2, Advance
<1>5. k \in KeyId /\ d \in Data /\ call[c].alone \in BOOLEAN
      /\ cache \in [KeyId -> Data \cup {Nothing}]
      /\ acked \in [KeyId -> Data \cup {Nothing}]
    BY <1>4 DEF StoreCall, IInv, TypeOK
<1>6. call[c].alone => file[k] = d /\ d \in written[k]
    BY <1>1 DEF IInv, Solitary, Whole, Writing
<1>7. dir /\ file[k] # Nothing
    BY <1>1 DEF IInv, Present
<1>8. \A o \in Caller : call'[o].at # "idle" => call'[o] = call[o]
    BY <1>4
<1> HIDE DEF k, d
<1>9. \A l \in KeyId \ raced' : l # k => l \notin raced
    BY <1>3
<1>10. k \notin raced' => call[c].alone
    BY <1>3, <1>5
<1>11. /\ \A l \in KeyId : l # k => cache'[l] = cache[l] /\ acked'[l] = acked[l]
       /\ cache'[k] = d /\ acked'[k] = d
    BY <1>3, <1>5
<1>12. TypeOK'
  <2>1. /\ cache' \in [KeyId -> Data \cup {Nothing}]
        /\ acked' \in [KeyId -> Data \cup {Nothing}]
        /\ raced' \in SUBSET KeyId
    BY <1>3, <1>5 DEF IInv, TypeOK
  <2> QED BY <1>3, <1>4, <2>1 DEF IInv, TypeOK
<1>13. Solitary'
  <2> SUFFICES ASSUME NEW o \in Caller, call'[o].at \in Writing, call'[o].alone
               PROVE  /\ \A p \in Caller :
                            call'[p].at \in Writing /\ call'[p].key = call'[o].key => p = o
                      /\ call'[o].at = "write" => file[call'[o].key] = "empty"
                      /\ call'[o].at = "stored" => file[call'[o].key] = call'[o].val
    BY <1>3 DEF Solitary, Writing, Storing
  <2>1. \A p \in Caller : call'[p].at \in Writing => call'[p] = call[p]
    BY <1>8 DEF Writing
  <2> QED BY <2>1 DEF IInv, Solitary, Writing, Storing
<1>14. Present'
  <2>1. \A l \in KeyId : acked'[l] # Nothing => dir /\ file[l] # Nothing
    BY <1>7, <1>11 DEF IInv, Present
  <2> QED BY <1>3, <1>8, <2>1 DEF IInv, Present
<1>15. Whole'
  <2>1. \A l \in KeyId \ raced' : cache'[l] # Nothing => cache'[l] \in written[l]
    BY <1>6, <1>9, <1>10, <1>11 DEF IInv, Whole, HandedOutWasOnDisk
  <2> QED BY <1>3, <1>8, <2>1 DEF IInv, Whole, HandedOutWasOnDisk
<1>16. Listed'
    BY <1>3, <1>8 DEF IInv, Listed
<1>17. DurableOnceAcknowledged'
  <2>1. \A l \in KeyId : l # k => (InStore(l)' <=> InStore(l))
    <3>1. \A l \in KeyId : l # k => ~Storing(c, l)
      BY DEF Storing, k
    <3> QED BY <1>4, <3>1 DEF InStore
  <2> QED BY <1>3, <1>6, <1>9, <1>10, <1>11, <2>1 DEF IInv, DurableOnceAcknowledged
<1> QED BY <1>12, <1>13, <1>14, <1>15, <1>16, <1>17 DEF IInv

-----------------------------------------------------------------------------
(* The steps that only read.                                               *)

LEMMA RetrieveStep ==
    ASSUME IInv, NEW c \in Caller,
           (\E k \in KeyId : RetrieveKey(c, k)) \/ ReadFile(c)
    PROVE  IInv'
<1>1. CASE \E k \in KeyId : RetrieveKey(c, k)
  <2>1. PICK k \in KeyId : RetrieveKey(c, k)
    BY <1>1
  <2> DEFINE local == [at |-> "read", key |-> k, val |-> Nothing]
  <2>2. local \in Call /\ local.at = "read"
    BY Calls DEF RetrieveCall, File
  <2>3. call[c].at \notin Writing /\ Continue(c, local) /\ UNCHANGED <<disk, cache, ghost>>
    BY <2>1 DEF RetrieveKey, Idle, Writing
  <2> HIDE DEF local
  <2> QED BY <2>2, <2>3, ReaderStep DEF Writing
<1>2. CASE ReadFile(c)
  <2> DEFINE f == file[call[c].key]
             local == IF f = Nothing THEN Idle ELSE [call[c] EXCEPT !.at = "loaded", !.val = f]
  <2>1. call[c].at = "read" /\ call[c] \in RetrieveCall
    BY <1>2, Shapes DEF ReadFile, IInv
  <2>2. call[c].key \in KeyId /\ f \in File
    BY <2>1 DEF RetrieveCall, IInv, TypeOK
  <2>3. /\ local \in Call
        /\ local.at \in {"idle", "loaded"}
        /\ local.at = "loaded" =>
              f # Nothing /\ local.val = f /\ local.key = call[c].key
    <3>1. CASE f = Nothing
      BY <3>1, Calls DEF Idle
    <3>2. CASE f # Nothing
      <4>1. local = [at |-> "loaded", key |-> call[c].key, val |-> f]
        BY <2>1, <3>2 DEF RetrieveCall
      <4> HIDE DEF local, f
      <4>2. local \in RetrieveCall
        BY <2>2, <4>1 DEF RetrieveCall
      <4> QED BY <3>2, <4>1, <4>2, Calls
    <3> QED BY <3>1, <3>2
  <2>4. Continue(c, local) /\ UNCHANGED <<disk, cache, ghost>>
    BY <1>2 DEF ReadFile
  <2>5. f \notin Broken /\ f # Nothing => f \in written[call[c].key]
    BY <2>2 DEF File, IInv, Whole
  <2> HIDE DEF local, f
  <2> QED BY <2>1, <2>3, <2>4, <2>5, ReaderStep DEF Writing
<1> QED BY <1>1, <1>2

LEMMA ListStep ==
    ASSUME IInv, NEW c \in Caller,
           ListKeys(c) \/ ReadDir(c) \/ ListFile(c) \/ FinishList(c)
    PROVE  IInv'
<1>1. CASE ListKeys(c)
  <2> DEFINE local == [at |-> "readdir", files |-> {}, keys |-> {},
                       owed |-> {k \in KeyId : acked[k] # Nothing}]
  <2>1. local \in Call /\ local.at = "readdir"
        /\ local.owed = {k \in KeyId : acked[k] # Nothing}
    BY Calls DEF ListCall
  <2>2. call[c].at \notin Writing /\ Continue(c, local) /\ UNCHANGED <<disk, cache, ghost>>
    BY <1>1 DEF ListKeys, Idle, Writing
  <2> HIDE DEF local
  <2>3. \A k \in local.owed : file[k] # Nothing
    BY <2>1 DEF IInv, Present
  <2> QED BY <2>1, <2>2, <2>3, ReaderStep DEF Writing
<1>2. CASE ReadDir(c)
  <2> DEFINE found == {k \in KeyId : file[k] # Nothing}
             local == IF ~dir THEN Idle ELSE [call[c] EXCEPT !.at = "list", !.files = found]
  <2>1. call[c].at = "readdir" /\ call[c] \in ListCall
    BY <1>2, Shapes DEF ReadDir, IInv
  <2>2. Continue(c, local) /\ UNCHANGED <<disk, cache, ghost>>
    BY <1>2 DEF ReadDir
  <2>3. call[c].owed \subseteq found
    BY <2>1 DEF IInv, Listed, ListCall
  <2> HIDE DEF found
  <2>4. found \subseteq KeyId
    BY DEF found
  <2>5. /\ local \in Call
        /\ local.at \in {"idle", "list"}
        /\ local.at = "list" => local.files = found /\ local.owed = call[c].owed
    <3>1. CASE ~dir
      BY <3>1, Calls DEF Idle
    <3>2. CASE dir
      <4>1. local = [at |-> "list", files |-> found, keys |-> call[c].keys,
                     owed |-> call[c].owed]
        BY <2>1, <3>2 DEF ListCall
      <4> HIDE DEF local
      <4>2. local \in ListCall
        BY <2>1, <2>4, <4>1 DEF ListCall
      <4> QED BY <4>1, <4>2, Calls
    <3> QED BY <3>1, <3>2
  <2> HIDE DEF local
  <2> QED BY <2>1, <2>2, <2>3, <2>5, ReaderStep DEF Writing
<1>3. CASE ListFile(c)
  <2>1. PICK k \in call[c].files :
          Continue(c, IF file[k] \in Broken THEN Idle
                      ELSE [call[c] EXCEPT !.files = @ \ {k}, !.keys = @ \cup {k}])
    BY <1>3 DEF ListFile
  <2> DEFINE local == IF file[k] \in Broken THEN Idle
                      ELSE [call[c] EXCEPT !.files = @ \ {k}, !.keys = @ \cup {k}]
  <2>2. call[c].at = "list" /\ call[c] \in ListCall
    BY <1>3, Shapes DEF ListFile, IInv
  <2>3. Continue(c, local) /\ UNCHANGED <<disk, cache, ghost>>
    BY <1>3, <2>1 DEF ListFile
  <2>4. /\ local \in Call
        /\ local.at \in {"idle", "list"}
        /\ local.at = "list" => /\ local.files = call[c].files \ {k}
                                /\ local.keys = call[c].keys \cup {k}
                                /\ local.owed = call[c].owed
    <3>1. CASE file[k] \in Broken
      BY <3>1, Calls DEF Idle
    <3>2. CASE file[k] \notin Broken
      <4>1. local = [at |-> "list", files |-> call[c].files \ {k},
                     keys |-> call[c].keys \cup {k}, owed |-> call[c].owed]
        BY <2>2, <3>2 DEF ListCall
      <4> HIDE DEF local
      <4>2. local \in ListCall
        BY <2>2, <4>1 DEF ListCall
      <4> QED BY <4>1, <4>2, Calls
    <3> QED BY <3>1, <3>2
  <2> HIDE DEF local
  <2>5. call[c].owed \subseteq call[c].keys \cup call[c].files
    BY <2>2 DEF IInv, Listed
  <2>6. local.at = "list" => local.owed \subseteq local.keys \cup local.files
    BY <2>4, <2>5
  <2> QED BY <2>2, <2>3, <2>4, <2>6, ReaderStep DEF Writing
<1>4. CASE FinishList(c)
  <2>1. /\ call[c].at = "list"
        /\ Continue(c, Idle)
        /\ UNCHANGED <<disk, cache, ghost>>
    BY <1>4 DEF FinishList, Return
  <2>2. Idle \in Call /\ Idle.at = "idle"
    BY Calls DEF Idle
  <2> QED BY <2>1, <2>2, ReaderStep DEF Writing
<1> QED BY <1>1, <1>2, <1>3, <1>4

LEMMA StepHolds == ASSUME Assumed PROVE IInv /\ [Next]_vars => IInv'
<1> SUFFICES ASSUME IInv, [Next]_vars PROVE IInv'
    OBVIOUS
<1>1. CASE InitKeyStore
    BY <1>1, InitKeyStoreStep
<1>2. ASSUME NEW c \in Caller, CallStep(c) \/ NewCall(c)
      PROVE  IInv'
  <2>1. CASE OpenFile(c) \/ WriteFile(c) \/ Acknowledge(c)
    BY <2>1, OpenFileStep, WriteFileStep, AcknowledgeStep
  <2>2. CASE \E k \in KeyId, d \in Data : StoreKey(c, k, d)
    BY <2>2, StoreKeyStep
  <2>3. CASE (\E k \in KeyId : RetrieveKey(c, k)) \/ ReadFile(c)
    BY <2>3, RetrieveStep
  <2>4. CASE FinishRetrieve(c)
    BY <2>4, FinishRetrieveStep
  <2>5. CASE ListKeys(c) \/ ReadDir(c) \/ ListFile(c) \/ FinishList(c)
    BY <2>5, ListStep
  <2> QED BY <1>2, <2>1, <2>2, <2>3, <2>4, <2>5 DEF CallStep, NewCall
<1>3. CASE \E k \in KeyId : Expire(k)
    BY <1>3, ExpireStep
<1>4. CASE Restart
    BY <1>4, RestartStep
<1>5. CASE UNCHANGED vars
  <2> USE <1>5 DEF vars, disk, ghost
  <2>1. TypeOK'
    BY DEF IInv, TypeOK
  <2>2. Solitary' /\ Present' /\ Listed'
    BY DEF IInv, Solitary, Present, Listed, Storing
  <2>3. Whole'
    BY DEF IInv, Whole, HandedOutWasOnDisk
  <2>4. DurableOnceAcknowledged'
    BY DEF IInv, DurableOnceAcknowledged, InStore, Storing
  <2> QED BY <2>1, <2>2, <2>3, <2>4 DEF IInv
<1> QED BY <1>1, <1>2, <1>3, <1>4, <1>5 DEF Next

LEMMA Invariance == ASSUME Assumed PROVE Spec => []IInv
BY InitHolds, StepHolds, PTL DEF Spec

-----------------------------------------------------------------------------

\* The variables keep their types: a call's locals are those of where it
\* stands, and a broken file is never in the cache.
THEOREM TypeCorrect == ASSUME Assumed PROVE Spec => []TypeOK
BY Invariance, PTL DEF IInv

\* What the module that checks the store needs to know.
LEMMA InvariantSafe == IInv => HandedOutWasOnDisk /\ DurableOnceAcknowledged
BY DEF IInv, Whole

\* A listing that finishes leaves out no key acknowledged before it began.
THEOREM ListsEverything == ASSUME Assumed PROVE Spec => []ListingComplete
<1>1. IInv => ListingComplete
  <2> SUFFICES ASSUME IInv, NEW c \in Caller,
                      call[c].at = "list", call[c].files = {}
               PROVE  call[c].owed \subseteq call[c].keys
    BY DEF ListingComplete
  <2> QED BY DEF IInv, Listed
<1> QED BY <1>1, Invariance, PTL

=============================================================================
