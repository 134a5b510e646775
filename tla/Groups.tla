------------------------------- MODULE Groups -------------------------------
(***************************************************************************)
(* GroupState of pq-secure-messaging.ts, by itself and through the calls   *)
(* of PQSecureMessaging, for one group.  Every member has a state of its   *)
(* own; path updates and welcomes travel between them in any order, any    *)
(* number of times or never.                                               *)
(*                                                                         *)
(* A secret is the list of what was mixed into it.  Of a tree only which   *)
(* nodes are blank is kept: its keys make node secrets that nothing reads. *)
(***************************************************************************)
EXTENDS Integers, Sequences, FiniteSets, FiniteSetsExt, SequencesExt

CONSTANTS
    Id,
    MaxEpoch,   \* bound: of epochs
    MaxPaths,   \* bound: of paths that are renewed
    None

VARIABLES
    group,      \* the state of every member, or None
    updates,
    welcomes,
    paths,      \* paths renewed so far, each with new keys
    removals    \* who removed whom, and with which secret it went on

vars == <<group, updates, welcomes, paths, removals>>

Init ==
    /\ group = [m \in Id |-> None]
    /\ updates = {}
    /\ welcomes = {}
    /\ paths = 0
    /\ removals = {}

\* The calls of the facade find the group or throw.
Active(m) == group[m] # None

-----------------------------------------------------------------------------
(* Nodes are numbered from 0 as in a heap, while leaves take the even      *)
(* numbers: a path runs through the leaves of others.                      *)

\* The parent of index is (index - 1) \div 2, so d steps up from a leaf are these.
DirectPath(leaf) == {node \in 0 .. leaf : \E d \in 0 .. leaf : node = (leaf + 1) \div 2^d - 1}

\* ensureTreeCapacity(): new nodes are blank.
Capacity(blanked, leaf) ==
    LET needed == Max({Cardinality(DOMAIN blanked), 2 * leaf + 2})
    IN  [node \in 0 .. needed - 1 |-> IF node \in DOMAIN blanked THEN blanked[node] ELSE TRUE]

\* The first even node that is blank, else one behind as many as there are members.
FreeLeaf(state) ==
    LET free == {node \in DOMAIN state.blanked : node % 2 = 0 /\ state.blanked[node]}
    IN  IF free # {} THEN Min(free) ELSE state.treeSize * 2

\* updatePath() and the path of processPathUpdate(): its nodes are no longer blank.
Renewed(blanked, leaf) ==
    LET grown == Capacity(blanked, leaf)
    IN  [node \in DOMAIN grown |-> grown[node] /\ node \notin DirectPath(leaf)]

Update(m) == [leaf |-> group[m].leaf, rootKey |-> paths + 1]

-----------------------------------------------------------------------------

CreateGroup(m) ==
    /\ \A other \in Id : ~Active(other)
    /\ paths = 0
    /\ group' = [group EXCEPT ![m] =
         [blanked |-> [node \in {0} |-> FALSE], treeSize |-> 1, members |-> {[id |-> m, leaf |-> 0]},
          leaf |-> 0, epoch |-> 0, secret |-> <<<<"leaf", m>>>>]]
    /\ UNCHANGED <<updates, welcomes, paths, removals>>

\* The next epoch, with something mixed into the secret.
DeriveEpoch(state, entropy) ==
    [state EXCEPT !.epoch = @ + 1, !.secret = Append(@, entropy)]

\* addMember(): the adder mixes in the identity key of the new one.  The welcome has
\* the state of after.
AddMember(m, new) ==
    /\ Active(m) /\ new # m
    /\ paths < MaxPaths /\ group[m].epoch < MaxEpoch
    /\ LET state == group[m]
           leaf == FreeLeaf(state)
           grown == [Capacity(state.blanked, leaf) EXCEPT ![leaf] = FALSE]
           others == {member \in state.members : member.id # new}
           joined == DeriveEpoch([state EXCEPT
                       !.blanked = Renewed(grown, state.leaf), !.treeSize = @ + 1,
                       !.members = others \cup {[id |-> new, leaf |-> leaf]}], <<"add", new>>)
       IN  /\ group' = [group EXCEPT ![m] = joined]
           /\ welcomes' = welcomes \cup {[to |-> new, state |-> [joined EXCEPT !.leaf = leaf]]}
    /\ updates' = updates \cup {Update(m)}
    /\ paths' = paths + 1
    /\ UNCHANGED removals

\* Faulty variant: the key of the root takes the place of the random bytes.
RemovalFromPath(path) == <<"path", path>>

\* Random bytes that are sent to nobody.
RemovalEntropy(path) == <<"removal", path>>

\* removeMember(): its whole path is blanked, leaves of others included, and then
\* the path of the remover renewed.
RemoveMember(m, member) ==
    /\ Active(m) /\ member \in group[m].members
    /\ paths < MaxPaths /\ group[m].epoch < MaxEpoch
    /\ LET state == group[m]
           blank == [node \in DOMAIN state.blanked |->
                       state.blanked[node] \/ node \in DirectPath(member.leaf)]
           left == DeriveEpoch([state EXCEPT
                     !.blanked = Renewed(blank, state.leaf), !.treeSize = @ - 1,
                     !.members = @ \ {member}], RemovalEntropy(paths + 1))
       IN  /\ group' = [group EXCEPT ![m] = left]
           /\ removals' = removals \cup {[by |-> m, id |-> member.id, secret |-> left.secret]}
    /\ updates' = updates \cup {Update(m)}
    /\ paths' = paths + 1
    /\ UNCHANGED welcomes

\* processPathUpdate(): there is no epoch in an update, nor a list of members.  The
\* entropy is the hash of the last key of the path, that of the root.
ProcessPathUpdate(m, update) ==
    /\ Active(m) /\ group[m].epoch < MaxEpoch
    /\ LET state == group[m]
           renewed == [state EXCEPT !.blanked = Renewed(state.blanked, update.leaf)]
       IN  group' = [group EXCEPT ![m] = DeriveEpoch(renewed, <<"path", update.rootKey>>)]
    /\ UNCHANGED <<updates, welcomes, paths, removals>>

ProcessWelcome(welcome) ==
    /\ group' = [group EXCEPT ![welcome.to] = welcome.state]
    /\ UNCHANGED <<updates, welcomes, paths, removals>>

\* destroy() of the group or of the whole facade.
Destroy(m) ==
    /\ Active(m)
    /\ group' = [group EXCEPT ![m] = None]
    /\ UNCHANGED <<updates, welcomes, paths, removals>>

Next ==
    \/ \E m \in Id : CreateGroup(m)
    \/ \E m, new \in Id : AddMember(m, new)
    \/ \E m \in Id : Active(m) /\ \E member \in group[m].members : RemoveMember(m, member)
    \/ \E m \in Id, update \in updates : ProcessPathUpdate(m, update)
    \/ \E welcome \in welcomes : ProcessWelcome(welcome)
    \/ \E m \in Id : Destroy(m)

Spec == Init /\ [][Next]_vars

-----------------------------------------------------------------------------

\* The keys of an epoch: senders and receivers have different ones.
KeyFor(state, use) == <<use, state.secret, state.epoch>>

\* encryptGroupMessage()
GroupMessage(m) ==
    [epoch |-> group[m].epoch, leaf |-> group[m].leaf, key |-> KeyFor(group[m], "sender"),
     tag |-> KeyFor(group[m], "membership")]

\* decryptGroupMessage() up to the tag; the receiver's key, of another label than the
\* sender's, would then not open what the sender closed.
TagVerifies(m, message) ==
    message.epoch = group[m].epoch /\ message.tag = KeyFor(group[m], "membership")

\* A tag is accepted only by those who mixed the same things in the same order into
\* their secret; and whoever was removed goes on with the remover's secret only if it
\* is added again.
GroupEpochsAgree ==
    /\ \A a, b \in Id : (Active(a) /\ Active(b)) =>
         (TagVerifies(a, GroupMessage(b)) <=> group[a].secret = group[b].secret)
    /\ \A removal \in removals : (Active(removal.id) /\ removal.id # removal.by) =>
         LET secret == group[removal.id].secret
         IN  IsPrefix(removal.secret, secret) =>
               \E i \in Len(removal.secret) + 1 .. Len(secret) : secret[i] = <<"add", removal.id>>

\* As long as nobody was removed, members have leaves of their own.
LeavesDistinct ==
    \A m \in Id : (Active(m) /\ \A i \in DOMAIN group[m].secret : group[m].secret[i][1] # "removal") =>
        \A x, y \in group[m].members : x.leaf = y.leaf => x = y

=============================================================================
