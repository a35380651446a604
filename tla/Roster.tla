------------------------------- MODULE Roster -------------------------------
(***************************************************************************)
(* groups/src/lib.rs: Roster<N>, who belongs to a group, in a fixed array of *)
(* slots, and the epoch of the group's keys.  Node 0 is no node: it marks a  *)
(* slot as empty.  The actor of a call is whoever the caller says it is.  A  *)
(* call that is refused, for the reason its error operator gives, changes    *)
(* nothing.                                                                  *)
(***************************************************************************)
EXTENDS Integers, FiniteSets

CONSTANTS
  Nodes,       \* node numbers
  Owner,       \* the owning node
  PublicKeys,  \* X25519 public keys
  NoKey,       \* the key of an empty slot, all zero
  Capacity,    \* N
  MaxEpoch     \* the last epoch: 255 in the code

ASSUME NodesAssumption == Nodes \subseteq Nat \ {0} /\ Owner \in Nodes
ASSUME SizesAssumption == Capacity \in Nat /\ MaxEpoch \in Nat

VARIABLES
  members,     \* Roster.members
  epoch        \* Roster.epoch

roster == <<members, epoch>>

Slots == 1..Capacity
Member(n, key) == [node |-> n, key |-> key]
Empty == Member(0, NoKey)

\* Calls find the first slot, in the order of the array, that holds a node.
SlotsOf(n) == {i \in Slots : members[i].node = n}
IsFirst(i, S) == i \in S /\ \A j \in S : i <= j

Contains(n) == n # 0 /\ SlotsOf(n) # {}

RosterInit == /\ members = [i \in Slots |-> Empty]
              /\ epoch = 0
----------------------------------------------------------------------------
AddError(actor, n) == IF actor # Owner THEN "NotOwner"
                      ELSE IF n = 0 THEN "Malformed"
                      ELSE IF Contains(n) \/ SlotsOf(0) # {} THEN "None"
                      ELSE "RosterFull"

\* Mutant: one search, for the node or an empty slot.
AddToFirst(actor, n, key) ==
  /\ AddError(actor, n) = "None"
  /\ \E i \in Slots : /\ IsFirst(i, SlotsOf(n) \cup SlotsOf(0))
                      /\ members' = [members EXCEPT ![i] = Member(n, key)]
  /\ UNCHANGED epoch

\* The key of a member is replaced where it is; a new one takes an empty slot.
Add(actor, n, key) ==
  /\ AddError(actor, n) = "None"
  /\ \E i \in Slots :
       /\ IsFirst(i, IF Contains(n) THEN SlotsOf(n) ELSE SlotsOf(0))
       /\ members' = [members EXCEPT ![i] = Member(n, key)]
  /\ UNCHANGED epoch

\* Mutant: the key is wiped and the node stays.
RemoveKeyOnly(actor, n) ==
  /\ actor = Owner /\ Contains(n)
  /\ \E i \in Slots : /\ IsFirst(i, SlotsOf(n))
                      /\ members' = [members EXCEPT ![i].key = NoKey]
  /\ UNCHANGED epoch

\* Otherwise NotOwner, or the answer that the node was not present.
Remove(actor, n) ==
  /\ actor = Owner /\ Contains(n)
  /\ \E i \in Slots : /\ IsFirst(i, SlotsOf(n))
                      /\ members' = [members EXCEPT ![i] = Empty]
  /\ UNCHANGED epoch

\* Mutant: the epoch byte wraps.
BumpEpochWraps(actor) ==
  /\ actor = Owner
  /\ epoch' = (epoch + 1) % (MaxEpoch + 1)
  /\ UNCHANGED members

\* Otherwise NotOwner or EpochExhausted.
BumpEpoch(actor) ==
  /\ actor = Owner
  /\ epoch < MaxEpoch
  /\ epoch' = epoch + 1
  /\ UNCHANGED members
----------------------------------------------------------------------------
RosterType == /\ members \in [Slots -> {Empty} \cup [node : Nodes, key : PublicKeys]]
              /\ epoch \in 0..MaxEpoch

\* Whatever was added, replaced and removed in whatever order, a member has one
\* slot: what remove clears is all there is of it (lib.rs:513-525).
EachMemberOnce ==
  \A i, j \in Slots : members[i].node = members[j].node /\ members[i].node # 0 => i = j

\* The members and their keys, without their places in the array.
MemberSet == {members[i].node : i \in Slots} \ {0}
KeyOf == [n \in MemberSet |-> (CHOOSE m \in {members[i] : i \in Slots} : m.node = n).key]

\* The owner is told that the roster is full exactly when there are Capacity
\* members and the new one is not among them: holes that removals left anywhere
\* in the array are used (lib.rs:519-523).
FullOnlyAtCapacity ==
  \A n \in Nodes : AddError(Owner, n) = "RosterFull" <=>
                    n \notin MemberSet /\ Cardinality(MemberSet) = Capacity

Abstract == INSTANCE Membership WITH keyOf <- KeyOf
=============================================================================
