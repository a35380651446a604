---------------------------- MODULE GroupsProofs ----------------------------
(***************************************************************************)
(* A group's roster implements the set Membership describes, its epochs do   *)
(* not return, no nonce is used twice under one key, a node opens exactly    *)
(* what was sealed under keys it has, and who had been removed when a group  *)
(* key came into use has it from nobody: for every number of nodes, slots,   *)
(* keys, epochs, packets, invites and relays.                                *)
(***************************************************************************)
EXTENDS Groups, FiniteSetTheorems, TLAPS

----------------------------------------------------------------------------
(* The roster: what its calls do to the set of its members, for every        *)
(* capacity and every set of nodes and keys.  RosterOK is inductive: that a  *)
(* member has one slot is what makes the key found for it its only key, a    *)
(* removal complete, and a full array a full set.                            *)

RosterOK == RosterType /\ EachMemberOnce

\* The members are at most as many as the slots.
FewMembers == /\ IsFiniteSet(MemberSet)
              /\ Cardinality(MemberSet) \in Nat
              /\ Cardinality(MemberSet) <= Capacity

LEMMA AtMostCapacity == RosterType => FewMembers
<1> USE NodesAssumption, SizesAssumption
<1> HAVE RosterType
<1> DEFINE All == {members[i].node : i \in Slots}
           f == [i \in Slots |-> members[i].node]
<1>1. IsFiniteSet(Slots) /\ Cardinality(Slots) = Capacity
  BY FS_Interval DEF Slots
<1>2. f \in Surjection(Slots, All)
  BY DEF Surjection
<1>3. IsFiniteSet(All) /\ Cardinality(All) <= Capacity
  BY <1>1, <1>2, FS_Surjection
<1>4. IsFiniteSet(MemberSet) /\ Cardinality(MemberSet) <= Cardinality(All)
  BY <1>3, FS_Subset DEF MemberSet
<1>5. Cardinality(MemberSet) \in Nat /\ Cardinality(All) \in Nat
  BY <1>3, <1>4, FS_CardinalityType
<1>6. QED
  BY <1>3, <1>4, <1>5 DEF FewMembers

\* Without an empty slot the members are as many as the slots; with one they are
\* fewer.
LEMMA FullMeansCapacity ==
  ASSUME RosterOK
  PROVE  SlotsOf(0) = {} <=> Cardinality(MemberSet) = Capacity
<1> USE NodesAssumption, SizesAssumption
<1> DEFINE f == [i \in Slots |-> members[i].node]
<1>1. IsFiniteSet(Slots) /\ Cardinality(Slots) = Capacity
  BY FS_Interval DEF Slots
<1>2. ASSUME SlotsOf(0) = {}
      PROVE  Cardinality(MemberSet) = Capacity
  <2>1. f \in Surjection(Slots, MemberSet)
    BY <1>2 DEF Surjection, MemberSet, SlotsOf
  <2>2. f \in Injection(Slots, MemberSet)
    BY <1>2, <2>1 DEF Surjection, Injection, IsInjective, RosterOK, EachMemberOnce, SlotsOf
  <2>3. QED
    BY <1>1, <2>1, <2>2, FS_Surjection
<1>3. ASSUME NEW z \in SlotsOf(0)
      PROVE  Cardinality(MemberSet) < Capacity
  <2> DEFINE Rest == Slots \ {z}
             Others == {members[i].node : i \in Rest}
             g == [i \in Rest |-> members[i].node]
  <2>1. z \in Slots /\ members[z].node = 0
    BY <1>3 DEF SlotsOf
  <2>2. IsFiniteSet(Rest) /\ Cardinality(Rest) = Capacity - 1
    BY <1>1, <2>1, FS_RemoveElement
  <2>3. g \in Surjection(Rest, Others)
    BY DEF Surjection
  <2>4. IsFiniteSet(Others) /\ Cardinality(Others) <= Capacity - 1
    BY <2>2, <2>3, FS_Surjection
  <2>5. MemberSet \subseteq Others
    BY <2>1 DEF MemberSet
  <2>6. IsFiniteSet(MemberSet) /\ Cardinality(MemberSet) <= Cardinality(Others)
    BY <2>4, <2>5, FS_Subset
  <2>7. Cardinality(MemberSet) \in Nat /\ Cardinality(Others) \in Nat
    BY <2>4, <2>6, FS_CardinalityType
  <2>8. QED
    BY <2>4, <2>6, <2>7
<1>4. QED
  BY <1>2, <1>3

\* The owner is told that the roster is full exactly when the set of members is.
LEMMA FullLemma ==
  ASSUME RosterOK
  PROVE  FullOnlyAtCapacity
<1> USE NodesAssumption, SizesAssumption
<1> SUFFICES ASSUME NEW n \in Nodes
             PROVE  AddError(Owner, n) = "RosterFull" <=>
                      n \notin MemberSet /\ Cardinality(MemberSet) = Capacity
  BY DEF FullOnlyAtCapacity
<1>1. n # 0
  OBVIOUS
<1>2. Contains(n) <=> n \in MemberSet
  BY <1>1 DEF Contains, SlotsOf, MemberSet
<1>3. QED
  BY <1>1, <1>2, FullMeansCapacity DEF AddError

\* The key of a member is that of its slot.
KeysInSlots ==
  \A i \in Slots : members[i].node # 0 => KeyOf[members[i].node] = members[i].key

LEMMA KeyOfSlot == RosterOK => KeysInSlots
<1> USE NodesAssumption, SizesAssumption
<1> SUFFICES ASSUME RosterOK, NEW i \in Slots, members[i].node # 0
             PROVE  KeyOf[members[i].node] = members[i].key
  BY DEF KeysInSlots
<1> DEFINE n == members[i].node
           At == {members[j] : j \in Slots}
<1>1. n \in MemberSet
  BY DEF MemberSet
<1>2. members[i] \in At /\ members[i].node = n
  OBVIOUS
<1>3. \A m \in At : m.node = n => m = members[i]
  BY DEF RosterOK, EachMemberOnce
<1>4. (CHOOSE m \in At : m.node = n) = members[i]
  BY <1>2, <1>3
<1>5. QED
  BY <1>1, <1>4 DEF KeyOf
----------------------------------------------------------------------------
\* A new roster is well formed and empty.
LEMMA InitOK ==
  ASSUME RosterInit
  PROVE  RosterOK /\ Abstract!Init
<1> USE NodesAssumption, SizesAssumption
<1>1. RosterType
  BY DEF RosterInit, RosterType, Empty
<1>2. EachMemberOnce
  BY DEF RosterInit, EachMemberOnce, Empty, Member
<1>3. MemberSet = {}
  BY DEF RosterInit, MemberSet, Empty, Member
<1>4. QED
  BY <1>1, <1>2, <1>3 DEF RosterOK, Abstract!Init, KeyOf, RosterInit

----------------------------------------------------------------------------
(* The calls.  The array is changed in one slot.                             *)

\* add: the key of a member is replaced, or a new member fits.
LEMMA AddLemma ==
  ASSUME RosterOK, NEW actor, NEW n \in Nodes, NEW key \in PublicKeys, Add(actor, n, key)
  PROVE  RosterOK' /\ Abstract!Add(n, key) /\ MemberSet' = MemberSet \cup {n}
<1> USE NodesAssumption, SizesAssumption
<1>0. n # 0
  OBVIOUS
<1>1. PICK i \in Slots :
        /\ IF Contains(n) THEN members[i].node = n ELSE members[i].node = 0
        /\ members' = [members EXCEPT ![i] = Member(n, key)]
  BY DEF Add, IsFirst, SlotsOf
<1>2. epoch' = epoch
  BY DEF Add
<1>3. members \in [Slots -> {Empty} \cup [node : Nodes, key : PublicKeys]]
  BY DEF RosterOK, RosterType
<1>4. /\ members'[i].node = n /\ members'[i].key = key
      /\ \A j \in Slots : j # i => members'[j] = members[j]
  BY <1>1, <1>3 DEF Member
<1>5. \A j \in Slots : j # i => members[j].node # n
  BY <1>0, <1>1 DEF Contains, SlotsOf, RosterOK, EachMemberOnce
<1>6. RosterOK'
  <2>1. RosterType'
    BY <1>1, <1>2 DEF RosterOK, RosterType, Member
  <2>2. EachMemberOnce'
    BY <1>4, <1>5 DEF RosterOK, EachMemberOnce
  <2>3. QED
    BY <2>1, <2>2 DEF RosterOK
<1>7. MemberSet' = MemberSet \cup {n}
  BY <1>0, <1>1, <1>4, <1>5 DEF MemberSet
<1>8. \A m \in MemberSet' : KeyOf'[m] = IF m = n THEN key ELSE KeyOf[m]
  <2> SUFFICES ASSUME NEW m \in MemberSet'
               PROVE  KeyOf'[m] = IF m = n THEN key ELSE KeyOf[m]
    OBVIOUS
  <2>1. PICK j \in Slots : members'[j].node = m /\ m # 0
    BY DEF MemberSet
  <2>2. KeyOf'[m] = members'[j].key
    <3>1. (RosterOK => KeysInSlots)'
      BY KeyOfSlot, PTL
    <3>2. QED
      BY <1>6, <2>1, <3>1 DEF KeysInSlots
  <2>3. CASE j = i
    BY <1>4, <2>1, <2>2, <2>3
  <2>4. CASE j # i
    <3>1. members[j].node = m /\ m # n /\ members'[j].key = members[j].key
      BY <1>4, <1>5, <2>1, <2>4
    <3>2. KeyOf[m] = members[j].key
      BY <2>1, <3>1, KeyOfSlot DEF KeysInSlots
    <3>3. QED
      BY <2>2, <3>1, <3>2
  <2>5. QED
    BY <2>3, <2>4
<1>9. KeyOf' = [m \in MemberSet \cup {n} |-> IF m = n THEN key ELSE KeyOf[m]]
  <2>1. KeyOf' = [m \in MemberSet' |-> KeyOf'[m]]
    BY DEF KeyOf
  <2>2. QED
    BY <1>7, <1>8, <2>1
<1>10. Cardinality(MemberSet \cup {n}) <= Capacity
  <2>1. RosterType'
    BY <1>6 DEF RosterOK
  <2>2. (RosterType => FewMembers)'
    BY AtMostCapacity, PTL
  <2>3. QED
    BY <1>7, <2>1, <2>2 DEF FewMembers
<1>11. DOMAIN KeyOf = MemberSet
  BY DEF KeyOf
<1>12. QED
  <2>1. Abstract!Cardinality(MemberSet \cup {n}) = Cardinality(MemberSet \cup {n})
    BY Zenon DEF Abstract!Cardinality, Cardinality
  <2>2. QED
    BY <1>2, <1>6, <1>7, <1>9, <1>10, <1>11, <2>1 DEF Abstract!Add

\* remove: a member's only slot is emptied.
LEMMA RemoveLemma ==
  ASSUME RosterOK, NEW actor, NEW n \in Nodes, Remove(actor, n)
  PROVE  RosterOK' /\ Abstract!Remove(n) /\ MemberSet' = MemberSet \ {n}
<1> USE NodesAssumption, SizesAssumption
<1>0. n # 0
  OBVIOUS
<1>1. PICK i \in Slots : members[i].node = n /\ members' = [members EXCEPT ![i] = Empty]
  BY DEF Remove, IsFirst, SlotsOf
<1>2. epoch' = epoch
  BY DEF Remove
<1>3. members \in [Slots -> {Empty} \cup [node : Nodes, key : PublicKeys]]
  BY DEF RosterOK, RosterType
<1>4. /\ members'[i].node = 0
      /\ \A j \in Slots : j # i => members'[j] = members[j]
  BY <1>1, <1>3 DEF Empty, Member
<1>5. \A j \in Slots : j # i => members[j].node # n
  BY <1>0, <1>1 DEF RosterOK, EachMemberOnce
<1>6. RosterOK'
  <2>1. RosterType'
    BY <1>1, <1>2 DEF RosterOK, RosterType
  <2>2. EachMemberOnce'
    BY <1>4 DEF RosterOK, EachMemberOnce
  <2>3. QED
    BY <2>1, <2>2 DEF RosterOK
<1>7. MemberSet' = MemberSet \ {n}
  BY <1>0, <1>1, <1>4, <1>5 DEF MemberSet
<1>8. \A m \in MemberSet' : KeyOf'[m] = KeyOf[m]
  <2> SUFFICES ASSUME NEW m \in MemberSet'
               PROVE  KeyOf'[m] = KeyOf[m]
    OBVIOUS
  <2>1. PICK j \in Slots : members'[j].node = m /\ m # 0
    BY DEF MemberSet
  <2>2. (RosterOK => KeysInSlots)'
    BY KeyOfSlot, PTL
  <2>3. KeyOf'[m] = members'[j].key
    BY <1>6, <2>1, <2>2 DEF KeysInSlots
  <2>4. members'[j] = members[j]
    BY <1>4, <2>1
  <2>5. KeyOf[m] = members[j].key
    BY <2>1, <2>4, KeyOfSlot DEF KeysInSlots
  <2>6. QED
    BY <2>3, <2>4, <2>5
<1>9. KeyOf' = [m \in MemberSet \ {n} |-> KeyOf[m]]
  <2>1. KeyOf' = [m \in MemberSet' |-> KeyOf'[m]]
    BY DEF KeyOf
  <2>2. QED
    BY <1>7, <1>8, <2>1
<1>10. n \in MemberSet /\ DOMAIN KeyOf = MemberSet
  BY <1>0, <1>1 DEF KeyOf, MemberSet
<1>11. QED
  BY <1>2, <1>6, <1>7, <1>9, <1>10 DEF Abstract!Remove

\* bump_epoch: the members stay.
LEMMA BumpLemma ==
  ASSUME RosterOK, NEW actor, BumpEpoch(actor)
  PROVE  RosterOK' /\ Abstract!Bump /\ MemberSet' = MemberSet
<1> USE NodesAssumption, SizesAssumption
<1>1. RosterOK'
  BY DEF RosterOK, RosterType, EachMemberOnce, BumpEpoch
<1>2. MemberSet' = MemberSet /\ KeyOf' = KeyOf
  BY DEF BumpEpoch, MemberSet, KeyOf
<1>3. QED
  BY <1>1, <1>2 DEF BumpEpoch, Abstract!Bump

\* Nothing is called.
LEMMA IdleLemma ==
  ASSUME RosterOK, UNCHANGED roster
  PROVE  RosterOK' /\ UNCHANGED Abstract!vars /\ MemberSet' = MemberSet
BY DEF RosterOK, RosterType, EachMemberOnce, roster, MemberSet, KeyOf, Abstract!vars

----------------------------------------------------------------------------
(* The group.                                                                *)

USE BoundsAssumption, TextsAssumption

\* The steps that leave the roster alone.
CallerStep == \/ Rotate
              \/ \E n \in Nodes : Invite(n)
              \/ \E i \in invites : Accept(i)
              \/ \E n \in Nodes : \/ \E text \in Texts : Send(n, text)
                                  \/ \E env \in Foreign : SendForeign(n, env)
              \/ \E n \in Relays, f \in air : Relay(n, f)

LEMMA CallerLeavesRoster ==
  ASSUME CallerStep \/ UNCHANGED vars
  PROVE  UNCHANGED roster
BY DEF CallerStep, Rotate, Invite, Accept, Send, SendForeign, Relay, vars

\* What a step does to the roster.
LEMMA RosterStep ==
  ASSUME RosterOK, [Next]_vars
  PROVE  RosterOK' /\ [Abstract!Next]_(Abstract!vars)
<1>1. CASE \E a \in Nodes, n \in Nodes, key \in PublicKeys : AddMember(a, n, key)
  BY <1>1, AddLemma DEF AddMember, Abstract!Next
<1>2. CASE \E a \in Nodes, n \in Nodes : RemoveMember(a, n)
  BY <1>2, RemoveLemma DEF RemoveMember, Abstract!Next
<1>3. CASE \E a \in Nodes : NewEpoch(a)
  BY <1>3, BumpLemma DEF NewEpoch, Abstract!Next
<1>4. CASE CallerStep \/ UNCHANGED vars
  BY <1>4, CallerLeavesRoster, IdleLemma
<1>5. QED
  BY <1>1, <1>2, <1>3, <1>4 DEF Next, CallerStep

LEMMA RosterInvariant == Spec => []RosterOK
<1>1. Init => RosterOK
  BY InitOK DEF Init
<1>2. RosterOK /\ [Next]_vars => RosterOK'
  BY RosterStep
<1>3. QED
  BY <1>1, <1>2, PTL DEF Spec

\* Every member has one slot, whatever the owner adds, replaces and removes
\* (groups/src/lib.rs:513-545).
THEOREM OneSlotEach == Spec => []EachMemberOnce
BY RosterInvariant, PTL DEF RosterOK

\* RosterFull is the answer exactly when there are Capacity members
\* (groups/src/lib.rs:519-523).
THEOREM FullIsFull == Spec => []FullOnlyAtCapacity
<1>1. RosterOK => FullOnlyAtCapacity
  BY FullLemma
<1>2. QED
  BY <1>1, RosterInvariant, PTL

\* The roster implements the set of members Membership describes
\* (groups/src/lib.rs:442-571).
THEOREM RosterIsMembership == Spec => ImplementsMembership
<1>1. Init => Abstract!Init
  BY InitOK DEF Init
<1>2. RosterOK /\ [Next]_vars => [Abstract!Next]_(Abstract!vars)
  BY RosterStep
<1>3. QED
  BY <1>1, <1>2, RosterInvariant, PTL DEF Spec, ImplementsMembership, Abstract!Spec
----------------------------------------------------------------------------
\* The owner's epoch, its key and the nodes that were out are of their types.
LEMMA OwnEpoch ==
  ASSUME NEW key \in Keys, NEW e \in Epochs, OwnerUses(key, e),
         known \in [Nodes -> SUBSET Keys], current \in [Nodes -> GroupEpochs]
  PROVE  known' \in [Nodes -> SUBSET Keys] /\ current' \in [Nodes -> GroupEpochs]
BY DEF OwnerUses, GroupEpochs

LEMMA RevokedAt ==
  ASSUME NEW key \in Keys, NEW e \in Epochs, former \subseteq Nodes,
         revoked \in [Keys -> [Epochs -> SUBSET Nodes]],
         revoked' = [revoked EXCEPT ![key][e] = former]
  PROVE  revoked' \in [Keys -> [Epochs -> SUBSET Nodes]]
<1>1. [revoked[key] EXCEPT ![e] = former] \in [Epochs -> SUBSET Nodes]
  OBVIOUS
<1>2. QED
  BY <1>1

\* The state has its type (groups/src/lib.rs:442-447, 253-260).
THEOREM TypeCorrect == Spec => []TypeOK
<1>1. Init => TypeOK
  <2> SUFFICES ASSUME Init PROVE TypeOK
    OBVIOUS
  <2>1. RosterType
    BY InitOK DEF Init, RosterOK
  <2>2. 0 \in Keys /\ 0 \in Epochs
    BY SizesAssumption DEF Keys, Epochs
  <2>3. /\ known \in [Nodes -> SUBSET Keys]
        /\ current \in [Nodes -> GroupEpochs]
    BY <2>2 DEF Init, GroupEpochs
  <2>4. /\ shutOut \in [Keys -> SUBSET Nodes]
        /\ revoked \in [Keys -> [Epochs -> SUBSET Nodes]]
    BY DEF Init
  <2>5. QED
    BY <2>1, <2>2, <2>3, <2>4 DEF Init, TypeOK
<1>2. RosterOK /\ TypeOK /\ [Next]_vars => TypeOK'
  <2> SUFFICES ASSUME RosterOK, TypeOK, [Next]_vars
               PROVE  TypeOK'
    OBVIOUS
  <2>0. RosterType'
    BY RosterStep DEF RosterOK
  <2>1. CASE \E a \in Nodes, n \in Nodes, key \in PublicKeys : AddMember(a, n, key)
    <3>1. /\ UNCHANGED <<groupKey, invites, known, current, nextId>>
          /\ former' \subseteq Nodes
      BY <2>1 DEF AddMember, TypeOK, caller, mesh
    <3>2. PICK n \in Nodes :
            /\ shutOut' = [k \in Keys |-> shutOut[k] \ {n}]
            /\ revoked' = [k \in Keys |-> [e \in Epochs |-> revoked[k][e] \ {n}]]
      BY <2>1 DEF AddMember
    <3>3. shutOut' \in [Keys -> SUBSET Nodes]
      BY <3>2 DEF TypeOK
    <3>4. revoked' \in [Keys -> [Epochs -> SUBSET Nodes]]
      <4>1. \A k \in Keys, e \in Epochs : revoked[k][e] \ {n} \in SUBSET Nodes
        BY DEF TypeOK
      <4>2. QED
        BY <3>2, <4>1
    <3>5. QED
      BY <2>0, <3>1, <3>3, <3>4 DEF TypeOK
  <2>2. CASE \E a \in Nodes, n \in Nodes : RemoveMember(a, n)
    BY <2>0, <2>2 DEF RemoveMember, TypeOK, caller, mesh
  <2>3. CASE \E a \in Nodes : NewEpoch(a)
    <3>1. PICK a \in Nodes : NewEpoch(a)
      BY <2>3
    <3>2. groupKey \in Keys /\ epoch' \in Epochs
      BY <2>0 DEF TypeOK, RosterType, Epochs
    <3>3. known' \in [Nodes -> SUBSET Keys] /\ current' \in [Nodes -> GroupEpochs]
      BY <3>1, <3>2, NodesAssumption, OwnEpoch DEF NewEpoch, TypeOK
    <3>4. revoked' \in [Keys -> [Epochs -> SUBSET Nodes]]
      BY <3>1, <3>2, RevokedAt DEF NewEpoch, TypeOK
    <3>5. QED
      BY <2>0, <3>1, <3>3, <3>4 DEF NewEpoch, TypeOK, mesh
  <2>4. CASE Rotate
    <3>1. groupKey' \in Keys /\ epoch \in Epochs
      BY <2>4, BoundsAssumption DEF Rotate, TypeOK, RosterType, Keys, Epochs
    <3>2. known' \in [Nodes -> SUBSET Keys] /\ current' \in [Nodes -> GroupEpochs]
      BY <2>4, <3>1, NodesAssumption, OwnEpoch DEF Rotate, TypeOK
    <3>3. revoked' \in [Keys -> [Epochs -> SUBSET Nodes]]
      BY <2>4, <3>1, RevokedAt DEF Rotate, TypeOK
    <3>4. shutOut' \in [Keys -> SUBSET Nodes]
      BY <2>4, <3>1 DEF Rotate, TypeOK
    <3>5. QED
      BY <2>0, <2>4, <3>1, <3>2, <3>3, <3>4 DEF Rotate, TypeOK, mesh
  <2>5. CASE \E n \in Nodes : Invite(n)
    <3>1. PICK n \in Nodes : Invite(n)
      BY <2>5
    <3>2. [to |-> n, key |-> groupKey, epoch |-> epoch]
             \in [to : Nodes, key : Keys, epoch : Epochs]
      BY DEF TypeOK, RosterType, Epochs
    <3>3. QED
      BY <2>0, <3>1, <3>2 DEF Invite, TypeOK, mesh, ghosts
  <2>6. CASE \E i \in invites : Accept(i)
    <3>1. PICK i \in invites : Accept(i)
      BY <2>6
    <3>2. i.to \in Nodes /\ i.key \in Keys /\ i.epoch \in Epochs
      BY DEF TypeOK
    <3>3. /\ known' \in [Nodes -> SUBSET Keys]
          /\ current' \in [Nodes -> GroupEpochs]
      BY <3>1, <3>2 DEF Accept, TypeOK, GroupEpochs
    <3>4. QED
      BY <2>0, <3>1, <3>3 DEF Accept, TypeOK, mesh, ghosts
  <2>7. CASE \E n \in Nodes, text \in Texts : Send(n, text)
    BY <2>0, <2>7 DEF Send, TypeOK, caller, ghosts
  <2>8. CASE \E n \in Nodes, env \in Foreign : SendForeign(n, env)
    BY <2>0, <2>8 DEF SendForeign, TypeOK, caller, ghosts
  <2>9. CASE \E n \in Relays, f \in air : Relay(n, f)
    BY <2>0, <2>9 DEF Relay, TypeOK, caller, ghosts
  <2>10. CASE UNCHANGED vars
    BY <2>0, <2>10 DEF vars, TypeOK, caller, mesh, ghosts
  <2>11. QED
    BY <2>1, <2>2, <2>3, <2>4, <2>5, <2>6, <2>7, <2>8, <2>9, <2>10 DEF Next
<1>3. QED
  BY <1>1, <1>2, RosterInvariant, PTL DEF Spec

\* A group key and epoch that were left do not come back
\* (groups/src/lib.rs:554-571).
THEOREM EpochsOnlyAdvance == Spec => EpochKeyNeverReturns
<1>1. TypeOK /\ [Next]_vars =>
        [/\ groupKey' >= groupKey
         /\ groupKey' = groupKey => epoch' >= epoch]_<<groupKey, epoch>>
  <2> SUFFICES ASSUME TypeOK, [Next]_vars
               PROVE  groupKey' >= groupKey /\ (groupKey' = groupKey => epoch' >= epoch)
    OBVIOUS
  <2>1. groupKey \in Nat /\ epoch \in Nat
    BY DEF TypeOK, RosterType, Keys
  <2>2. CASE \E a \in Nodes, n \in Nodes, key \in PublicKeys : AddMember(a, n, key)
    BY <2>1, <2>2 DEF AddMember, Add, caller
  <2>3. CASE \E a \in Nodes, n \in Nodes : RemoveMember(a, n)
    BY <2>1, <2>3 DEF RemoveMember, Remove, caller
  <2>4. CASE \E a \in Nodes : NewEpoch(a)
    BY <2>1, <2>4 DEF NewEpoch, BumpEpoch
  <2>5. CASE Rotate
    BY <2>1, <2>5 DEF Rotate
  <2>6. CASE UNCHANGED <<groupKey, epoch>>
    BY <2>1, <2>6
  <2>7. QED
    BY <2>2, <2>3, <2>4, <2>5, <2>6
       DEF Next, Invite, Accept, Send, SendForeign, Relay, vars, roster, caller
<1>2. QED
  BY <1>1, TypeCorrect, PTL DEF Spec, EpochKeyNeverReturns
----------------------------------------------------------------------------
(* What is on the air.  A frame carries another application's payload, or    *)
(* what its sender sealed in the packet of that identifier; the fields no    *)
(* relay changes are those its sender wrote.                                 *)

\* The header a node gives a packet of its own.
FirstHead(n, id) ==
  EncodeHeader(OwnHeader(n, BROADCAST_ADDR, id, HopStart, ChannelHash, FALSE))

SamePacket(s, f) == s.from = f.head.from /\ s.id = f.head.id

\* The frame's body is the envelope of what s records.
CarriedBy(f, s) ==
  /\ SamePacket(s, f)
  /\ f.body.version = VERSION /\ f.body.type = "Data" /\ f.body.groupId = GroupId
  /\ f.body.size \in Nat /\ f.body.size >= OVERHEAD
  /\ f.body.epoch = s.group.epoch
  /\ f.body.sealed = [key |-> EpochKey(s.group.key, s.group.epoch),
                      nonce |-> Nonce(s.from, s.id, s.group.epoch),
                      aad |-> AadFromHeader(FirstHead(s.from, s.id)), text |-> s.text]

HeadOK(head) == /\ head.from \in Nodes
                /\ head.id \in Nat /\ head.id < nextId[head.from]
                /\ head.flags \in 0..255
                /\ AadFromHeader(head) = AadFromHeader(FirstHead(head.from, head.id))

FrameOK(f) == /\ f = [head |-> f.head, body |-> f.body]
              /\ HeadOK(f.head)
              /\ \/ f.body \in Foreign /\ \A s \in sealedAs : ~SamePacket(s, f)
                 \/ \E s \in sealedAs : CarriedBy(f, s)

RecordOK(s) == /\ s.from \in Nodes
               /\ s.id \in Nat /\ s.id < nextId[s.from]
               /\ s.group.key \in Keys /\ s.group.epoch \in Epochs

\* One packet seals one text.
SealedOnce == \A s, t \in sealedAs : s.from = t.from /\ s.id = t.id => s = t

AirOK == /\ sealedAs # {} => GroupId # 0
         /\ SealedOnce
         /\ \A s \in sealedAs : RecordOK(s)
         /\ \A f \in air : FrameOK(f)

\* A relay takes a hop from the flags and leaves the other fields in them.
LEMMA RelayKeepsFlags ==
  ASSUME NEW flags \in 0..255, flags % 8 # 0,
         NEW kept, kept = (((flags % 8) - 1) % 8) + 8 * Bit((flags \div 8) % 2 = 1)
                            + 16 * Bit((flags \div 16) % 2 = 1) + 32 * ((flags \div 32) % 8)
  PROVE  kept \in 0..255 /\ kept - (kept % 8) = flags - (flags % 8)
<1> DEFINE hops == flags % 8
           ack == (flags \div 8) % 2
           mqtt == (flags \div 16) % 2
           start == flags \div 32
<1>1. /\ hops \in 1..7 /\ ack \in 0..1 /\ mqtt \in 0..1 /\ start \in 0..7
      /\ flags = hops + 8 * ack + 16 * mqtt + 32 * start
  OBVIOUS
<1>2. Bit(ack = 1) = ack /\ Bit(mqtt = 1) = mqtt
  BY <1>1 DEF Bit
<1>3. (hops - 1) % 8 = hops - 1 /\ start % 8 = start
  BY <1>1
<1>4. kept = flags - 1
  <2> HIDE DEF hops, ack, mqtt, start
  <2>1. kept = ((hops - 1) % 8) + 8 * Bit(ack = 1) + 16 * Bit(mqtt = 1) + 32 * (start % 8)
    BY DEF hops, ack, mqtt, start
  <2>2. QED
    BY <1>1, <1>2, <1>3, <2>1
<1>5. kept % 8 = (flags % 8) - 1
  BY <1>4
<1>6. QED
  BY <1>4, <1>5

\* A relayed frame is the frame of the same packet.
LEMMA RelayedFrame ==
  ASSUME NEW f, FrameOK(f), NEW n, RelayedBy(f, n).ok
  PROVE  FrameOK(RelayedBy(f, n).value)
<1> DEFINE g == RelayedBy(f, n).value
<1>1. f.head.flags \in 0..255 /\ f.head.flags % 8 # 0
  BY DEF FrameOK, HeadOK, RelayedBy, Peek, DecodeHeader, Failed
<1>2. g = RelayPrepare(f, (f.head.flags % 8) - 1, n)
  BY <1>1 DEF RelayedBy, Peek, DecodeHeader, Ok
<1>3. g = [head |-> EncodeHeader([Peek(f) EXCEPT !.hopLimit = (f.head.flags % 8) - 1,
                                                 !.relayNode = LowByte(n)]),
           body |-> f.body]
  BY <1>2 DEF FrameOK, RelayPrepare
<1>4. /\ g.head.to = f.head.to /\ g.head.from = f.head.from /\ g.head.id = f.head.id
      /\ g.head.channel = f.head.channel
      /\ g.head.flags = (((f.head.flags % 8) - 1) % 8) + 8 * Bit((f.head.flags \div 8) % 2 = 1)
            + 16 * Bit((f.head.flags \div 16) % 2 = 1) + 32 * ((f.head.flags \div 32) % 8)
  BY <1>3 DEF EncodeHeader, Peek, DecodeHeader, Flags
<1>5. /\ g.head.flags \in 0..255
      /\ g.head.flags - (g.head.flags % 8) = f.head.flags - (f.head.flags % 8)
  BY <1>1, <1>4, RelayKeepsFlags
<1>6. AadFromHeader(g.head) = AadFromHeader(f.head)
  BY <1>4, <1>5 DEF AadFromHeader
<1>7. HeadOK(g.head)
  BY <1>4, <1>5, <1>6 DEF FrameOK, HeadOK
<1>8. g.body = f.body
  BY <1>3
<1>9. QED
  BY <1>3, <1>4, <1>7, <1>8 DEF FrameOK, CarriedBy, SamePacket

\* The fields no relay changes of the header a packet starts with.
LEMMA FirstHeadOK ==
  ASSUME NEW n \in Nodes, NEW id \in Nat
  PROVE  /\ FirstHead(n, id).from = n /\ FirstHead(n, id).id = id
         /\ FirstHead(n, id).flags \in 0..255
BY DEF FirstHead, EncodeHeader, OwnHeader, Flags, Bit

\* A frame that was well formed stays so while packets are sent with new
\* identifiers.
LEMMA FrameStays ==
  ASSUME NEW f, FrameOK(f),
         \A n \in Nodes : nextId[n] \in Nat /\ nextId'[n] \in Nat /\ nextId[n] <= nextId'[n],
         sealedAs \subseteq sealedAs',
         \A s \in sealedAs' \ sealedAs : s.id = nextId[s.from]
  PROVE  FrameOK(f)'
<1>1. f.head.from \in Nodes /\ f.head.id \in Nat /\ f.head.id < nextId[f.head.from]
  BY DEF FrameOK, HeadOK
<1>2. \A s \in sealedAs' \ sealedAs : ~SamePacket(s, f)
  BY <1>1 DEF SamePacket
<1>3. HeadOK(f.head)'
  BY <1>1 DEF FrameOK, HeadOK
<1>4. QED
  BY <1>2, <1>3 DEF FrameOK

LEMMA RecordStays ==
  ASSUME NEW s, RecordOK(s),
         \A n \in Nodes : nextId[n] \in Nat /\ nextId'[n] \in Nat /\ nextId[n] <= nextId'[n]
  PROVE  RecordOK(s)'
<1>1. s.from \in Nodes /\ s.id \in Nat /\ s.id < nextId[s.from]
  BY DEF RecordOK
<1>2. s.id < nextId'[s.from]
  BY <1>1
<1>3. QED
  BY <1>1, <1>2 DEF RecordOK

\* What a packet takes of its sender's identifiers.
LEMMA OneMoreId ==
  ASSUME TypeOK, NEW n \in Nodes, nextId' = [nextId EXCEPT ![n] = @ + 1]
  PROVE  /\ \A m \in Nodes : /\ nextId[m] \in Nat /\ nextId'[m] \in Nat
                             /\ nextId[m] <= nextId'[m]
         /\ nextId[n] < nextId'[n]
BY DEF TypeOK

\* A new packet's header.
LEMMA NewHeadOK ==
  ASSUME TypeOK, NEW n \in Nodes, nextId' = [nextId EXCEPT ![n] = @ + 1],
         NEW head, head = FirstHead(n, nextId[n])
  PROVE  HeadOK(head)'
<1>1. nextId[n] \in Nat
  BY DEF TypeOK
<1>2. head.from = n /\ head.id = nextId[n] /\ head.flags \in 0..255
  BY <1>1, FirstHeadOK
<1>3. QED
  BY <1>1, <1>2, OneMoreId DEF HeadOK

\* What Send puts on the air and records, if the text fits.
LEMMA SentFrame ==
  ASSUME TypeOK, NEW n \in Nodes, NEW text \in Texts, Send(n, text)
  PROVE  \/ UNCHANGED <<air, sealedAs>>
         \/ \E f, s : /\ GroupId # 0
                      /\ air' = air \cup {f} /\ sealedAs' = sealedAs \cup {s}
                      /\ s.from = n /\ s.id = nextId[n] /\ s.group = current[n]
                      /\ f = [head |-> FirstHead(n, nextId[n]), body |-> f.body]
                      /\ CarriedBy(f, s)
<1> DEFINE g == current[n]
           head == FirstHead(n, nextId[n])
           env == Seal(g.key, GroupId, g.epoch, head, "Data", text, MAX_PAYLOAD)
           f == [head |-> head, body |-> env.value]
           s == [from |-> n, id |-> nextId[n], group |-> g, text |-> text.name]
<1>1. CASE ~env.ok
  BY <1>1 DEF Send, FirstHead
<1>2. CASE env.ok
  <2>1. air' = air \cup {f} /\ sealedAs' = sealedAs \cup {s}
    BY <1>2 DEF Send, FirstHead
  <2>2. GroupId # 0 /\ MAX_PAYLOAD >= text.size + OVERHEAD
    BY <1>2 DEF Seal, Failed, MAX_PAYLOAD, OVERHEAD, HEADER_BYTES
  <2>3. f.body = [version |-> VERSION, type |-> "Data", groupId |-> GroupId, epoch |-> g.epoch,
                  size |-> text.size + OVERHEAD,
                  sealed |-> [key |-> EpochKey(g.key, g.epoch),
                              nonce |-> Nonce(head.from, head.id, g.epoch),
                              aad |-> AadFromHeader(head), text |-> text.name]]
    BY <1>2 DEF Seal, Failed, Ok
  <2>4. head.from = n /\ head.id = nextId[n]
    BY DEF FirstHead, EncodeHeader, OwnHeader
  <2>5. CarriedBy(f, s)
    <3>1. /\ f.head = head /\ s.from = n /\ s.id = nextId[n] /\ s.group = g
          /\ s.text = text.name
      OBVIOUS
    <3>2. SamePacket(s, f)
      BY <2>4, <3>1 DEF SamePacket
    <3>3. text.size + OVERHEAD \in Nat /\ text.size + OVERHEAD >= OVERHEAD
      BY DEF OVERHEAD, HEADER_BYTES
    <3> HIDE DEF f, s, head, g, env
    <3>4. QED
      BY <2>3, <2>4, <3>1, <3>2, <3>3 DEF CarriedBy, head
  <2>6. f = [head |-> head, body |-> f.body] /\ s.from = n /\ s.id = nextId[n] /\ s.group = g
    OBVIOUS
  <2>7. QED
    BY <2>1, <2>2, <2>5, <2>6
<1>3. QED
  BY <1>1, <1>2

\* A node seals.
LEMMA SendKeepsAir ==
  ASSUME TypeOK, AirOK, NEW n \in Nodes, NEW text \in Texts, Send(n, text)
  PROVE  AirOK'
<1>1. nextId' = [nextId EXCEPT ![n] = @ + 1] /\ current[n] # NoEpoch
  BY DEF Send
<1>2. current[n].key \in Keys /\ current[n].epoch \in Epochs
  BY <1>1 DEF TypeOK, GroupEpochs
<1>3. CASE UNCHANGED <<air, sealedAs>>
  <2>1. ASSUME NEW f \in air PROVE FrameOK(f)'
    BY <1>1, <1>3, OneMoreId, FrameStays DEF AirOK
  <2>2. ASSUME NEW s \in sealedAs PROVE RecordOK(s)'
    BY <1>1, OneMoreId, RecordStays DEF AirOK
  <2>3. QED
    BY <1>3, <2>1, <2>2 DEF AirOK, SealedOnce
<1>4. CASE ~UNCHANGED <<air, sealedAs>>
  <2>1. PICK f, s : /\ GroupId # 0
                    /\ air' = air \cup {f} /\ sealedAs' = sealedAs \cup {s}
                    /\ s.from = n /\ s.id = nextId[n] /\ s.group = current[n]
                    /\ f = [head |-> FirstHead(n, nextId[n]), body |-> f.body]
                    /\ CarriedBy(f, s)
    BY <1>4, SentFrame
  <2>2. ASSUME NEW t \in sealedAs PROVE t.from # s.from \/ t.id # s.id
    BY <2>1 DEF AirOK, RecordOK, TypeOK
  <2>3. SealedOnce'
    BY <2>1, <2>2 DEF AirOK, SealedOnce
  <2>4. ASSUME NEW t \in sealedAs' PROVE RecordOK(t)'
    <3>1. CASE t \in sealedAs
      BY <1>1, <3>1, OneMoreId, RecordStays DEF AirOK
    <3>2. CASE t = s
      <4>1. s.id \in Nat /\ s.id < nextId'[s.from]
        BY <1>1, <2>1, OneMoreId
      <4>2. QED
        BY <1>2, <2>1, <3>2, <4>1 DEF RecordOK
    <3>3. QED
      BY <2>1, <3>1, <3>2
  <2>5. ASSUME NEW h \in air PROVE FrameOK(h)'
    BY <1>1, <2>1, OneMoreId, FrameStays DEF AirOK
  <2>6. FrameOK(f)'
    <3>1. PICK head : head = FirstHead(n, nextId[n])
      OBVIOUS
    <3>2. f.head = head /\ f = [head |-> f.head, body |-> f.body]
      BY <2>1, <3>1
    <3>3. HeadOK(f.head)'
      BY <1>1, <3>1, <3>2, NewHeadOK
    <3>4. QED
      BY <2>1, <3>2, <3>3 DEF FrameOK
  <2>7. QED
    BY <2>1, <2>3, <2>4, <2>5, <2>6 DEF AirOK
<1>5. QED
  BY <1>3, <1>4

\* Another application sends.
LEMMA ForeignKeepsAir ==
  ASSUME TypeOK, AirOK, NEW n \in Nodes, NEW env \in Foreign, SendForeign(n, env)
  PROVE  AirOK'
<1>1. nextId' = [nextId EXCEPT ![n] = @ + 1] /\ UNCHANGED sealedAs
  BY DEF SendForeign
<1>2. PICK f : f = [head |-> FirstHead(n, nextId[n]), body |-> env] /\ air' = air \cup {f}
  BY DEF SendForeign, FirstHead
<1>3. PICK head : head = FirstHead(n, nextId[n])
  OBVIOUS
<1>4. f.head = head /\ f.body = env /\ f = [head |-> f.head, body |-> f.body]
  BY <1>2, <1>3
<1>5. ASSUME NEW s \in sealedAs PROVE ~SamePacket(s, f)
  <2>1. head.from = n /\ head.id = nextId[n]
    BY <1>3 DEF FirstHead, EncodeHeader, OwnHeader
  <2>2. QED
    BY <1>4, <2>1 DEF SamePacket, AirOK, RecordOK, TypeOK
<1>6. HeadOK(f.head)'
  BY <1>1, <1>3, <1>4, NewHeadOK
<1>7. FrameOK(f)'
  BY <1>1, <1>4, <1>5, <1>6 DEF FrameOK
<1>8. ASSUME NEW h \in air PROVE FrameOK(h)'
  BY <1>1, OneMoreId, FrameStays DEF AirOK
<1>9. ASSUME NEW s \in sealedAs PROVE RecordOK(s)'
  BY <1>1, OneMoreId, RecordStays DEF AirOK
<1>10. QED
  BY <1>1, <1>2, <1>7, <1>8, <1>9 DEF AirOK, SealedOnce

\* The invariant of the air.
LEMMA AirInvariant == Spec => []AirOK
<1>1. Init => AirOK
  BY DEF Init, AirOK, SealedOnce
<1>2. TypeOK /\ AirOK /\ [Next]_vars => AirOK'
  <2> SUFFICES ASSUME TypeOK, AirOK, [Next]_vars
               PROVE  AirOK'
    OBVIOUS
  <2>1. CASE UNCHANGED mesh
    BY <2>1 DEF mesh, AirOK, SealedOnce, RecordOK, FrameOK, HeadOK
  <2>2. CASE \E n \in Nodes, text \in Texts : Send(n, text)
    BY <2>2, SendKeepsAir
  <2>3. CASE \E n \in Nodes, env \in Foreign : SendForeign(n, env)
    BY <2>3, ForeignKeepsAir
  <2>4. CASE \E n \in Relays, f \in air : Relay(n, f)
    <3>1. PICK n \in Relays, f \in air : Relay(n, f)
      BY <2>4
    <3>2. PICK g : g = RelayedBy(f, n).value
      OBVIOUS
    <3>3. FrameOK(g)
      BY <3>1, <3>2, RelayedFrame DEF AirOK, Relay
    <3>4. air' = air \cup {g} /\ UNCHANGED <<nextId, sealedAs>>
      BY <3>1, <3>2 DEF Relay
    <3>5. QED
      BY <3>3, <3>4 DEF AirOK, SealedOnce, RecordOK, FrameOK, HeadOK
  <2>5. QED
    BY <2>1, <2>2, <2>3, <2>4
       DEF Next, AddMember, RemoveMember, NewEpoch, Rotate, Invite, Accept, vars
<1>3. QED
  BY <1>1, <1>2, TypeCorrect, PTL DEF Spec
----------------------------------------------------------------------------
(* Who opens what.                                                           *)

\* No two packets have the same nonce under one key: identifiers are a sender's
\* own and the sender is in the nonce (groups/src/lib.rs:215-224).
THEOREM NoNonceTwice == Spec => []NoncesAreFresh
<1>1. AirOK => NoncesAreFresh
  <2> SUFFICES ASSUME AirOK, NEW f \in air, NEW g \in air,
                      f.body \notin Foreign, g.body \notin Foreign,
                      f.body.sealed.nonce = g.body.sealed.nonce,
                      f.body.sealed.key = g.body.sealed.key
               PROVE  f.body.sealed = g.body.sealed
    BY DEF NoncesAreFresh
  <2>1. PICK s \in sealedAs : CarriedBy(f, s)
    BY DEF AirOK, FrameOK
  <2>2. PICK t \in sealedAs : CarriedBy(g, t)
    BY DEF AirOK, FrameOK
  <2>3. /\ f.body.sealed.nonce = <<s.from, s.id, s.group.epoch>>
        /\ g.body.sealed.nonce = <<t.from, t.id, t.group.epoch>>
    BY <2>1, <2>2 DEF CarriedBy, Nonce
  <2>4. s.from = t.from /\ s.id = t.id
    <3>1. <<s.from, s.id, s.group.epoch>> = <<t.from, t.id, t.group.epoch>>
      BY <2>3, Zenon
    <3>2. QED
      BY <3>1
  <2>5. s = t
    BY <2>4 DEF AirOK, SealedOnce
  <2>6. QED
    BY <2>1, <2>2, <2>5 DEF CarriedBy
<1>2. QED
  BY <1>1, AirInvariant, PTL

\* What another application sends opens for nobody.
LEMMA ForeignIsRefused ==
  ASSUME TypeOK, NEW n \in Nodes, NEW f, f.body \in Foreign
  PROVE  ~Opens(n, f)
<1> SUFFICES ASSUME NEW key \in known[n], OpenInPlace(key, f.head, f.body).ok
             PROVE  FALSE
  BY DEF Opens
<1>1. key \in Keys
  BY DEF TypeOK
<1>2. f.body.sealed.key = EpochKey(key, f.body.epoch)
  <2>1. Parse(f.body).ok
    BY DEF OpenInPlace
  <2>2. QED
    BY <2>1 DEF OpenInPlace, Failed
<1>3. QED
  BY <1>1, <1>2, ForeignAssumption

\* What was sealed opens under the group key it was sealed under, and no other.
LEMMA OpensUnderItsKey ==
  ASSUME AirOK, NEW n, NEW f \in air, NEW s \in sealedAs, CarriedBy(f, s)
  PROVE  Opens(n, f) <=> s.group.key \in known[n]
<1>1. Parse(f.body) = Ok(f.body)
  <2>1. f.body.groupId # 0 /\ f.body.version = VERSION /\ f.body.type \in MsgTypes
    BY DEF CarriedBy, AirOK, MsgTypes
  <2>2. ~(f.body.size < OVERHEAD)
    BY DEF CarriedBy, OVERHEAD, HEADER_BYTES
  <2>3. QED
    BY <2>1, <2>2 DEF Parse
<1>2. Parse(f.body).ok
  BY <1>1 DEF Ok
<1>3. AadFromHeader(f.head) = AadFromHeader(FirstHead(s.from, s.id))
  BY DEF AirOK, FrameOK, HeadOK, CarriedBy, SamePacket
<1>4. /\ f.body.sealed.nonce = Nonce(f.head.from, f.head.id, f.body.epoch)
      /\ f.body.sealed.aad = AadFromHeader(f.head)
      /\ f.body.sealed.key = EpochKey(s.group.key, f.body.epoch)
  BY <1>3 DEF CarriedBy, SamePacket
<1>5. ASSUME NEW key PROVE OpenInPlace(key, f.head, f.body).ok <=> key = s.group.key
  <2>1. OpenInPlace(key, f.head, f.body).ok <=> f.body.sealed.key = EpochKey(key, f.body.epoch)
    BY <1>2, <1>4 DEF OpenInPlace, Ok, Failed
  <2>2. QED
    BY <1>4, <2>1 DEF EpochKey
<1>6. f.body.groupId = GroupId
  BY DEF CarriedBy
<1>7. QED
  BY <1>5, <1>6 DEF Opens

\* A node opens exactly what was sealed under a group key it has, however often it
\* was relayed; what another application sends opens for nobody
\* (groups/src/lib.rs:155-181, 401-431).
THEOREM OpensExactly == Spec => []OpensWhatWasSealed
<1>1. TypeOK /\ AirOK => OpensWhatWasSealed
  <2> SUFFICES ASSUME TypeOK, AirOK, NEW n \in Nodes, NEW f \in air
               PROVE  Opens(n, f) <=>
                        \E s \in sealedAs : /\ s.from = f.head.from /\ s.id = f.head.id
                                            /\ s.group.key \in known[n]
                                            /\ f.body.sealed.text = s.text
    BY DEF OpensWhatWasSealed
  <2>1. CASE f.body \in Foreign /\ \A s \in sealedAs : ~SamePacket(s, f)
    BY <2>1, ForeignIsRefused DEF SamePacket
  <2>2. CASE \E s \in sealedAs : CarriedBy(f, s)
    <3>1. PICK s \in sealedAs : CarriedBy(f, s)
      BY <2>2
    <3>2. s.from = f.head.from /\ s.id = f.head.id /\ f.body.sealed.text = s.text
      BY <3>1 DEF CarriedBy, SamePacket
    <3>3. \A t \in sealedAs : t.from = f.head.from /\ t.id = f.head.id => t = s
      BY <3>2 DEF AirOK, SealedOnce
    <3>4. QED
      BY <3>1, <3>2, <3>3, OpensUnderItsKey
  <2>3. QED
    BY <2>1, <2>2 DEF AirOK, FrameOK
<1>2. QED
  BY <1>1, AirInvariant, TypeCorrect, PTL
----------------------------------------------------------------------------
(* Who has which group key.  Members are in no shut-out set, so that no      *)
(* invite brings a node a key it is shut out of.                             *)
KeysOK ==
  /\ Owner \notin former /\ former \cap MemberSet = {}
  /\ \A k \in Keys : Owner \notin shutOut[k] /\ shutOut[k] \cap MemberSet = {}
  /\ \A n \in Nodes : \A k \in known[n] : k <= groupKey /\ n \notin shutOut[k]
  /\ \A i \in invites : i.key <= groupKey /\ i.to \notin shutOut[i.key]

\* The owner takes a key nobody was sent yet, or one it has.
LEMMA KeysStep ==
  ASSUME RosterOK, TypeOK, KeysOK, [Next]_vars
  PROVE  KeysOK'
<1>1. CASE \E a \in Nodes, n \in Nodes, key \in PublicKeys : AddMember(a, n, key)
  <2>1. PICK a \in Nodes, n \in Nodes, key \in PublicKeys : AddMember(a, n, key)
    BY <1>1
  <2>2. MemberSet' = MemberSet \cup {n}
    BY <2>1, AddLemma DEF AddMember
  <2>3. /\ former' = former \ {n} /\ shutOut' = [k \in Keys |-> shutOut[k] \ {n}]
        /\ UNCHANGED <<groupKey, invites, known>>
    BY <2>1 DEF AddMember, caller
  <2>4. \A k \in Keys : shutOut'[k] = shutOut[k] \ {n}
    BY <2>3
  <2>5. /\ \A m \in Nodes : \A k \in known[m] : k \in Keys
        /\ \A i \in invites : i.key \in Keys
    BY DEF TypeOK
  <2>6. QED
    BY <2>2, <2>3, <2>4, <2>5 DEF KeysOK
<1>2. CASE \E a \in Nodes, n \in Nodes : RemoveMember(a, n)
  <2>1. PICK a \in Nodes, n \in Nodes : RemoveMember(a, n)
    BY <1>2
  <2>2. MemberSet' = MemberSet \ {n}
    BY <2>1, RemoveLemma DEF RemoveMember
  <2>3. former' = former \cup ({n} \ {Owner}) /\ UNCHANGED <<groupKey, invites, known, shutOut>>
    BY <2>1 DEF RemoveMember, caller
  <2>4. QED
    BY <2>2, <2>3 DEF KeysOK
<1>3. CASE \E a \in Nodes : NewEpoch(a)
  <2>1. PICK a \in Nodes : NewEpoch(a)
    BY <1>3
  <2>2. MemberSet' = MemberSet
    BY <2>1, BumpLemma DEF NewEpoch
  <2>3. /\ known' = [known EXCEPT ![Owner] = @ \cup {groupKey}]
        /\ UNCHANGED <<groupKey, invites, former, shutOut>>
    BY <2>1 DEF NewEpoch, OwnerUses
  <2>4. \A n \in Nodes : \A k \in known'[n] : k \in known[n] \/ (n = Owner /\ k = groupKey)
    BY <2>3 DEF TypeOK
  <2>5. QED
    BY <2>2, <2>3, <2>4 DEF KeysOK, TypeOK, Keys
<1>4. CASE Rotate
  <2>1. MemberSet' = MemberSet
    BY <1>4, IdleLemma DEF Rotate
  <2>2. /\ groupKey' = groupKey + 1 /\ groupKey' \in Keys
        /\ known' = [known EXCEPT ![Owner] = @ \cup {groupKey'}]
        /\ shutOut' = [shutOut EXCEPT ![groupKey'] = former]
        /\ UNCHANGED <<invites, former>>
    BY <1>4 DEF Rotate, OwnerUses, TypeOK, Keys
  <2>3. \A n \in Nodes : \A k \in known'[n] : k \in known[n] \/ (n = Owner /\ k = groupKey')
    BY <2>2 DEF TypeOK
  <2>4. \A k \in Keys : shutOut'[k] = IF k = groupKey' THEN former ELSE shutOut[k]
    BY <2>2 DEF TypeOK
  <2>5. /\ \A n \in Nodes : \A k \in known[n] : k \in Keys
        /\ \A i \in invites : i.key \in Keys
        /\ groupKey \in Int /\ Keys \subseteq Int
    BY DEF TypeOK, Keys
  <2>6. QED
    BY <2>1, <2>2, <2>3, <2>4, <2>5 DEF KeysOK
<1>5. CASE \E n \in Nodes : Invite(n)
  <2>1. PICK n \in Nodes : Invite(n)
    BY <1>5
  <2>2. MemberSet' = MemberSet
    BY <2>1, IdleLemma DEF Invite
  <2>3. n \in MemberSet
    BY <2>1 DEF Invite, Contains, SlotsOf, MemberSet
  <2>4. /\ invites' = invites \cup {[to |-> n, key |-> groupKey, epoch |-> epoch]}
        /\ UNCHANGED <<groupKey, known, former, shutOut>>
    BY <2>1 DEF Invite, ghosts
  <2>5. groupKey \in Keys /\ groupKey <= groupKey
    BY DEF TypeOK, Keys
  <2>6. QED
    BY <2>2, <2>3, <2>4, <2>5 DEF KeysOK
<1>6. CASE \E i \in invites : Accept(i)
  <2>1. PICK i \in invites : Accept(i)
    BY <1>6
  <2>2. MemberSet' = MemberSet
    BY <2>1, IdleLemma DEF Accept
  <2>3. /\ known' = [known EXCEPT ![i.to] = @ \cup {i.key}]
        /\ UNCHANGED <<groupKey, invites, former, shutOut>>
    BY <2>1 DEF Accept, ghosts
  <2>4. \A n \in Nodes : \A k \in known'[n] : k \in known[n] \/ (n = i.to /\ k = i.key)
    BY <2>3 DEF TypeOK
  <2>5. QED
    BY <2>1, <2>2, <2>3, <2>4 DEF KeysOK
<1>7. CASE UNCHANGED <<roster, groupKey, invites, known, former, shutOut>>
  <2>1. MemberSet' = MemberSet
    BY <1>7, IdleLemma
  <2>2. QED
    BY <1>7, <2>1 DEF KeysOK
<1>8. QED
  BY <1>1, <1>2, <1>3, <1>4, <1>5, <1>6, <1>7
     DEF Next, Send, SendForeign, Relay, vars, caller, ghosts

LEMMA KeysInvariant == Spec => []KeysOK
<1>1. Init => KeysOK
  BY InitOK, BoundsAssumption, NodesAssumption
     DEF Init, KeysOK, Keys, MemberSet, RosterInit, Empty, Member
<1>2. QED
  BY <1>1, KeysStep, RosterInvariant, TypeCorrect, PTL DEF Spec

\* Who had been removed when a group key came into use opens nothing sealed under
\* it, from whomever and however late an invite or a frame comes, until it is added
\* again (groups/src/lib.rs:513-571).
THEOREM ShutOutOfTheKey == Spec => []RotationRevokes
<1>1. TypeOK /\ AirOK /\ KeysOK => RotationRevokes
  <2> SUFFICES ASSUME TypeOK, AirOK, KeysOK, NEW s \in sealedAs, NEW f \in air, SamePacket(s, f),
                      NEW n \in shutOut[s.group.key]
               PROVE  ~Opens(n, f)
    BY DEF RotationRevokes, SamePacket
  <2>1. s.group.key \in Keys /\ n \in Nodes
    BY DEF AirOK, RecordOK, TypeOK
  <2>2. s.group.key \notin known[n]
    BY <2>1 DEF KeysOK
  <2>3. PICK t \in sealedAs : CarriedBy(f, t)
    BY DEF AirOK, FrameOK
  <2>4. t = s
    BY <2>3 DEF AirOK, SealedOnce, CarriedBy, SamePacket
  <2>5. QED
    BY <2>2, <2>3, <2>4, OpensUnderItsKey
<1>2. QED
  BY <1>1, AirInvariant, KeysInvariant, TypeCorrect, PTL
=============================================================================
