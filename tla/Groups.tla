------------------------------- MODULE Groups -------------------------------
(***************************************************************************)
(* groups/src/lib.rs: messages sealed for a group, on the mesh of Header,    *)
(* and the roster that says who is invited.  Sealing is abstract: a sealed   *)
(* text names the key, the nonce and the header fields it opens under, and   *)
(* opens under no others.                                                    *)
(*                                                                         *)
(* What a caller does with the library is that of SPEC.md, sections 5 and 6: *)
(* the owner sends members the group key and the epoch, renews the key when  *)
(* it chooses to, and a node seals with the last it was sent.  Invites and   *)
(* frames arrive in any order, late, repeatedly or never, and nodes relay    *)
(* frames whether or not they belong to the group.                           *)
(***************************************************************************)
EXTENDS Header, Roster

CONSTANTS
  GroupId,     \* the group's number
  Texts,       \* what can be sent: a name and a length
  HopStart,    \* hop limit of a new frame
  ChannelHash, \* the carrying channel
  Relays,      \* nodes that relay frames
  Foreign,     \* payloads of other applications on the same port number
  MaxKeys,     \* bound: renewals of the group key
  MaxIds,      \* bound: per node, the packets it sends
  MaxInvites   \* bound: invites on the air

VARIABLES
  groupKey,    \* K_group of the owner: how often it was renewed
  invites,     \* invites on the air
  known,       \* per node, the group keys it has
  current,     \* per node, the GroupEpoch it seals with: key and epoch, or none
  air,         \* frames on the air
  nextId,      \* per node, its next packet id
  sealedAs,    \* what was sealed, by whom, in which packet
  former,      \* nodes but the owner that were removed and not added again
  shutOut,     \* per group key, nodes that were former when it came into use
  revoked      \* per group key and epoch, nodes that were former when it came into use

caller == <<groupKey, invites, known, current>>
mesh == <<air, nextId, sealedAs>>
ghosts == <<former, shutOut, revoked>>
vars == <<roster, caller, mesh, ghosts>>

ASSUME BoundsAssumption == MaxKeys \in Nat /\ MaxIds \in [Nodes -> Nat] /\ HopStart \in 0..7
ASSUME TextsAssumption == \A text \in Texts : text.size \in Nat

VERSION == 1
HEADER_BYTES == 7
OVERHEAD == HEADER_BYTES + 8
MsgTypes == {"Data", "Invite", "Revoke", "Roster", "Leave"}
NoEpoch == [key |-> -1, epoch |-> 0]
Keys == 0..MaxKeys
Epochs == 0..MaxEpoch

\* Mutant: the whole header is authenticated.
WholeHeader(w) == w

\* The fields no relay changes.
AadFromHeader(w) == [to |-> w.to, from |-> w.from, id |-> w.id,
                     flags |-> w.flags - (w.flags % 8), channel |-> w.channel]

\* Mutant: the epoch alone makes the key.
EpochOnly(key, e) == <<0, e>>

\* SHA-256 of the two and a label: no two pairs have the same.
EpochKey(key, e) == <<key, e>>

\* Mutant: the sender is left out.
NonceOfId(from, id, e) == <<id, e>>

Nonce(from, id, e) == <<from, id, e>>

Seal(key, groupId, e, head, type, text, room) ==
  IF groupId = 0 THEN Failed("BadGroupId")
  ELSE IF room < text.size + OVERHEAD THEN Failed("BufferTooSmall")
  ELSE Ok([version |-> VERSION, type |-> type, groupId |-> groupId, epoch |-> e,
           size |-> text.size + OVERHEAD,
           sealed |-> [key |-> EpochKey(key, e), nonce |-> Nonce(head.from, head.id, e),
                       aad |-> AadFromHeader(head), text |-> text.name]])

Parse(env) ==
  IF env.size < OVERHEAD THEN Failed("Malformed")
  ELSE IF env.version # VERSION THEN Failed("UnsupportedVersion")
  ELSE IF env.type \notin MsgTypes THEN Failed("Malformed")
  ELSE IF env.groupId = 0 THEN Failed("BadGroupId")
  ELSE Ok(env)

\* The epoch is the envelope's own, the group key the caller's.
OpenInPlace(key, head, env) ==
  IF ~Parse(env).ok THEN Parse(env)
  ELSE IF /\ env.sealed.key = EpochKey(key, env.epoch)
          /\ env.sealed.nonce = Nonce(head.from, head.id, env.epoch)
          /\ env.sealed.aad = AadFromHeader(head)
       THEN Ok(env.sealed.text)
       ELSE Failed("Unauthentic")

\* What others send is not sealed under this group's keys.
ASSUME ForeignAssumption ==
  \A env \in Foreign, key \in Keys : env.sealed.key # EpochKey(key, env.epoch)

\* A receiver tries the keys it has on what is for its group.
Opens(n, f) == f.body.groupId = GroupId /\
               \E key \in known[n] : OpenInPlace(key, f.head, f.body).ok
----------------------------------------------------------------------------
Init == /\ RosterInit
        /\ groupKey = 0
        /\ invites = {}
        /\ known = [n \in Nodes |-> IF n = Owner THEN {0} ELSE {}]
        /\ current = [n \in Nodes |-> IF n = Owner THEN [key |-> 0, epoch |-> 0] ELSE NoEpoch]
        /\ air = {}
        /\ nextId = [n \in Nodes |-> 0]
        /\ sealedAs = {}
        /\ former = {}
        /\ shutOut = [k \in Keys |-> {}]
        /\ revoked = [k \in Keys |-> [e \in Epochs |-> {}]]

\* The owner's own GroupEpoch.
OwnerUses(key, e) == /\ known' = [known EXCEPT ![Owner] = @ \cup {key}]
                     /\ current' = [current EXCEPT ![Owner] = [key |-> key, epoch |-> e]]

AddMember(actor, n, key) ==
  /\ Add(actor, n, key)
  /\ former' = former \ {n}
  /\ shutOut' = [k \in Keys |-> shutOut[k] \ {n}]
  /\ revoked' = [k \in Keys |-> [e \in Epochs |-> revoked[k][e] \ {n}]]
  /\ UNCHANGED <<caller, mesh>>

RemoveMember(actor, n) == /\ Remove(actor, n)
                          /\ former' = former \cup ({n} \ {Owner})
                          /\ UNCHANGED <<caller, mesh, shutOut, revoked>>

NewEpoch(actor) == /\ BumpEpoch(actor)
                   /\ OwnerUses(groupKey, epoch')
                   /\ revoked' = [revoked EXCEPT ![groupKey][epoch'] = former]
                   /\ UNCHANGED <<groupKey, invites, mesh, former, shutOut>>

\* The owner takes a new group key.
Rotate == /\ groupKey < MaxKeys
          /\ groupKey' = groupKey + 1
          /\ OwnerUses(groupKey', epoch)
          /\ shutOut' = [shutOut EXCEPT ![groupKey'] = former]
          /\ revoked' = [revoked EXCEPT ![groupKey'][epoch] = former]
          /\ UNCHANGED <<roster, invites, mesh, former>>

\* An invite to one member.
Invite(n) == /\ Contains(n)
             /\ Cardinality(invites) < MaxInvites
             /\ invites' = invites \cup {[to |-> n, key |-> groupKey, epoch |-> epoch]}
             /\ UNCHANGED <<roster, groupKey, known, current, mesh, ghosts>>

Accept(i) == /\ i \in invites
             /\ known' = [known EXCEPT ![i.to] = @ \cup {i.key}]
             /\ current' = [current EXCEPT ![i.to] = [key |-> i.key, epoch |-> i.epoch]]
             /\ UNCHANGED <<roster, groupKey, invites, mesh, ghosts>>

\* A node seals a text for the group and sends it to all.
Send(n, text) ==
  /\ current[n] # NoEpoch
  /\ nextId[n] < MaxIds[n]
  /\ nextId' = [nextId EXCEPT ![n] = @ + 1]
  /\ LET g == current[n]
         head == EncodeHeader(OwnHeader(n, BROADCAST_ADDR, nextId[n], HopStart, ChannelHash, FALSE))
         env == Seal(g.key, GroupId, g.epoch, head, "Data", text, MAX_PAYLOAD)
     IN  IF env.ok
         THEN /\ air' = air \cup {[head |-> head, body |-> env.value]}
              /\ sealedAs' = sealedAs \cup
                   {[from |-> n, id |-> nextId[n], group |-> g, text |-> text.name]}
         ELSE UNCHANGED <<air, sealedAs>>
  /\ UNCHANGED <<roster, caller, ghosts>>

\* Another application uses the port number.
SendForeign(n, env) ==
  /\ nextId[n] < MaxIds[n]
  /\ nextId' = [nextId EXCEPT ![n] = @ + 1]
  /\ LET head == EncodeHeader(OwnHeader(n, BROADCAST_ADDR, nextId[n], HopStart, ChannelHash, FALSE))
     IN  air' = air \cup {[head |-> head, body |-> env]}
  /\ UNCHANGED <<roster, caller, sealedAs, ghosts>>

Relay(n, f) == /\ f \in air /\ f.head.from # n
               /\ RelayedBy(f, n).ok
               /\ air' = air \cup {RelayedBy(f, n).value}
               /\ UNCHANGED <<roster, caller, nextId, sealedAs, ghosts>>

Next == \/ \E a \in Nodes, n \in Nodes, key \in PublicKeys : AddMember(a, n, key)
        \/ \E a \in Nodes, n \in Nodes : RemoveMember(a, n)
        \/ \E a \in Nodes : NewEpoch(a)
        \/ Rotate
        \/ \E n \in Nodes : Invite(n)
        \/ \E i \in invites : Accept(i)
        \/ \E n \in Nodes : \/ \E text \in Texts : Send(n, text)
                            \/ \E env \in Foreign : SendForeign(n, env)
        \/ \E n \in Relays, f \in air : Relay(n, f)

Spec == Init /\ [][Next]_vars
----------------------------------------------------------------------------
GroupEpochs == [key : Keys, epoch : Epochs] \cup {NoEpoch}

TypeOK == /\ RosterType
          /\ groupKey \in Keys
          /\ invites \subseteq [to : Nodes, key : Keys, epoch : Epochs]
          /\ known \in [Nodes -> SUBSET Keys]
          /\ current \in [Nodes -> GroupEpochs]
          /\ nextId \in [Nodes -> Nat]
          /\ former \subseteq Nodes
          /\ shutOut \in [Keys -> SUBSET Nodes]
          /\ revoked \in [Keys -> [Epochs -> SUBSET Nodes]]

\* The roster is the set of members that Membership promises, whatever slots they
\* are in: full only when there are Capacity members, and changed by the owner
\* alone (lib.rs:503-571).
ImplementsMembership == Abstract!Spec

\* A group key and epoch that another has taken the place of do not come back
\* (lib.rs:554-565).
EpochKeyNeverReturns ==
  [][/\ groupKey' >= groupKey
     /\ groupKey' = groupKey => epoch' >= epoch]_<<groupKey, epoch>>

\* No nonce is used twice under one key: identifiers are those of a sender only,
\* and members seal at the epoch they were told of, however old (lib.rs:215-224).
NoncesAreFresh ==
  \A f, g \in air :
    /\ f.body \notin Foreign /\ g.body \notin Foreign
    /\ f.body.sealed.key = g.body.sealed.key /\ f.body.sealed.nonce = g.body.sealed.nonce
    => f.body.sealed = g.body.sealed

\* A node opens exactly what was sealed under a group key it has: however often
\* it was relayed, under whatever epoch, and as its sender sealed it; nothing else
\* on the port number opens (lib.rs:155-181, 401-431).
OpensWhatWasSealed ==
  \A n \in Nodes, f \in air : Opens(n, f) <=>
    \E s \in sealedAs : /\ s.from = f.head.from /\ s.id = f.head.id
                        /\ s.group.key \in known[n]
                        /\ f.body.sealed.text = s.text

\* A node that had been removed when a group key came into use opens nothing under
\* it until it is added again: invites still on the air are for earlier keys.
RotationRevokes ==
  \A s \in sealedAs, f \in air : s.from = f.head.from /\ s.id = f.head.id =>
    \A n \in shutOut[s.group.key] : ~Opens(n, f)

\* A node that had been removed when an epoch began opens nothing of that epoch
\* until it is added again (SPEC.md:233, "a revoked member cannot read anything
\* sent under a later epoch").
BumpRevokes ==
  \A s \in sealedAs, f \in air : s.from = f.head.from /\ s.id = f.head.id =>
    \A n \in revoked[s.group.key][s.group.epoch] : ~Opens(n, f)
=============================================================================
