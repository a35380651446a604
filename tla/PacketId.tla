------------------------------ MODULE PacketId ------------------------------
(***************************************************************************)
(* code/protocol/packet_id.rs: PacketIdSource, the counter that issues the  *)
(* packet identifiers of one node, with the caller that owns its storage.   *)
(*                                                                         *)
(* The source reserves identifiers in blocks.  It issues only below a       *)
(* high-water mark the caller has confirmed to be durable; otherwise it     *)
(* answers PersistFirst and issues nothing.  The caller stores the mark,    *)
(* confirms it (persisted) and asks again.  Power may fail between any two   *)
(* of these steps: the source is lost and the next start resumes from       *)
(* whatever mark the storage holds, or from a fresh seed when no mark was    *)
(* ever written.                                                            *)
(***************************************************************************)
EXTENDS Naturals, Sequences

CONSTANTS
  MaxId,          \* u32::MAX
  Blocks,         \* the block sizes a start may be configured with, 0 included
  DefaultBlock,   \* DEFAULT_BLOCK, taken when the caller passes 0
  Seeds,          \* the seeds a first start may draw from its entropy
  NoMark          \* what the storage holds before the first write

ASSUME MaxIdAssumption == MaxId \in Nat
ASSUME BlocksAssumption == Blocks \subseteq Nat
ASSUME DefaultBlockAssumption == DefaultBlock \in Nat \ {0}
ASSUME SeedsAssumption == Seeds \subseteq 0..MaxId
ASSUME NoMarkAssumption == NoMark \notin Nat

VARIABLES
  next,       \* PacketIdSource.next
  blockEnd,   \* PacketIdSource.block_end
  block,      \* PacketIdSource.block
  outcome,    \* the last NextId the caller was given, NoOutcome after a start
  durable,    \* the high-water mark in the caller's storage
  written,    \* every mark the storage ever held
  log         \* every identifier issued, across restarts, oldest first

vars == <<next, blockEnd, block, outcome, durable, written, log>>

Ids == 0..MaxId

(***************************************************************************)
(* NextId                                                                  *)
(***************************************************************************)
NoOutcome == [kind |-> "None", value |-> 0]
Ready(id) == [kind |-> "Ready", value |-> id]
PersistFirst(highWater) == [kind |-> "PersistFirst", value |-> highWater]
Exhausted == [kind |-> "Exhausted", value |-> 0]

Kinds == {"None", "Ready", "PersistFirst", "Exhausted"}

(***************************************************************************)
(* resume(high_water, block)                                               *)
(***************************************************************************)
EffectiveBlock(b) == IF b = 0 THEN DefaultBlock ELSE b

\* Mutant: the rest of the block counts as reserved after a start.
ResumeReserved(highWater, b) == /\ next' = highWater
                                /\ blockEnd' = highWater + EffectiveBlock(b)
                                /\ block' = EffectiveBlock(b)

Resume(highWater, b) == /\ next' = highWater
                        /\ blockEnd' = highWater
                        /\ block' = EffectiveBlock(b)

Init == /\ \E s \in Seeds, b \in Blocks : /\ next = s
                                          /\ blockEnd = s
                                          /\ block = EffectiveBlock(b)
        /\ outcome = NoOutcome
        /\ durable = NoMark
        /\ written = {}
        /\ log = <<>>

(***************************************************************************)
(* issue: one action per arm.                                              *)
(***************************************************************************)

\* Mutant: two blocks are reserved at once.
HighWaterTwice == IF next + 2 * block <= MaxId THEN next + 2 * block ELSE MaxId

\* The mark to store next.  Near the end of the space the block is cut short:
\* next + block would overflow the u32, so the mark is u32::MAX itself.
HighWater == IF next + block <= MaxId THEN next + block ELSE MaxId

IssueReady == /\ next < blockEnd
              /\ outcome' = Ready(next)
              /\ log' = Append(log, next)
              /\ next' = next + 1
              /\ UNCHANGED <<blockEnd, block, durable, written>>

\* Mutant: the block is used while it is still being stored.
IssueWhileStoring == /\ next >= blockEnd
                     /\ next < MaxId
                     /\ outcome' = PersistFirst(HighWater)
                     /\ blockEnd' = HighWater
                     /\ log' = Append(log, next)
                     /\ next' = next + 1
                     /\ UNCHANGED <<block, durable, written>>

IssuePersistFirst == /\ next >= blockEnd
                     /\ next < MaxId
                     /\ outcome' = PersistFirst(HighWater)
                     /\ UNCHANGED <<next, blockEnd, block, durable, written, log>>

IssueExhausted == /\ next >= blockEnd
                  /\ next = MaxId
                  /\ outcome' = Exhausted
                  /\ UNCHANGED <<next, blockEnd, block, durable, written, log>>

Issue == IssueReady \/ IssuePersistFirst \/ IssueExhausted

(***************************************************************************)
(* persisted(high_water), which ignores a mark that is not ahead.  The      *)
(* caller only confirms marks its storage took, but may confirm any of them *)
(* again, and late.                                                        *)
(***************************************************************************)
\* Mutant: a mark only one ahead is taken for a stale one.
PersistedTooStrict(highWater) ==
  /\ highWater \in written
  /\ blockEnd' = IF highWater > blockEnd + 1 THEN highWater ELSE blockEnd
  /\ UNCHANGED <<next, block, outcome, durable, written, log>>

Persisted(highWater) ==
  /\ highWater \in written
  /\ blockEnd' = IF highWater > blockEnd THEN highWater ELSE blockEnd
  /\ UNCHANGED <<next, block, outcome, durable, written, log>>

(***************************************************************************)
(* The caller's storage, and the power.                                    *)
(***************************************************************************)

\* The write PersistFirst asked for reaches the storage.
Store == /\ outcome.kind = "PersistFirst"
         /\ durable' = outcome.value
         /\ written' = written \cup {outcome.value}
         /\ UNCHANGED <<next, blockEnd, block, outcome, log>>

\* Power is lost and the node starts again.
Restart == /\ \E b \in Blocks :
                IF durable = NoMark THEN \E s \in Seeds : Resume(s, b)
                                    ELSE Resume(durable, b)
           /\ outcome' = NoOutcome
           /\ UNCHANGED <<durable, written, log>>

Next == \/ IssueReady
        \/ IssuePersistFirst
        \/ IssueExhausted
        \/ \E mark \in written : Persisted(mark)
        \/ Store
        \/ Restart

Spec == Init /\ [][Next]_vars

\* A caller that keeps asking for identifiers follows the protocol of NextId:
\* it stores the mark it was asked to store and confirms it.  Restarting is
\* never owed, and neither is a stale confirmation.
Fairness == /\ WF_vars(Issue)
            /\ WF_vars(Store)
            /\ WF_vars(outcome.kind = "PersistFirst" /\ Persisted(outcome.value))

FairSpec == Spec /\ Fairness

(***************************************************************************)
(* Properties.                                                             *)
(***************************************************************************)

\* Type invariant: no mark and no counter leaves the u32 (packet_id.rs:135
\* argues that next cannot overflow), and a block is never empty.
TypeOK == /\ next \in Ids
          /\ blockEnd \in Ids
          /\ block \in Nat \ {0}
          /\ outcome \in [kind : Kinds, value : Ids]
          /\ durable \in Ids \cup {NoMark}
          /\ written \subseteq Ids
          /\ log \in Seq(Ids)

\* "Identifiers are only ever issued below a value already durably stored"
\* (packet_id.rs:36): at every instant, so also at the one power is lost, the
\* storage holds a mark above everything ever issued.
IssuedBelowDurable ==
  \A i \in 1..Len(log) : durable # NoMark /\ log[i] < durable

\* An identifier, once issued, is never issued again, by this start of the node
\* or any later one: the identifiers form an increasing stream.
IdStreamSpec == INSTANCE IdStream
NeverReissued == IdStreamSpec!Spec

\* "A power loss at any instant can lose at most the unissued remainder of a
\* block" (packet_id.rs:37): once a mark was stored, a restart skips no more
\* identifiers than the block the node was running with.
RestartSkipsAtMostABlock ==
  [][Restart /\ durable # NoMark => next' - next <= block]_vars

\* A caller that follows the protocol is not stuck at PersistFirst: if power
\* stays on from some point, it is given identifiers, or told they are used up.
PowerStaysOn == <>[][~Restart]_vars
KeepsAnswering ==
  PowerStaysOn => []<>(outcome.kind \in {"Ready", "Exhausted"})
=============================================================================
