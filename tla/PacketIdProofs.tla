--------------------------- MODULE PacketIdProofs ---------------------------
(***************************************************************************)
(* What PacketId promises for every u32 width, block size and seed.         *)
(*                                                                         *)
(* IssuedBelowDurable is not inductive: it says nothing of the marks that   *)
(* are reserved but not issued, and those are what the next identifier is   *)
(* taken from.  IInv adds the order of the counter, the reservation and the *)
(* storage, next <= blockEnd <= durable, and how far ahead the storage can  *)
(* be, durable <= next + block.                                            *)
(***************************************************************************)
EXTENDS PacketId, TLAPS

USE MaxIdAssumption, BlocksAssumption, DefaultBlockAssumption,
    SeedsAssumption, NoMarkAssumption

\* Before the first write nothing is reserved, so nothing was issued.
FirstStart == durable = NoMark => /\ written = {}
                                  /\ log = <<>>
                                  /\ next = blockEnd

\* The reservation is backed by the storage, at most one block ahead of use.
Reserved == durable # NoMark => /\ blockEnd <= durable
                                /\ durable <= next + block

\* The mark the caller was asked to store is the one that would be asked again.
AskedMark == outcome.kind = "PersistFirst" => /\ outcome.value = HighWater
                                              /\ next < MaxId

\* No mark the storage ever held is above the one it holds.
WrittenBelow == \A w \in written : durable # NoMark /\ w <= durable

IssuedBelowNext == \A i \in 1..Len(log) : log[i] < next

IInv == /\ TypeOK
        /\ next <= blockEnd
        /\ FirstStart
        /\ Reserved
        /\ AskedMark
        /\ WrittenBelow
        /\ IssuedBelowNext

\* resume never runs with an empty block: a zero is replaced by the default.
LEMMA EffectiveBlockPositive ==
  ASSUME NEW b \in Blocks
  PROVE  EffectiveBlock(b) \in Nat \ {0}
BY DEF EffectiveBlock

\* Short of the end of the space, the mark asked for is ahead of the counter,
\* at most a block ahead, and a u32.
LEMMA HighWaterAhead ==
  ASSUME next \in Ids, block \in Nat \ {0}, next < MaxId
  PROVE  /\ HighWater \in Ids
         /\ next < HighWater
         /\ HighWater <= next + block
BY DEF HighWater, Ids

\* A reserved mark is at most the next mark the source would ask for.
LEMMA ReservedBelowHighWater ==
  ASSUME next \in Ids, block \in Nat \ {0}, NEW m \in Ids, m <= next + block
  PROVE  m <= HighWater
BY DEF HighWater, Ids

LEMMA InitIInv == Init => IInv
<1> SUFFICES ASSUME Init PROVE IInv
  OBVIOUS
<1>1. PICK s \in Seeds, b \in Blocks : /\ next = s
                                       /\ blockEnd = s
                                       /\ block = EffectiveBlock(b)
  BY DEF Init
<1>2. TypeOK
  BY <1>1, EffectiveBlockPositive DEF Init, TypeOK, NoOutcome, Kinds, Ids
<1>3. QED
  BY <1>1, <1>2 DEF Init, IInv, FirstStart, Reserved, AskedMark, WrittenBelow,
                    IssuedBelowNext, NoOutcome, TypeOK, Ids

LEMMA NextIInv == IInv /\ [Next]_vars => IInv'
<1> SUFFICES ASSUME IInv, [Next]_vars PROVE IInv'
  OBVIOUS
<1> USE DEF IInv, TypeOK, Ids, Kinds
<1>1. CASE IssueReady
  <2> USE <1>1 DEF IssueReady
  <2>1. durable # NoMark /\ next < MaxId
    BY DEF FirstStart
  <2>2. TypeOK'
    BY <2>1 DEF Ready
  <2>3. (next <= blockEnd)' /\ FirstStart' /\ Reserved' /\ WrittenBelow'
    BY <2>1 DEF FirstStart, Reserved, WrittenBelow
  <2>4. AskedMark'
    BY DEF AskedMark, Ready
  <2>5. IssuedBelowNext'
    BY DEF IssuedBelowNext
  <2>6. QED
    BY <2>2, <2>3, <2>4, <2>5
<1>2. CASE IssuePersistFirst
  <2> USE <1>2 DEF IssuePersistFirst
  <2>1. HighWater \in Ids
    BY HighWaterAhead
  <2>2. TypeOK'
    BY <2>1 DEF PersistFirst
  <2>3. AskedMark'
    BY DEF AskedMark, PersistFirst, HighWater
  <2>4. QED
    BY <2>2, <2>3 DEF FirstStart, Reserved, WrittenBelow, IssuedBelowNext
<1>3. CASE IssueExhausted
  <2> USE <1>3 DEF IssueExhausted
  <2>1. TypeOK' /\ AskedMark'
    BY DEF Exhausted, AskedMark
  <2>2. QED
    BY <2>1 DEF FirstStart, Reserved, WrittenBelow, IssuedBelowNext
<1>4. ASSUME NEW mark \in written, Persisted(mark)
      PROVE  IInv'
  <2> USE <1>4 DEF Persisted
  <2>1. durable # NoMark /\ mark <= durable
    BY DEF WrittenBelow
  <2>2. TypeOK' /\ (next <= blockEnd)'
    OBVIOUS
  <2>3. FirstStart' /\ Reserved'
    BY <2>1 DEF FirstStart, Reserved
  <2>4. AskedMark' /\ WrittenBelow' /\ IssuedBelowNext'
    BY DEF AskedMark, HighWater, WrittenBelow, IssuedBelowNext
  <2>5. QED
    BY <2>2, <2>3, <2>4
<1>5. CASE Store
  <2> USE <1>5 DEF Store
  <2>1. /\ outcome.value = HighWater
        /\ HighWater \in Ids
        /\ next < HighWater
        /\ HighWater <= next + block
    BY HighWaterAhead DEF AskedMark
  <2>2. blockEnd <= HighWater
    BY <2>1, ReservedBelowHighWater DEF FirstStart, Reserved
  <2>3. \A w \in written : w <= HighWater
    BY ReservedBelowHighWater DEF WrittenBelow, Reserved
  <2>4. TypeOK' /\ (next <= blockEnd)'
    BY <2>1
  <2>5. FirstStart' /\ Reserved' /\ AskedMark'
    BY <2>1, <2>2 DEF FirstStart, Reserved, AskedMark, HighWater
  <2>6. WrittenBelow'
    BY <2>1, <2>3 DEF WrittenBelow
  <2>7. QED
    BY <2>4, <2>5, <2>6 DEF IssuedBelowNext
<1>6. CASE Restart
  <2> USE <1>6 DEF Restart, Resume
  <2>1. PICK b \in Blocks : IF durable = NoMark THEN \E s \in Seeds : Resume(s, b)
                                                ELSE Resume(durable, b)
    OBVIOUS
  <2>2. EffectiveBlock(b) \in Nat \ {0}
    BY EffectiveBlockPositive
  <2>3. AskedMark' /\ outcome' \in [kind : Kinds, value : Ids]
    BY DEF AskedMark, NoOutcome
  <2>4. CASE durable = NoMark
    BY <2>1, <2>2, <2>3, <2>4
       DEF FirstStart, Reserved, WrittenBelow, IssuedBelowNext
  <2>5. CASE durable # NoMark
    <3>1. next <= durable
      BY <2>5 DEF Reserved
    <3>2. TypeOK' /\ (next <= blockEnd)' /\ FirstStart' /\ Reserved' /\ WrittenBelow'
      BY <2>1, <2>2, <2>3, <2>5 DEF FirstStart, Reserved, WrittenBelow
    <3>3. IssuedBelowNext'
      BY <2>1, <2>5, <3>1 DEF IssuedBelowNext
    <3>4. QED
      BY <2>3, <3>2, <3>3
  <2>6. QED
    BY <2>4, <2>5
<1>7. CASE UNCHANGED vars
  BY <1>7 DEF vars, FirstStart, Reserved, AskedMark, HighWater, WrittenBelow,
              IssuedBelowNext
<1>8. QED
  BY <1>1, <1>2, <1>3, <1>4, <1>5, <1>6, <1>7 DEF Next

\* The strengthened invariant holds in every reachable state.
THEOREM Invariance == Spec => []IInv
BY InitIInv, NextIInv, PTL DEF Spec

\* No counter, mark or identifier ever leaves the u32 (packet_id.rs:135), and
\* the source never runs with an empty block (packet_id.rs:117).
THEOREM TypeCorrect == Spec => []TypeOK
BY Invariance, PTL DEF IInv

\* At any instant power may fail, the storage holds a mark above every
\* identifier ever issued (packet_id.rs:35-38).
THEOREM AlwaysIssuedBelowDurable == Spec => []IssuedBelowDurable
<1>1. IInv => IssuedBelowDurable
  BY DEF IInv, TypeOK, Ids, FirstStart, Reserved, IssuedBelowNext, IssuedBelowDurable
<1>2. QED
  BY <1>1, Invariance, PTL

\* The source implements the increasing stream of identifiers: across any
\* number of restarts, no identifier is issued twice.
THEOREM Refinement == Spec => NeverReissued
<1>1. Init => IdStreamSpec!Init
  BY DEF Init, IdStreamSpec!Init
<1>2. IInv /\ [Next]_vars => [IdStreamSpec!Next]_log
  <2> SUFFICES ASSUME IInv, [Next]_vars PROVE [IdStreamSpec!Next]_log
    OBVIOUS
  <2>1. CASE IssueReady
    <3>1. IdStreamSpec!Issue(next)
      BY <2>1 DEF IssueReady, IInv, IssuedBelowNext, IdStreamSpec!Issue
    <3>2. QED
      BY <3>1 DEF IInv, TypeOK, Ids, IdStreamSpec!Next, IdStreamSpec!Ids
  <2>2. CASE ~IssueReady
    BY <2>2 DEF Next, vars, IssuePersistFirst, IssueExhausted, Persisted, Store, Restart
  <2>3. QED
    BY <2>1, <2>2
<1>3. QED
  BY <1>1, <1>2, Invariance, PTL DEF Spec, NeverReissued, IdStreamSpec!Spec

\* A restart loses at most one block of identifiers (packet_id.rs:37-40).
THEOREM RestartBound == Spec => RestartSkipsAtMostABlock
<1>1. IInv /\ [Next]_vars =>
        [Restart /\ durable # NoMark => next' - next <= block]_vars
  BY DEF IInv, TypeOK, Ids, Reserved, Restart, Resume
<1>2. QED
  BY <1>1, Invariance, PTL DEF Spec, RestartSkipsAtMostABlock
=============================================================================
