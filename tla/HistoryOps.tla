----------------------------- MODULE HistoryOps -----------------------------
(***************************************************************************)
(* code/protocol/history.rs: the operations of PacketHistory<N>, as         *)
(* operators on the record of its three fields.  They are used by the       *)
(* modules that hold a history: PacketHistory, and the nodes of a mesh.     *)
(***************************************************************************)
EXTENDS Integers

CONSTANTS
  Keys,      \* the (from, id) pairs
  ZeroKey,   \* the pair (0, 0), which fills the entries of a new history
  N          \* the capacity

ASSUME CapacityAssumption == N \in Nat
ASSUME ZeroKeyAssumption == ZeroKey \in Keys

Slots == 0..(N - 1)

History == [entries : [Slots -> Keys], cursor : Nat, len : 0..N]

NewHistory == [entries |-> [i \in Slots |-> ZeroKey], cursor |-> 0, len |-> 0]

\* Only the first len entries are meaningful: what lies beyond them is the
\* initial fill, or what a clear left behind.
Contains(h, key) == \E i \in 0..(h.len - 1) : h.entries[i] = key

\* The write of a first sighting: the slot at the cursor, which then advances
\* and wraps.  With no capacity there is no slot and nothing is kept.
Record(h, key) ==
  [entries |-> [i \in Slots |-> IF i = h.cursor THEN key ELSE h.entries[i]],
   cursor  |-> IF h.cursor + 1 < N THEN h.cursor + 1 ELSE 0,
   len     |-> IF h.len < N THEN h.len + 1 ELSE h.len]

Observe(h, key) == IF Contains(h, key) THEN h ELSE Record(h, key)

Seen(h, key) == IF Contains(h, key) THEN "Duplicate" ELSE "New"

\* Mutant: the cursor stays where it was.
ClearedLengthOnly(h) == [entries |-> h.entries, cursor |-> h.cursor, len |-> 0]

\* clear leaves the entries in place.
Cleared(h) == [entries |-> h.entries, cursor |-> 0, len |-> 0]

(***************************************************************************)
(* What a history means: the packets it remembers, oldest first.  Until the *)
(* ring is full they start at slot 0; from then on the oldest is the one    *)
(* the cursor will overwrite.                                              *)
(***************************************************************************)
Wrapped(i) == IF i < N THEN i ELSE i - N
Oldest(h) == IF h.len < N THEN 0 ELSE h.cursor
RecentOf(h) == [i \in 1..h.len |-> h.entries[Wrapped(Oldest(h) + i - 1)]]
=============================================================================
