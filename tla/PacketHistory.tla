---------------------------- MODULE PacketHistory ---------------------------
(***************************************************************************)
(* code/protocol/history.rs: one PacketHistory<N> and the packets its node  *)
(* hears, in any order and any number of times.                            *)
(***************************************************************************)
EXTENDS HistoryOps, Sequences

VARIABLES
  history,   \* the PacketHistory
  answer     \* what the last observe returned

vars == <<history, answer>>

Init == /\ history = NewHistory
        /\ answer = "None"

ObservePacket(key) == /\ history' = Observe(history, key)
                      /\ answer' = Seen(history, key)

Clear == /\ history' = Cleared(history)
         /\ answer' = "None"

Next == \/ \E key \in Keys : ObservePacket(key)
        \/ Clear

Spec == Init /\ [][Next]_vars

(***************************************************************************)
(* Properties.                                                             *)
(***************************************************************************)

TypeOK == /\ history \in History
          /\ answer \in {"None", "New", "Duplicate"}

\* No packet takes two slots: a packet heard over and over cannot push the
\* others out (history.rs:127-131).
NoPacketTwice ==
  \A i, j \in 0..(history.len - 1) :
    history.entries[i] = history.entries[j] => i = j

\* The ring remembers exactly the last N first sightings: oldest first eviction,
\* no refresh on a repeat, nothing forgotten early, and nothing a clear dropped
\* coming back (history.rs:20-22, 127-131, 149).
RecentPacketsSpec == INSTANCE RecentPackets WITH recent <- RecentOf(history)
RemembersTheLastN == RecentPacketsSpec!Spec
=============================================================================
