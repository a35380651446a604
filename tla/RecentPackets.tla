---------------------------- MODULE RecentPackets ---------------------------
(***************************************************************************)
(* What duplicate suppression promises: the packets remembered are the last *)
(* N first sightings, oldest first.  A packet already remembered is a        *)
(* Duplicate and changes nothing, however often it is heard; any other is    *)
(* New, and makes room for itself by forgetting the oldest sighting only.    *)
(***************************************************************************)
EXTENDS Naturals, Sequences

CONSTANTS Keys, N

VARIABLES recent, answer

Remembered(key) == \E i \in 1..Len(recent) : recent[i] = key

\* The last N elements of a sequence at most one longer than N.
Newest(s) == IF Len(s) > N THEN Tail(s) ELSE s

Init == /\ recent = <<>>
        /\ answer = "None"

ObserveNew(key) == /\ ~Remembered(key)
                   /\ recent' = Newest(Append(recent, key))
                   /\ answer' = "New"

ObserveDuplicate(key) == /\ Remembered(key)
                         /\ answer' = "Duplicate"
                         /\ UNCHANGED recent

Clear == /\ recent' = <<>>
         /\ answer' = "None"

Next == \/ \E key \in Keys : ObserveNew(key) \/ ObserveDuplicate(key)
        \/ Clear

Spec == Init /\ [][Next]_<<recent, answer>>
=============================================================================
