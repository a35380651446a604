------------------------------ MODULE IdStream ------------------------------
(***************************************************************************)
(* What a node's packet identifiers promise the rest of the protocol: every *)
(* identifier it transmits is larger than every one it transmitted before,  *)
(* over the whole life of the node and however often it loses power.  The   *)
(* AES-CTR nonce of a frame is built from (from, id), so a repeated          *)
(* identifier is a repeated keystream, and the duplicate suppression of the  *)
(* receivers is keyed on the same pair.                                      *)
(***************************************************************************)
EXTENDS Naturals, Sequences

CONSTANT MaxId

VARIABLE log      \* the identifiers transmitted so far, oldest first

Ids == 0..MaxId

Init == log = <<>>

Issue(id) == /\ \A i \in 1..Len(log) : log[i] < id
             /\ log' = Append(log, id)

Next == \E id \in Ids : Issue(id)

Spec == Init /\ [][Next]_log
=============================================================================
