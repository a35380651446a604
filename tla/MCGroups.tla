------------------------------ MODULE MCGroups ------------------------------
(***************************************************************************)
(* A group of node 1 with room for two.  Another application sends a payload *)
(* that parses as an envelope of the group and is sealed under no key of it. *)
(***************************************************************************)
EXTENDS Groups

MCTexts == {[name |-> "short", size |-> 20], [name |-> "long", size |-> 219]}

MCForeign ==
  {[version |-> 1, type |-> "Data", groupId |-> 7, epoch |-> 0, size |-> 35,
    sealed |-> [key |-> <<-2, 0>>, nonce |-> <<2, 0, 0>>,
                aad |-> [to |-> BROADCAST_ADDR, from |-> 2, id |-> 0, flags |-> 32,
                         channel |-> ChannelHash],
                text |-> "foreign"]]}

\* Nodes 1 and 2 send one packet each.
MCMaxIds == [n \in Nodes |-> IF n = 3 THEN 0 ELSE 1]
=============================================================================
