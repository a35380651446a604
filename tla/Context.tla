------------------------------- MODULE Context -------------------------------
(***************************************************************************)
(* Context: the TmCtx of the C ABI.  It keeps a history and a budget, and    *)
(* its one caller uses both in any order: what is done with one leaves the   *)
(* other as it is.                                                         *)
(***************************************************************************)
EXTENDS PacketHistory, DutyCycle

CtxInit == Init /\ DutyInit

CtxNext == \/ Next /\ UNCHANGED dutyVars
           \/ DutyNext /\ UNCHANGED vars

CtxSpec == CtxInit /\ [][CtxNext]_<<vars, dutyVars>>
=============================================================================
