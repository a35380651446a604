----------------------------- MODULE Calculations ----------------------------
(***************************************************************************)
(* Calculations: what the library works out for a caller and keeps nothing   *)
(* of.  Time on air and contention windows, the framing of packets, and the  *)
(* agreement of keys have no state in common, so a caller here uses one of   *)
(* them and leaves the others as they started.                              *)
(***************************************************************************)
EXTENDS Radio, Ciphers, Ladder

VARIABLE subject   \* which of them the caller uses

CalcInit == /\ subject \in {"radio", "cipher", "ladder"}
            /\ RadioInit /\ CipherInit /\ LadderInit
            /\ subject # "radio" => /\ modem = CHOOSE m \in Modems : TRUE
                                    /\ window = CHOOSE w \in Windows : TRUE
            /\ subject # "ladder" => /\ scalar = CHOOSE k \in Scalars : TRUE
                                     /\ point = CHOOSE b \in PublicKeys : TRUE

CalcNext ==
  /\ \/ subject = "radio" /\ RadioNext /\ UNCHANGED <<cipherVars, ladderVars>>
     \/ subject = "cipher" /\ CipherNext /\ UNCHANGED <<radioVars, ladderVars>>
     \/ subject = "ladder" /\ LadderNext /\ UNCHANGED <<radioVars, cipherVars>>
  /\ UNCHANGED subject

CalcSpec == CalcInit /\ [][CalcNext]_<<radioVars, cipherVars, ladderVars, subject>>
=============================================================================
