-------------------------- MODULE MCFFKitDelivery --------------------------
(***************************************************************************)
(* Delivery of logs on a small instance: the first session logs at every   *)
(* level, the others at stderr's alone.                                    *)
(***************************************************************************)
EXTENDS FFKitDelivery

MCLevelsOf == [id \in Ids |-> IF id = 1 THEN Levels ELSE {LevelAVLogStdErr}]
=============================================================================
