---------------------------- MODULE MCLayerChain ----------------------------
(* LayerChain with two and three layers, for TLC. Layers 1 and 2 share an  *)
(* extension, one name is not recognized, and the driver lacks one of the  *)
(* extensions of layer 1.                                                  *)
EXTENDS LayerChainInv

MCExts == {"common", "top", "strange"}
MCRecognized == {"common", "top"}
MCClaims ==
  [l \in Layers |-> CASE l = 1 -> {"common", "top"} [] l = 2 -> {"common"} [] OTHER -> {}]
MCRequests == [kind \in {"instance", "device"} |->
  IF kind = "instance" THEN {{"common"}} ELSE SUBSET MCExts]
MCHookLists == [kind \in {"instance", "device"} |->
  IF kind = "instance" THEN {{}, {"common", "strange"}}
                       ELSE {{}, {"top", "strange"}, {"common", "strange"}}]
MCDriverExts == {"common", "strange"}
=============================================================================
