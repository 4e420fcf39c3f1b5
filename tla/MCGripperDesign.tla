-------------------------- MODULE MCGripperDesign ---------------------------
(* A name of each kind and one of both, as "length" of a StandardGripper;  *)
(* lists that leave out and repeat them.                                   *)
EXTENDS GripperDesign

MCNameLists == {<<"width">>, <<"length", "force">>, <<"length", "length">>}

(* Two of the values have the same six digits.                             *)
MCPrinted == [v \in Values |-> IF v = 3 THEN 2 ELSE v]

(* Everything a device is set from.                                       *)
MCDeviceNames == {<<"length", "force">>}
=============================================================================
