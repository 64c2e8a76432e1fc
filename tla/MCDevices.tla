------------------------------ MODULE MCDevices ------------------------------
(* An instance of Devices: a device of three units, and an image file of   *)
(* one that may grow to two.  The handles are alike.                       *)
EXTENDS Devices, TLC

MCTarget == [name \in Names |-> IF name = "image" THEN "file" ELSE "disk"]
MCContents == [device \in {"disk", "file"} |-> IF device = "disk" THEN <<1, 2, 3>> ELSE <<4>>]
Symmetry == Permutations(Handles)
=============================================================================
