-------------------------------- MODULE Vector --------------------------------
(***************************************************************************)
(* The bit vectors of the scan path: reg [15:0] and input [15:0] in the    *)
(* Verilog sources, with the width as a parameter.                         *)
(***************************************************************************)
EXTENDS Integers, FourState

CONSTANT Width        \* bits of a fault configuration: 16 in the code

ASSUME WidthAssumption == Width \in Nat \ {0}

Index == 0 .. Width - 1
==============================================================================
