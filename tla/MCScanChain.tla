----------------------------- MODULE MCScanChain -----------------------------
(***************************************************************************)
(* Instances of ScanChain for TLC: every configuration of the width.       *)
(***************************************************************************)
EXTENDS ScanChain

AllConfigs == [0 .. Width - 1 -> {"0", "1"}]
==============================================================================
