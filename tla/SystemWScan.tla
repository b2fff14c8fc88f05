----------------------------- MODULE SystemWScan -----------------------------
(***************************************************************************)
(* system_w_scan.v: one clock edge of the serialiser and of the shift      *)
(* register it feeds.                                                      *)
(***************************************************************************)
EXTENDS CtrlUnit, ShiftLarge

CONSTANT EdgeOrder    \* what shift_large samples at an edge, see Edge

ASSUME EdgeOrderAssumption == EdgeOrder \in {"registered", "ctrl_first"}

fabricVars == <<ctrl_feedback, scan_shift_feedback, scan_chain, count,
                tmp, filled>>

FabricInit == CtrlInit /\ SipoInit

(* Mutants: the two nets connected by the names of CTRL_UNIT's ports.      *)
ShiftEnableByName(feedback, shift_feedback) == shift_feedback
CtrlFbByName(feedback, shift_feedback) == feedback

(***************************************************************************)
(* CTRL_UNIT is instantiated by position, and the position of              *)
(* ctrl_feedback holds the net that enables shift_large, that of           *)
(* scan_shift_feedback the pin CTRL_FB: crossed with respect to the names. *)
(***************************************************************************)
ShiftEnable(feedback, shift_feedback) == feedback
CtrlFb(feedback, shift_feedback) == shift_feedback

(* One posedge CLK.  In the circuit both modules are clocked on the levels *)
(* before the edge ("registered").  As Verilog text they race, for they    *)
(* use blocking assignments: a simulator that runs CTRL_UNIT first shows   *)
(* shift_large its new outputs ("ctrl_first").                             *)
Edge(data, scan_enable, sipo_clear) ==
  /\ CtrlEdge(data, scan_enable)
  /\ \/ /\ EdgeOrder = "registered"
        /\ SipoEdge(scan_chain,
                    ShiftEnable(ctrl_feedback, scan_shift_feedback),
                    sipo_clear)
     \/ /\ EdgeOrder = "ctrl_first"
        /\ SipoEdge(scan_chain',
                    ShiftEnable(ctrl_feedback', scan_shift_feedback'),
                    sipo_clear)

FabricTypeOK == CtrlTypeOK /\ SipoTypeOK
==============================================================================
