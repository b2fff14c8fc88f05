------------------------------- MODULE CtrlUnit -------------------------------
(***************************************************************************)
(* CTRL_UNIT.v: the serialiser.  While scan_enable is high it puts one bit *)
(* of the parallel word data on scan_chain at every clock edge, the most   *)
(* significant first; while it is low it rewinds.                          *)
(*                                                                         *)
(* The module is open: CtrlEdge(data, scan_enable) is what one posedge CLK *)
(* does for the input levels it is given, and ScanChain drives it.         *)
(***************************************************************************)
EXTENDS Vector

VARIABLES
  ctrl_feedback,        \* high while a scan is in progress
  scan_shift_feedback,  \* set by the first scanned bit, cleared nowhere
  scan_chain,           \* the serial output
  count                 \* the bit the next scanning edge selects

ctrlVars == <<ctrl_feedback, scan_shift_feedback, scan_chain, count>>

(* count is a reg [4:0]: one bit wider than the index of a 16-bit word.    *)
CountRange == 0 .. 2 * Width - 1

(* Mutant: the counter as an unbounded integer.                            *)
DecrementedUnsized(c) == c - 1

(* count = count - 1 on an unsigned register: below 0 comes the top value. *)
Decremented(c) == IF c = 0 THEN 2 * Width - 1 ELSE c - 1

(* data[c]: a bit select beyond the end of the vector reads x.             *)
Selected(data, c) == IF c \in Index THEN data[c] ELSE "x"

(* Only count has an initial value; the other registers power up at a      *)
(* level of the device's choosing.  Both levels of the two that control    *)
(* something are tried; the undetermined data bit stays symbolic.          *)
CtrlInit ==
  /\ ctrl_feedback \in Bit
  /\ scan_shift_feedback \in Bit
  /\ scan_chain = "x"
  /\ count = Width - 1

(* The test count >= 5'b0 of the code holds of every unsigned value, so a  *)
(* scan never pauses: it runs through the bits, past bit 0 and around.     *)
ScanBit(data) ==
  /\ ctrl_feedback' = "1"
  /\ scan_shift_feedback' = "1"
  /\ scan_chain' = Selected(data, count)
  /\ count' = Decremented(count)

(* Mutant: rewinding one position too far.                                 *)
RewindTooFar ==
  /\ ctrl_feedback' = "0"
  /\ count' = Width
  /\ UNCHANGED <<scan_shift_feedback, scan_chain>>

Rewind ==
  /\ ctrl_feedback' = "0"
  /\ count' = Width - 1
  /\ UNCHANGED <<scan_shift_feedback, scan_chain>>

CtrlEdge(data, scan_enable) ==
  \/ scan_enable = "1" /\ ScanBit(data)
  \/ scan_enable = "0" /\ Rewind

CtrlTypeOK ==
  /\ ctrl_feedback \in Bit
  /\ scan_shift_feedback \in Bit
  /\ scan_chain \in {"0", "1", "x"}
  /\ count \in CountRange
==============================================================================
