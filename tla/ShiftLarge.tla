------------------------------ MODULE ShiftLarge ------------------------------
(***************************************************************************)
(* shift_large.v: the serial-in parallel-out register (SIPO) that holds    *)
(* the fault configuration.  It takes Width bits and then no more, until   *)
(* sipo_clear empties it.                                                  *)
(*                                                                         *)
(* The module is open: SipoEdge(si, shift, clear) is what one posedge C    *)
(* does for the levels of SI, scan_shift_feedback and sipo_clear.          *)
(***************************************************************************)
EXTENDS Vector

VARIABLES
  tmp,                \* the register; PO is wired to it
  filled              \* the module's count: bits taken since the last clear

sipoVars == <<tmp, filled>>

Empty == [i \in Index |-> "0"]

(* Mutant: {SI, tmp[15:1]}.                                                *)
ShiftedDown(si) == [i \in Index |-> IF i = Width - 1 THEN si ELSE tmp[i + 1]]

(* {tmp[14:0], SI}: each bit moves up one place, SI enters at bit 0.       *)
Shifted(si) == [i \in Index |-> IF i = 0 THEN si ELSE tmp[i - 1]]

(* Only count has an initial value.                                        *)
SipoInit ==
  /\ tmp = [i \in Index |-> "x"]
  /\ filled = 0

(* Mutant: count <= 16.                                                    *)
TakeOneMore(si, shift, clear) ==
  /\ filled <= Width /\ shift = "1" /\ clear = "0"
  /\ tmp' = Shifted(si)
  /\ filled' = filled + 1

TakeBit(si, shift, clear) ==
  /\ filled < Width /\ shift = "1" /\ clear = "0"
  /\ tmp' = Shifted(si)
  /\ filled' = filled + 1

(* Mutant: the clear forgets the counter.                                  *)
ClearRegisterOnly(clear) ==
  /\ clear = "1"
  /\ tmp' = Empty
  /\ UNCHANGED filled

Clear(clear) ==
  /\ clear = "1"
  /\ tmp' = Empty
  /\ filled' = 0

Hold(shift, clear) ==
  /\ clear = "0"
  /\ filled >= Width \/ shift = "0"
  /\ UNCHANGED sipoVars

SipoEdge(si, shift, clear) ==
  \/ TakeBit(si, shift, clear)
  \/ Clear(clear)
  \/ Hold(shift, clear)

SipoTypeOK ==
  /\ tmp \in [Index -> {"0", "1", "x"}]
  /\ filled \in 0 .. Width
==============================================================================
