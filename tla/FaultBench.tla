------------------------------ MODULE FaultBench ------------------------------
(***************************************************************************)
(* The combinational block of FaultInjection under every input, with the   *)
(* same faults selected in front of both copies of the circuit.  The nets  *)
(* that feed it come from registers written at different times; they       *)
(* change one at a time and in any order.                                  *)
(***************************************************************************)
EXTENDS FaultInjection

VARIABLES
  selects,   \* the eight select bits of one copy; the other gets the same
  signals,   \* levels of A, B, C, D
  tri_e

vars == <<selects, signals, tri_e>>

Select == 0 .. 7

(* SIPO_OUT: bits 7 .. 0 lead to ma_1, bits 15 .. 8 to ma_2.               *)
sipo == [i \in 0 .. 15 |-> selects[i % 8]]

y0 == SignalY0(sipo, signals, tri_e)
y1 == SignalY1(sipo, signals, tri_e)

(* SIPO_CLEAR empties the register; TRI_E is high in the PIO's reset word. *)
Init ==
  /\ selects = [k \in Select |-> "0"]
  /\ signals = [s \in Signal |-> "1"]
  /\ tri_e = "1"

SelectChanges ==
  /\ \E k \in Select : selects' = [selects EXCEPT ![k] = NotL(@)]
  /\ UNCHANGED <<signals, tri_e>>

SignalChanges ==
  /\ \E s \in Signal : signals' = [signals EXCEPT ![s] = NotL(@)]
  /\ UNCHANGED <<selects, tri_e>>

TriStateChanges ==
  /\ tri_e' = NotL(tri_e)
  /\ UNCHANGED <<selects, signals>>

Next == SelectChanges \/ SignalChanges \/ TriStateChanges

Spec == Init /\ [][Next]_vars

-----------------------------------------------------------------------------
(* Every variable holds a value of its kind.                               *)
TypeOK ==
  /\ selects \in [Select -> Bit]
  /\ signals \in [Signal -> Bit]
  /\ tri_e \in Bit

(* ma_1 and ma_2 are two structures of one function: under equal faults    *)
(* they give equal outputs (ma_1.v:22-24 against ma_2.v:21-30).            *)
CopiesAgree == y0 = y1

(* What a copy computes from the levels seen behind the injection points.  *)
Level(s) ==
  IF selects[2 * s + 1] = "1" THEN signals[s] = "1" ELSE selects[2 * s] = "0"

(* A selected point is stuck at 1 or 0 as its low select bit is 0 or 1,    *)
(* and the copy computes its function of the remaining signals; while the  *)
(* tri-state drivers are latched nothing reaches the output.               *)
StuckAtFaults ==
  y0 = IF tri_e = "1"                                        THEN "z"
       ELSE IF (Level(1) \/ Level(2)) /\ Level(0) /\ Level(3) THEN "1"
       ELSE                                                       "0"
=============================================================================
