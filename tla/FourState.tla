------------------------------ MODULE FourState ------------------------------
(***************************************************************************)
(* The four-state values of Verilog nets and the few operators the design  *)
(* uses on them.                                                           *)
(*                                                                         *)
(* "x" is a level the source does not determine: a register that was never *)
(* written, or a bit selected beyond the end of its vector.  The           *)
(* synthesised circuit has some level there, but either one is a legal     *)
(* result of the build.  "z" is a net nobody drives.  Every operator is    *)
(* the pessimistic one: it answers "0" or "1" only when each level an      *)
(* undetermined operand may have gives that answer.                        *)
(***************************************************************************)

Bit   == {"0", "1"}
Logic == Bit \cup {"x", "z"}

(* What a register that samples the level may read.                        *)
Sampled(a) == IF a \in Bit THEN {a} ELSE Bit

NotL(a) == CASE a = "0" -> "1"
             [] a = "1" -> "0"
             [] OTHER   -> "x"

AndL(a, b) == CASE "0" \in {a, b}        -> "0"
                [] a = "1" /\ b = "1"    -> "1"
                [] OTHER                 -> "x"

OrL(a, b) == CASE "1" \in {a, b}         -> "1"
               [] a = "0" /\ b = "0"     -> "0"
               [] OTHER                  -> "x"
==============================================================================
