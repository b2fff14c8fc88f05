---------------------------- MODULE FaultInjection ----------------------------
(***************************************************************************)
(* The combinational part of the fabric: eight fault-injection points      *)
(* (TS_FI_MUX.v, mux.v, tri_buffer.v) in front of the two copies ma_1.v    *)
(* and ma_2.v of the circuit under test, wired as in system_w_scan.v.      *)
(***************************************************************************)
EXTENDS Integers, FourState

(* mux.v.  With an undetermined select the output is determined only when  *)
(* both inputs agree.                                                      *)
Mux(in1, in2, sel) ==
  CASE sel = "0" -> in1
    [] sel = "1" -> in2
    [] OTHER     -> IF in1 = in2 THEN in1 ELSE "x"

(* tri_buffer.v: an enable that is high disconnects the output.            *)
TriBuffer(in, en) == IF en = "1" THEN "z" ELSE in

(* Mutant: vdd and gnd exchanged.                                          *)
TsFiMuxExchanged(sig_in, sel_f, sel_main, tri_e) ==
  TriBuffer(Mux(Mux("0", "1", sel_f), sig_in, sel_main), tri_e)

(* TS_FI_MUX.v: SEL_MAIN high lets the signal through; low replaces it by  *)
(* vdd or gnd, as SEL_F is low or high.                                    *)
TsFiMux(sig_in, sel_f, sel_main, tri_e) ==
  TriBuffer(Mux(Mux("1", "0", sel_f), sig_in, sel_main), tri_e)

(* ma_1.v and ma_2.v: the two structures of one function.                  *)
Ma1(a0, b0, c0, d0, tri_e) ==
  LET r1 == OrL(b0, c0)
      r2 == AndL(r1, a0)
  IN  TriBuffer(AndL(r2, d0), tri_e)

(* Mutant: j1 computed by an or gate.                                      *)
Ma2WithOr(a1, b1, c1, d1, tri_en) ==
  LET j1 == OrL(NotL(c1), NotL(b1))
      j2 == OrL(j1, NotL(a1))
      j3 == OrL(j2, NotL(d1))
  IN  TriBuffer(NotL(j3), tri_en)

Ma2(a1, b1, c1, d1, tri_en) ==
  LET j1 == AndL(NotL(c1), NotL(b1))
      j2 == OrL(j1, NotL(a1))
      j3 == OrL(j2, NotL(d1))
  IN  TriBuffer(NotL(j3), tri_en)

(* Signals A, B, C, D are numbered 0 .. 3.  Signal s of copy dut passes    *)
(* the point selected by bits 8*dut + 2*s and 8*dut + 2*s + 1 of SIPO_OUT. *)
Signal == 0 .. 3

Injected(sipo, signals, tri_e, dut, s) ==
  TsFiMux(signals[s], sipo[8 * dut + 2 * s], sipo[8 * dut + 2 * s + 1], tri_e)

SignalY0(sipo, signals, tri_e) ==
  LET in(s) == Injected(sipo, signals, tri_e, 0, s)
  IN  Ma1(in(0), in(1), in(2), in(3), tri_e)

SignalY1(sipo, signals, tri_e) ==
  LET in(s) == Injected(sipo, signals, tri_e, 1, s)
  IN  Ma2(in(0), in(1), in(2), in(3), tri_e)
==============================================================================
