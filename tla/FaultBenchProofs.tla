-------------------------- MODULE FaultBenchProofs --------------------------
(***************************************************************************)
(* Proofs about FaultBench: the two copies of the circuit under test are   *)
(* one function, under every fault that hits both alike.                   *)
(***************************************************************************)
EXTENDS FaultBench, TLAPS

(* Every variable stays within its kind.                                   *)
THEOREM TypeCorrect == Spec => []TypeOK
<1>1. Init => TypeOK
  BY DEF Init, TypeOK, Bit
<1>2. TypeOK /\ [Next]_vars => TypeOK'
  <2> SUFFICES ASSUME TypeOK, [Next]_vars PROVE TypeOK'
    OBVIOUS
  <2>1. CASE SelectChanges
    BY <2>1 DEF TypeOK, SelectChanges, NotL, Bit
  <2>2. CASE SignalChanges
    BY <2>2 DEF TypeOK, SignalChanges, NotL, Bit
  <2>3. CASE TriStateChanges
    BY <2>3 DEF TypeOK, TriStateChanges, NotL, Bit
  <2>4. CASE UNCHANGED vars
    BY <2>4 DEF TypeOK, vars
  <2> QED
    BY <2>1, <2>2, <2>3, <2>4 DEF Next
<1> QED
  BY <1>1, <1>2, PTL DEF Spec

(* The gates of ma_1 and ma_2 agree on determined levels.                  *)
LEMMA SameFunction ==
  ASSUME NEW a \in Bit, NEW b \in Bit, NEW c \in Bit, NEW d \in Bit, NEW e
  PROVE  Ma1(a, b, c, d, e) = Ma2(a, b, c, d, e)
<1>1. AndL(AndL(OrL(b, c), a), d)
        = NotL(OrL(OrL(AndL(NotL(c), NotL(b)), NotL(a)), NotL(d)))
  BY DEF AndL, OrL, NotL, Bit
<1> QED
  BY <1>1 DEF Ma1, Ma2

(* The levels behind the injection points.                                 *)
LEMMA InjectedLevel ==
  ASSUME TypeOK, NEW dut \in {0, 1}, NEW s \in Signal
  PROVE  Injected(sipo, signals, tri_e, dut, s) =
           IF tri_e = "1" THEN "z" ELSE IF Level(s) THEN "1" ELSE "0"
<1>1. /\ 8 * dut + 2 * s \in 0 .. 15 /\ (8 * dut + 2 * s) % 8 = 2 * s
      /\ 8 * dut + 2 * s + 1 \in 0 .. 15 /\ (8 * dut + 2 * s + 1) % 8 = 2 * s + 1
      /\ 2 * s \in Select /\ 2 * s + 1 \in Select
  BY DEF Signal, Select
<1>2. /\ sipo[8 * dut + 2 * s] = selects[2 * s]
      /\ sipo[8 * dut + 2 * s + 1] = selects[2 * s + 1]
  BY <1>1 DEF sipo
<1>3. selects[2 * s] \in Bit /\ selects[2 * s + 1] \in Bit /\ signals[s] \in Bit
  BY <1>1 DEF TypeOK
<1> QED
  BY <1>2, <1>3 DEF Injected, TsFiMux, Mux, TriBuffer, Level, Bit

(* Equal faults in front of both copies give equal outputs.                *)
THEOREM CopiesAlwaysAgree == Spec => []CopiesAgree
<1>1. ASSUME TypeOK PROVE CopiesAgree
  <2>1. ASSUME NEW s \in Signal
        PROVE  Injected(sipo, signals, tri_e, 0, s) = Injected(sipo, signals, tri_e, 1, s)
    BY <1>1, InjectedLevel
  <2>2. CASE tri_e = "1"
    BY <2>2 DEF CopiesAgree, y0, y1, SignalY0, SignalY1, Ma1, Ma2, TriBuffer
  <2>3. CASE tri_e # "1"
    <3>1. ASSUME NEW s \in Signal PROVE Injected(sipo, signals, tri_e, 0, s) \in Bit
      BY <1>1, <2>3, InjectedLevel DEF Bit
    <3> QED
      BY <2>1, <3>1, SameFunction DEF CopiesAgree, y0, y1, SignalY0, SignalY1, Signal
  <2> QED
    BY <2>2, <2>3
<1> QED
  BY <1>1, TypeCorrect, PTL

(* A selected point is stuck at its level and the copy computes its        *)
(* function of the rest.                                                   *)
THEOREM FaultsAreStuckAt == Spec => []StuckAtFaults
<1>1. ASSUME TypeOK PROVE StuckAtFaults
  <2>1. CASE tri_e = "1"
    BY <2>1 DEF StuckAtFaults, y0, SignalY0, Ma1, TriBuffer
  <2>2. CASE tri_e # "1"
    <3>1. ASSUME NEW s \in Signal
          PROVE  Injected(sipo, signals, tri_e, 0, s) = IF Level(s) THEN "1" ELSE "0"
      BY <1>1, <2>2, InjectedLevel
    <3>2. \A s \in 0 .. 3 :
            Injected(sipo, signals, tri_e, 0, s) = IF Level(s) THEN "1" ELSE "0"
      BY <3>1 DEF Signal
    <3> HIDE DEF Level
    <3> QED
      BY <2>2, <3>2 DEF StuckAtFaults, y0, SignalY0, Ma1, TriBuffer, AndL, OrL
  <2> QED
    BY <2>1, <2>2
<1> QED
  BY <1>1, TypeCorrect, PTL
==============================================================================
