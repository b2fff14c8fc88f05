--------------------------- MODULE ScanChainProofs ---------------------------
(***************************************************************************)
(* Proofs about ScanChain, for every width of the word, every set of       *)
(* configurations, both readings of a clock edge and both first writes.    *)
(***************************************************************************)
EXTENDS ScanChain, TLAPS

USE WidthAssumption, SettleAssumption, ConfigsAssumption,
    ScanWhileClearingAssumption, EdgeOrderAssumption

-----------------------------------------------------------------------------
(* Type correctness.                                                       *)

(* A bit select yields a level of the serial line.                         *)
LEMMA SelectedType ==
  ASSUME NEW data \in [Index -> Bit], NEW c
  PROVE  Selected(data, c) \in {"0", "1", "x"}
BY DEF Selected, Bit

(* A clock edge keeps the registers of the fabric in their ranges.         *)
LEMMA TickType ==
  ASSUME TypeOK, Tick
  PROVE  TypeOK'
<1>1. CtrlTypeOK'
  <2>1. Selected(test_data, count) \in {"0", "1", "x"}
    BY SelectedType DEF TypeOK
  <2> QED
    BY <2>1 DEF TypeOK, FabricTypeOK, CtrlTypeOK, CountRange, Tick, Edge,
                CtrlEdge, ScanBit, Rewind, Decremented, Bit
<1>2. SipoTypeOK'
  <2>1. ASSUME NEW si \in {"0", "1", "x"}, NEW shift \in Bit,
               SipoEdge(si, shift, sipo_clear)
        PROVE  SipoTypeOK'
    BY <2>1 DEF TypeOK, FabricTypeOK, SipoTypeOK, SipoEdge, TakeBit, Clear,
                Hold, Shifted, Empty, Index, sipoVars, Bit
  <2> QED
    BY <1>1, <2>1 DEF TypeOK, FabricTypeOK, CtrlTypeOK, Tick, Edge, ShiftEnable
<1>3. elapsed' \in 0 .. Settle
  BY DEF TypeOK, Tick
<1> QED
  BY <1>1, <1>2, <1>3 DEF TypeOK, FabricTypeOK, Tick

(* TypeOK is inductive.                                                    *)
LEMMA TypeStep ==
  ASSUME TypeOK, [Next]_vars
  PROVE  TypeOK'
<1> USE DEF TypeOK, FabricTypeOK, CtrlTypeOK, SipoTypeOK, fabricVars,
            ctrlVars, sipoVars, Starts, Written
<1>1. CASE Tick
  BY <1>1, TickType
<1>2. CASE Case1
  BY <1>2 DEF Case1, AllOnes, Bit
<1>3. CASE Case2
  BY <1>3 DEF Case2, Bit
<1>4. CASE Case3
  BY <1>4 DEF Case3, Bit
<1>5. CASE Case4
  BY <1>5 DEF Case4
<1>6. CASE Case5
  BY <1>6 DEF Case5
<1>7. CASE Restart
  BY <1>7 DEF Restart
<1>8. CASE UNCHANGED vars
  BY <1>8 DEF vars, hostVars
<1> QED
  BY <1>1, <1>2, <1>3, <1>4, <1>5, <1>6, <1>7, <1>8 DEF Next

(* The registers start within their ranges.                                *)
LEMMA TypeInit == Init => TypeOK
BY DEF Init, TypeOK, FabricInit, CtrlInit, SipoInit, FabricTypeOK, CtrlTypeOK,
       SipoTypeOK, CountRange, AllOnes, Bit, Index

(* Every register of the scan path and every level the host writes stays   *)
(* within its width, through wrap-around and restarts.                     *)
THEOREM TypeCorrect == Spec => []TypeOK
BY TypeInit, TypeStep, PTL DEF Spec

-----------------------------------------------------------------------------
(* The inductive invariant.                                                *)

(* Counting down and back up again returns to the position.                *)
LEMMA WrappedDecremented ==
  ASSUME NEW c \in CountRange
  PROVE  /\ Decremented(c) \in CountRange
         /\ Wrapped(c + 1) \in CountRange
         /\ Wrapped(Decremented(c) + 1) = c
         /\ Wrapped(Decremented(c) + 2) = Wrapped(c + 1)
         /\ Wrapped(Wrapped(c + 1) + 1) = Wrapped(c + 2)
BY DEF CountRange, Decremented, Wrapped

(* A window of n bits, shifted up, and the bit from the position before it *)
(* make a window of n + 1 bits.                                            *)
LEMMA WindowShift ==
  ASSUME TypeOK, NEW n \in 0 .. Width - 1, NEW q \in CountRange, NEW si,
         Window(n, Wrapped(q + 1)),
         tmp' = Shifted(si), test_data' = test_data,
         \/ si = Selected(test_data, q)
         \/ /\ EdgeOrder = "registered" /\ ScanWhileClearing = "1" /\ n = 0
            /\ si = Selected(AllOnes, q)
  PROVE  Window(n + 1, q)'
<1> SUFFICES ASSUME NEW i \in 0 .. n
             PROVE  \/ tmp'[i] = Selected(test_data, Wrapped(q + i))
                    \/ /\ EdgeOrder = "registered" /\ ScanWhileClearing = "1"
                       /\ i = n /\ tmp'[i] = Selected(AllOnes, Wrapped(q + i))
  BY DEF Window
<1>1. i \in Index
  BY DEF Index
<1>2. CASE i = 0
  <2>1. Wrapped(q + 0) = q /\ tmp'[0] = si
    BY <1>1, <1>2 DEF Wrapped, CountRange, Shifted
  <2> QED
    BY <1>2, <2>1
<1>3. CASE i # 0
  <2>1. i - 1 \in 0 .. n - 1 /\ (i - 1 = n - 1 <=> i = n)
    BY <1>3
  <2>2. Wrapped(Wrapped(q + 1) + (i - 1)) = Wrapped(q + i)
    BY <1>3 DEF Wrapped, CountRange
  <2>3. tmp'[i] = tmp[i - 1]
    BY <1>1, <1>3 DEF Shifted
  <2> QED
    BY <2>1, <2>2, <2>3 DEF Window
<1> QED
  BY <1>2, <1>3

(* In case 2 an edge takes one more bit, holds a full register, or, right  *)
(* after the documented first write, only starts the serialiser.           *)
LEMMA TickFilling ==
  ASSUME Inv, Tick
  PROVE  Filling'
<1> SUFFICES ASSUME stage = 2 PROVE Filling'
  BY DEF Tick, Filling
<1> DEFINE loaded == \E p \in Phases : Window(Width, p)
<1>1. /\ ctrl_feedback' = "1" /\ scan_chain' = Selected(test_data, count)
      /\ count' = Decremented(count)
      /\ sipo_clear = "0" /\ test_data' = test_data /\ stage' = 2
      /\ elapsed' > 0 /\ elapsed' <= elapsed + 1
  BY DEF Inv, LevelsOfStage, TypeOK, Tick, Edge, CtrlEdge, ScanBit, Rewind
<1>2. /\ count \in CountRange /\ filled \in 0 .. Width
      /\ elapsed \in 0 .. Settle
  BY DEF Inv, TypeOK, FabricTypeOK, CtrlTypeOK, SipoTypeOK
<1>3. /\ count' \in CountRange /\ Wrapped(count + 1) \in CountRange
      /\ Wrapped(count' + 1) = count
      /\ Wrapped(count' + 2) = Wrapped(count + 1)
      /\ Wrapped(Wrapped(count + 1) + 1) = Wrapped(count + 2)
  BY <1>1, <1>2, WrappedDecremented
<1>4. CASE filled = Width
  <2>1. tmp' = tmp /\ filled' = filled
    BY <1>1, <1>2, <1>4 DEF Tick, Edge, SipoEdge, TakeBit, Clear, Hold, sipoVars
  <2>2. loaded
    BY <1>4 DEF Inv, Filling
  <2>3. loaded'
    BY <1>1, <2>1, <2>2 DEF Window
  <2> QED
    BY <1>1, <1>4, <2>1, <2>3 DEF Filling
<1>5. CASE filled < Width /\ EdgeOrder = "registered" /\ ctrl_feedback = "0"
  <2>1. ScanWhileClearing = "0" /\ elapsed = 0 /\ filled = 0 /\ count = Width - 1
    BY <1>2, <1>5 DEF Inv, Filling, Bit
  <2>2. tmp' = tmp /\ filled' = 0
    BY <1>1, <1>5, <2>1 DEF Tick, Edge, SipoEdge, TakeBit, Clear, Hold,
                            sipoVars, ShiftEnable
  <2>3. Phase' = Width
    BY <1>1, <1>3, <1>5, <2>1 DEF Phase, Lag, Wrapped, CountRange
  <2>4. OnChain' /\ Window(filled, Phase)'
    BY <1>1, <1>3, <2>2 DEF OnChain, Window
  <2> QED
    BY <1>1, <1>5, <2>1, <2>2, <2>3, <2>4 DEF Filling, Lag
<1>6. CASE filled < Width /\ ~(EdgeOrder = "registered" /\ ctrl_feedback = "0")
  <2> PICK n : n = filled
    OBVIOUS
  <2> PICK q : q = IF EdgeOrder = "registered" THEN Wrapped(count + 1) ELSE count
    OBVIOUS
  <2> PICK si : si = IF EdgeOrder = "registered" THEN scan_chain ELSE scan_chain'
    OBVIOUS
  <2>1. q \in CountRange /\ Phase' = q /\ Phase = Wrapped(q + 1)
    BY <1>2, <1>3 DEF Phase, Lag, CountRange
  <2>2. tmp' = Shifted(si) /\ filled' = n + 1 /\ n \in 0 .. Width - 1
    BY <1>1, <1>2, <1>6 DEF Inv, TypeOK, FabricTypeOK, CtrlTypeOK, Tick, Edge,
         SipoEdge, TakeBit, Clear, Hold, ShiftEnable, Bit
  <2>3. filled + Lag >= elapsed /\ OnChain /\ Window(n, Phase)
    BY <1>6 DEF Inv, Filling
  <2>4. \/ si = Selected(test_data, q)
        \/ /\ EdgeOrder = "registered" /\ ScanWhileClearing = "1"
           /\ n = 0 /\ si = Selected(AllOnes, q)
    BY <1>1, <1>6, <2>3 DEF OnChain, Inv, TypeOK, FabricTypeOK, CtrlTypeOK, Bit
  <2>5. Window(filled, Phase)'
    <3>1. Window(n + 1, q)'
      BY <1>1, <2>1, <2>2, <2>3, <2>4, WindowShift DEF Inv
    <3> QED
      BY <2>1, <2>2, <3>1 DEF Window
  <2>6. ScanWhileClearing = "0" => Phase' = Width - filled'
    <3>1. CASE elapsed = 0
      BY <1>2, <1>6, <2>1, <2>2, <3>1 DEF Inv, Filling, Wrapped
    <3>2. CASE elapsed # 0
      BY <1>2, <1>6, <2>1, <2>2, <3>2 DEF Inv, Filling, Wrapped, CountRange
    <3> QED
      BY <3>1, <3>2
  <2>7. OnChain'
    BY <1>1, <1>3 DEF OnChain
  <2>8. filled' + Lag >= elapsed'
    BY <1>1, <1>2, <2>2, <2>3 DEF Lag, Tick
  <2>9. filled' = Width => loaded'
    <3> SUFFICES ASSUME filled' = Width PROVE loaded'
      OBVIOUS
    <3>1. Phase' \in Phases
      BY <2>1, <2>6 DEF Phases
    <3> QED
      BY <2>5, <3>1
  <2> QED
    BY <1>1, <2>5, <2>6, <2>7, <2>8, <2>9 DEF Filling
<1> QED
  BY <1>2, <1>4, <1>5, <1>6

(* In case 1 the first edge empties the register, and every edge leaves    *)
(* the serialiser as the first write has it: sending ones, or rewound.     *)
LEMMA TickCleared ==
  ASSUME Inv, Tick
  PROVE  Cleared'
<1> SUFFICES ASSUME stage = 1 PROVE Cleared'
  BY DEF Tick, Cleared
<1>1. /\ scan_enable = ScanWhileClearing /\ sipo_clear = "1"
      /\ test_data = AllOnes /\ count \in CountRange
  BY DEF Inv, LevelsOfStage, TypeOK, FabricTypeOK, CtrlTypeOK
<1>2. tmp' = Empty /\ filled' = 0
  BY <1>1 DEF Tick, Edge, SipoEdge, TakeBit, Clear, Hold
<1>3. /\ ScanWhileClearing = "1" =>
           /\ ctrl_feedback' = "1"
           /\ scan_chain' = Selected(AllOnes, Wrapped(count' + 1))
      /\ ScanWhileClearing = "0" => ctrl_feedback' = "0" /\ count' = Width - 1
  BY <1>1, WrappedDecremented DEF Tick, Edge, CtrlEdge, ScanBit, Rewind
<1> QED
  BY <1>2, <1>3 DEF Cleared

(* Once the scan is disabled an edge changes nothing in the register.      *)
LEMMA TickFilled ==
  ASSUME Inv, Tick, stage \in {3, 4}
  PROVE  tmp' = tmp /\ filled' = filled
BY DEF Inv, LevelsOfStage, Filled, Tick, Edge, SipoEdge, TakeBit, Clear, Hold,
       sipoVars

(* Every clock edge preserves the invariant.                               *)
LEMMA TickInv ==
  ASSUME Inv, Tick
  PROVE  Inv'
<1>1. LevelsOfStage'
  BY DEF Inv, LevelsOfStage, Tick
<1>2. Filled'
  BY TickFilled DEF Inv, Filled, Tick, Window
<1>3. FeedbackSet'
  BY DEF Inv, FeedbackSet, LevelsOfStage, Tick, Edge, CtrlEdge, ScanBit, Rewind
<1> QED
  BY <1>1, <1>2, <1>3, TickType, TickCleared, TickFilling DEF Inv

(* A scan starts on an empty register with the serialiser in a phase of    *)
(* Phases.                                                                 *)
LEMMA Case2Inv ==
  ASSUME Inv, Case2
  PROVE  Inv'
<1>1. TypeOK'
  BY TypeStep DEF Inv, Next
<1>2. /\ stage' = 2 /\ elapsed' = 0 /\ scan_enable' = "1" /\ sipo_clear' = "0"
      /\ tmp' = tmp /\ filled' = 0 /\ count' = count
      /\ ctrl_feedback' = ctrl_feedback /\ scan_chain' = scan_chain
  BY DEF Inv, Case2, Starts, Written, Cleared, fabricVars
<1>3. /\ ScanWhileClearing = "1" =>
           /\ ctrl_feedback = "1"
           /\ scan_chain = Selected(AllOnes, Wrapped(count + 1))
      /\ ScanWhileClearing = "0" => ctrl_feedback = "0" /\ count = Width - 1
  BY DEF Inv, Case2, Starts, Cleared
<1>4. Filling'
  BY <1>2, <1>3 DEF Filling, OnChain, Window, Lag, Bit
<1>5. LevelsOfStage' /\ Cleared' /\ Filled' /\ FeedbackSet'
  BY <1>2 DEF LevelsOfStage, Cleared, Filled, FeedbackSet
<1> QED
  BY <1>1, <1>4, <1>5 DEF Inv

(* When the program disables the scan the register has been filled.        *)
LEMMA Case3Inv ==
  ASSUME Inv, Case3
  PROVE  Inv'
<1>1. TypeOK'
  BY TypeStep DEF Inv, Next
<1>2. /\ stage = 2 /\ elapsed = Settle /\ sipo_clear = "0"
      /\ stage' = 3 /\ scan_enable' = "0" /\ sipo_clear' = sipo_clear
      /\ test_data' = test_data /\ tmp' = tmp /\ filled' = filled
      /\ scan_shift_feedback' = scan_shift_feedback
  BY DEF Inv, LevelsOfStage, Case3, Starts, Written, fabricVars
<1>3. filled = Width /\ scan_shift_feedback = "1"
  BY <1>2 DEF Inv, TypeOK, FabricTypeOK, SipoTypeOK, Filling, FeedbackSet, Lag
<1>4. Filled'
  BY <1>2, <1>3 DEF Inv, Filling, Filled, Window
<1>5. LevelsOfStage' /\ Cleared' /\ Filling' /\ FeedbackSet'
  BY <1>2, <1>3 DEF LevelsOfStage, Cleared, Filling, FeedbackSet
<1> QED
  BY <1>1, <1>4, <1>5 DEF Inv

(* Inv is inductive.                                                       *)
LEMMA InvStep ==
  ASSUME Inv, [Next]_vars
  PROVE  Inv'
<1>0. TypeOK'
  BY TypeStep DEF Inv
<1> USE DEF Inv, LevelsOfStage, Cleared, Filling, Filled, FeedbackSet
<1>1. CASE Tick
  BY <1>1, TickInv
<1>2. CASE Case1
  BY <1>0, <1>2 DEF Case1, Written
<1>3. CASE Case2
  BY <1>3, Case2Inv
<1>4. CASE Case3
  BY <1>4, Case3Inv
<1>5. CASE Case4
  BY <1>0, <1>5 DEF Case4, Starts, Written, fabricVars, Window
<1>6. CASE Case5
  BY <1>0, <1>6 DEF Case5
<1>7. CASE Restart
  BY <1>0, <1>7 DEF Restart
<1>8. CASE UNCHANGED vars
  BY <1>0, <1>8 DEF vars, fabricVars, hostVars, Window, OnChain, Phase, Lag
<1> QED
  BY <1>1, <1>2, <1>3, <1>4, <1>5, <1>6, <1>7, <1>8 DEF Next

(* Before the first case the invariant says nothing but TypeOK.            *)
LEMMA InvInit == Init => Inv
BY TypeInit DEF Init, Inv, LevelsOfStage, Cleared, Filling, Filled, FeedbackSet

(* The inductive invariant holds in every reachable state.                 *)
THEOREM Invariance == Spec => []Inv
BY InvInit, InvStep, PTL DEF Spec

-----------------------------------------------------------------------------
(* What follows from it.                                                   *)

(* A wait is longer than the register: completed means full.               *)
LEMMA CompletedIsFull ==
  ASSUME Inv, ScanCompleted
  PROVE  filled = Width /\ sipo_clear = "0" /\ \E p \in Phases : Window(Width, p)
BY DEF Inv, LevelsOfStage, TypeOK, FabricTypeOK, SipoTypeOK, ScanCompleted,
       Filling, Filled, Lag

(* A completed scan has put Width consecutive bits of the serialiser's     *)
(* output into the register, for either first write and either reading of  *)
(* an edge.                                                                *)
THEOREM WindowLoaded == Spec => []LoadedWindow
<1>1. Inv => LoadedWindow
  BY CompletedIsFull DEF LoadedWindow
<1> QED
  BY <1>1, Invariance, PTL

(* With the first write that main.c documents, SCAN_ENABLE low, a          *)
(* completed scan has loaded exactly the configuration.                    *)
THEOREM DocumentedWriteLoads ==
  ASSUME ScanWhileClearing = "0"
  PROVE  Spec => []ConfigLoaded
<1>1. ASSUME Inv, ScanCompleted PROVE tmp = test_data
  <2>1. /\ tmp \in [Index -> {"0", "1", "x"}] /\ test_data \in [Index -> Bit]
    BY <1>1 DEF Inv, TypeOK, FabricTypeOK, SipoTypeOK
  <2>2. ASSUME NEW i \in Index PROVE tmp[i] = test_data[i]
    BY <1>1, CompletedIsFull DEF Phases, Window, Selected, Wrapped, Index
  <2> QED
    BY <2>1, <2>2
<1>2. Inv => ConfigLoaded
  BY <1>1 DEF ConfigLoaded
<1> QED
  BY <1>2, Invariance, PTL

(* After the register is full nothing but the next clear moves it, not     *)
(* even the edges at which the serialiser keeps sending.                   *)
THEOREM LoadIsFrozen == Spec => LoadFrozen
<1>1. ASSUME Inv, [Next]_vars, ScanCompleted PROVE tmp' = tmp
  <2>1. filled = Width /\ sipo_clear = "0"
    BY <1>1, CompletedIsFull
  <2>2. CASE Tick
    BY <2>1, <2>2 DEF Tick, Edge, SipoEdge, TakeBit, Clear, Hold, sipoVars
  <2>3. CASE ~Tick
    BY <1>1, <2>3 DEF Next, Case1, Case2, Case3, Case4, Case5, Restart, Written,
                      fabricVars, vars
  <2> QED
    BY <2>2, <2>3
<1>2. Inv /\ [Next]_vars => [ScanCompleted => tmp' = tmp]_vars
  BY <1>1
<1> QED
  BY <1>2, Invariance, PTL DEF Spec, LoadFrozen

(* A scan never starts on the remains of another, also when the program    *)
(* was stopped in the middle of one.                                       *)
THEOREM ScansStartEmpty == Spec => ScanStartsEmpty
<1>1. Inv /\ [Next]_vars =>
        [stage = 1 /\ stage' = 2 => tmp = Empty /\ filled = 0]_vars
  BY DEF Inv, Cleared, Next, Tick, Case1, Case2, Case3, Case4, Case5, Restart,
         Starts, Written
<1> QED
  BY <1>1, Invariance, PTL DEF Spec, ScanStartsEmpty

(* The pin CTRL_FB is high when main.c goes on to step 4.                  *)
THEOREM AcknowledgeIsHigh == Spec => []Acknowledged
<1>1. Inv => Acknowledged
  BY DEF Inv, FeedbackSet, Acknowledged, ScanCompleted, CtrlFb
<1> QED
  BY <1>1, Invariance, PTL
==============================================================================
