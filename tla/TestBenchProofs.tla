--------------------------- MODULE TestBenchProofs ---------------------------
(***************************************************************************)
(* Theorems about the whole system, for every set of answers that fit the  *)
(* fabric, every number rand() may return, both orders of the clocked      *)
(* blocks at an edge, every sleep longer than a scan, up to seven starts   *)
(* and stops between any two appends, writes or edges.  They join the      *)
(* invariant of the program to the theorems about the scan path.           *)
(***************************************************************************)
EXTENDS TestBench, HostViewProofs

ScanProofs == INSTANCE ScanChainProofs WITH
  Configs     <- {BitsOf(text) : text \in Configs},
  scan_enable <- SCAN_ENABLE,
  sipo_clear  <- SIPO_CLEAR,
  test_data   <- TEST_DATA,
  stage       <- CASE pc = "case2" -> 1
                   [] pc = "case3" -> 2
                   [] pc = "case4" -> 3
                   [] pc = "case5" -> 4
                   [] OTHER        -> 0

(* The texts of the configurations are bits of a word.                     *)
LEMMA ConfigsAreBits ==
  {BitsOf(text) : text \in Configs} \subseteq [ScanProofs!Index -> ScanProofs!Bit]
<1> SUFFICES ASSUME NEW text \in Configs
             PROVE  BitsOf(text) \in [ScanProofs!Index -> ScanProofs!Bit]
  OBVIOUS
<1>1. Width = 16
  BY BenchAssumption DEF ConfigLength
<1>2. ASSUME NEW k \in 1 .. 16
      PROVE  text[k] \in {"0", "1"}
  BY DigitIsBit DEF Configs, RandomText, ConfigLength
<1>3. ASSUME NEW i \in Index
      PROVE  text[Width - i] \in {"0", "1"}
  <2>1. Width - i \in 1 .. 16
    BY <1>1 DEF Index
  <2> QED
    BY <1>2, <2>1
<1> QED
  BY <1>3 DEF BitsOf, Index, ScanProofs!Index, ScanProofs!Bit

(* What ScanChain asks of its constants.                                   *)
LEMMA ScanConstants ==
  /\ Width \in Nat \ {0} /\ Settle \in Nat /\ Settle > Width
  /\ EdgeOrder \in {"registered", "ctrl_first"}
  /\ ScanWhileClearing \in ScanProofs!Bit
  /\ {BitsOf(text) : text \in Configs} \subseteq [ScanProofs!Index -> ScanProofs!Bit]
BY WidthAssumption, BenchAssumption, EdgeOrderAssumption, FirstWordAssumption,
   ConfigsAreBits DEF ScanProofs!Bit

-----------------------------------------------------------------------------
(* The invariant of the program holds whatever the fabric answers.         *)

(* A step of the system is one of the program or leaves its state alone.    *)
LEMMA StepOfHost ==
  ASSUME [Next]_vars
  PROVE  [HostStep]_hostVars
<1>1. CASE Tick
  BY <1>1 DEF Tick
<1>2. CASE Program
  <2>1. ASSUME Silent(ReadResults)
        PROVE  HostStep
    <3>1. PICK y0 \in Sampled(SIGNAL_Y0), y1 \in Sampled(SIGNAL_Y1) :
            Case5(GPIO_1(y0, y1))
      BY <2>1 DEF Silent, ReadResults
    <3>2. PICK word : word = GPIO_1(y0, y1)
      OBVIOUS
    <3> QED
      BY <3>1, <3>2 DEF HostStep
  <2> QED
    BY <1>2, <2>1 DEF Program, Silent, Store, HostStep
<1>3. CASE User
  BY <1>3 DEF User, Silent, HostStep
<1>4. CASE UNCHANGED vars
  BY <1>4 DEF vars
<1> QED
  BY <1>1, <1>2, <1>3, <1>4 DEF Next

(* The word in the PIO is the one the program's string says, and the rest   *)
(* of the program's invariant, with the clock running in between.           *)
LEMMA HostInvariance == AnswersFit => (Spec => []IInv)
<1> SUFFICES ASSUME AnswersFit PROVE Spec => []IInv
  OBVIOUS
<1>1. Init => IInv
  BY IInvInit DEF Init
<1>2. IInv /\ [Next]_vars => IInv'
  BY StepOfHost, IInvStep
<1> QED
  BY <1>1, <1>2, PTL DEF Spec

-----------------------------------------------------------------------------
(* The words of the program, through the port map.                         *)

Stage == CASE pc = "case2" -> 1
           [] pc = "case3" -> 2
           [] pc = "case4" -> 3
           [] pc = "case5" -> 4
           [] OTHER        -> 0

(* A configuration has as many bits as the register.                        *)
LEMMA Indices ==
  Width = 16 /\ Index = 0 .. 15
BY BenchAssumption DEF ConfigLength, Index

(* The bits of a word that hold a configuration.                           *)
LEMMA TestDataIs ==
  ASSUME NEW line, \A i \in 0 .. 15 : gpio_0[6 + i] = CharAt(line, 16 - i)
  PROVE  TEST_DATA = BitsOf(Shortened(line, 16))
<1>1. ASSUME NEW i \in 0 .. 15
      PROVE  Shortened(line, 16)[16 - i] = gpio_0[6 + i]
  BY <1>1 DEF Shortened
<1> QED
  BY <1>1, Indices DEF TEST_DATA, BitsOf

(* What the first word of a test sets on the fabric (main.c:298-316).       *)
LEMMA ScanCase1 ==
  ASSUME Case1
  PROVE  /\ SCAN_ENABLE' = ScanWhileClearing /\ SIPO_CLEAR' = "1" /\ TRI_E' = "1"
         /\ TEST_DATA' = [i \in Index |-> "1"]
<1>1. gpio_0'[1] = ScanWhileClearing /\ gpio_0'[22] = "1" /\ gpio_0'[0] = "1"
  BY FirstWord DEF WordBit
<1>2. ASSUME NEW i \in Index
      PROVE  gpio_0'[6 + i] = "1"
  <2>1. 6 + i \in WordBit /\ 6 + i # 1
    BY Indices DEF WordBit
  <2> QED
    BY <2>1, FirstWord
<1> QED
  BY <1>1, <1>2 DEF SCAN_ENABLE, SIPO_CLEAR, TRI_E, TEST_DATA

(* What the second sets: a scan, and the configuration (main.c:319-352).    *)
LEMMA ScanCase2 ==
  ASSUME IInv, Case2
  PROVE  /\ SCAN_ENABLE' = "1" /\ SIPO_CLEAR' = "0" /\ TRI_E' = TRI_E
         /\ TEST_DATA' \in {BitsOf(text) : text \in Configs}
<1>1. /\ gpio_0'[1] = "1" /\ gpio_0'[22] = "0" /\ gpio_0'[0] = gpio_0[0]
      /\ \A i \in 0 .. 15 : gpio_0'[6 + i] = CharAt(TestConfig, 16 - i)
      /\ Shortened(TestConfig, 16) \in Configs
  BY ScanWord
<1>2. TEST_DATA' = BitsOf(Shortened(TestConfig, 16))
  <2>1. PICK line : line = TestConfig
    OBVIOUS
  <2>2. ASSUME NEW i \in 0 .. 15
        PROVE  Shortened(line, 16)[16 - i] = gpio_0'[6 + i]
    BY <1>1, <2>1 DEF Shortened
  <2> QED
    BY <2>1, <2>2, Indices DEF TEST_DATA, BitsOf
<1> QED
  BY <1>1, <1>2 DEF SCAN_ENABLE, SIPO_CLEAR, TRI_E

(* The third only ends the scan (main.c:355-371).                           *)
LEMMA ScanCase3 ==
  ASSUME IInv, Case3
  PROVE  /\ SCAN_ENABLE' = "0" /\ SIPO_CLEAR' = SIPO_CLEAR /\ TRI_E' = TRI_E
         /\ TEST_DATA' = TEST_DATA
<1>1. gpio_0'[1] = "0" /\ gpio_0'[22] = gpio_0[22] /\ gpio_0'[0] = gpio_0[0]
  BY HeldWord DEF WordBit
<1>2. ASSUME NEW i \in Index
      PROVE  gpio_0'[6 + i] = gpio_0[6 + i]
  <2>1. 6 + i \in WordBit /\ 6 + i # 1
    BY Indices DEF WordBit
  <2> QED
    BY <2>1, HeldWord
<1> QED
  BY <1>1, <1>2 DEF SCAN_ENABLE, SIPO_CLEAR, TRI_E, TEST_DATA

(* The fourth changes nothing on the scan path (main.c:374-405).            *)
LEMMA ScanCase4 ==
  ASSUME IInv, Case4
  PROVE  /\ SCAN_ENABLE' = SCAN_ENABLE /\ SIPO_CLEAR' = SIPO_CLEAR
         /\ TEST_DATA' = TEST_DATA
<1>1. gpio_0'[1] = gpio_0[1] /\ gpio_0'[22] = gpio_0[22]
  BY DrivenWord
<1>2. ASSUME NEW i \in Index
      PROVE  gpio_0'[6 + i] = gpio_0[6 + i]
  <2>1. 6 + i \in 6 .. 22
    BY Indices
  <2> QED
    BY <2>1, DrivenWord
<1> QED
  BY <1>1, <1>2 DEF SCAN_ENABLE, SIPO_CLEAR, TEST_DATA

-----------------------------------------------------------------------------
(* Program and fabric implement the scan path of ScanChain.                *)

(* A clock edge of the system is one of ScanChain.                          *)
LEMMA SameEdge ==
  ASSUME Tick
  PROVE  Scan!Tick
BY DEF Tick, Scan!Tick, Edge, Scan!Edge, CtrlEdge, Scan!CtrlEdge, ScanBit, Scan!ScanBit,
       Rewind, Scan!Rewind, SipoEdge, Scan!SipoEdge, TakeBit, Scan!TakeBit,
       Clear, Scan!Clear, Hold, Scan!Hold, Selected, Scan!Selected,
       Decremented, Scan!Decremented, Shifted, Scan!Shifted, Empty, Scan!Empty,
       Index, Scan!Index, ShiftEnable, Scan!ShiftEnable, sipoVars, Scan!sipoVars,
       hostVars, testVars, SCAN_ENABLE, SIPO_CLEAR, TEST_DATA

(* Each step of the system is one of ScanChain, or leaves it alone.         *)
LEMMA ScanStep ==
  ASSUME IInv, [Next]_vars
  PROVE  [Scan!Next]_(Scan!vars)
<1>1. CASE Tick
  BY <1>1, SameEdge DEF Scan!Next
<1>2. CASE Store(Case1)
  <2>1. Stage = 0 /\ Stage' = 1 /\ elapsed' = 0 /\ UNCHANGED fabricVars /\ Case1
    BY <1>2 DEF Store, Case1, Put, Stage
  <2>2. /\ SCAN_ENABLE' = ScanWhileClearing /\ SIPO_CLEAR' = "1"
        /\ TEST_DATA' = [i \in Index |-> "1"]
    BY <2>1, ScanCase1
  <2>3. Scan!Case1
    BY <2>1, <2>2 DEF Scan!Case1, Scan!Starts, Scan!Written, Scan!fabricVars,
                      fabricVars, Stage, Scan!AllOnes, Scan!Index, Index
  <2> QED
    BY <2>3 DEF Scan!Next
<1>3. CASE Slept /\ Store(Case2)
  <2>1. /\ Stage = 1 /\ Stage' = 2 /\ elapsed' = 0 /\ UNCHANGED fabricVars /\ Case2
        /\ elapsed = Settle
    BY <1>3 DEF Store, Slept, Case2, Put, Stage
  <2>2. /\ SCAN_ENABLE' = "1" /\ SIPO_CLEAR' = "0"
        /\ TEST_DATA' \in {BitsOf(text) : text \in Configs}
    BY <2>1, ScanCase2
  <2>3. Scan!Case2
    BY <2>1, <2>2 DEF Scan!Case2, Scan!Starts, Scan!Written, Scan!fabricVars,
                      fabricVars, Stage
  <2> QED
    BY <2>3 DEF Scan!Next
<1>4. CASE Slept /\ Store(Case3)
  <2>1. /\ Stage = 2 /\ Stage' = 3 /\ elapsed' = 0 /\ UNCHANGED fabricVars /\ Case3
        /\ elapsed = Settle
    BY <1>4 DEF Store, Slept, Case3, Put, Stage
  <2>2. SCAN_ENABLE' = "0" /\ SIPO_CLEAR' = SIPO_CLEAR /\ TEST_DATA' = TEST_DATA
    BY <2>1, ScanCase3
  <2>3. Scan!Case3
    BY <2>1, <2>2 DEF Scan!Case3, Scan!Starts, Scan!Written, Scan!fabricVars,
                      fabricVars, Stage
  <2> QED
    BY <2>3 DEF Scan!Next
<1>5. CASE Slept /\ Store(Case4)
  <2>1. /\ Stage = 3 /\ Stage' = 4 /\ elapsed' = 0 /\ UNCHANGED fabricVars /\ Case4
        /\ elapsed = Settle
    BY <1>5 DEF Store, Slept, Case4, Put, Stage
  <2>2. SCAN_ENABLE' = SCAN_ENABLE /\ SIPO_CLEAR' = SIPO_CLEAR /\ TEST_DATA' = TEST_DATA
    BY <2>1, ScanCase4
  <2>3. Scan!Case4
    BY <2>1, <2>2 DEF Scan!Case4, Scan!Starts, Scan!Written, Scan!fabricVars,
                      fabricVars, Stage
  <2> QED
    BY <2>3 DEF Scan!Next
<1>6. CASE Slept /\ Silent(ReadResults)
  <2>1. /\ Stage = 4 /\ Stage' = 0 /\ UNCHANGED <<fabricVars, elapsed, gpio_0>>
        /\ elapsed = Settle
    BY <1>6 DEF Silent, Slept, ReadResults, Case5, Stage
  <2>2. UNCHANGED <<SCAN_ENABLE, SIPO_CLEAR, TEST_DATA>>
    BY <2>1 DEF SCAN_ENABLE, SIPO_CLEAR, TEST_DATA
  <2>3. Scan!Case5
    BY <2>1, <2>2 DEF Scan!Case5, Scan!Starts, Scan!fabricVars, fabricVars, Stage
  <2> QED
    BY <2>3 DEF Scan!Next
<1>7. CASE Silent(Kill)
  <2>1. /\ Stage' = 0 /\ UNCHANGED <<fabricVars, elapsed, gpio_0>>
    BY <1>7 DEF Silent, Kill, Stage
  <2>2. UNCHANGED <<SCAN_ENABLE, SIPO_CLEAR, TEST_DATA>>
    BY <2>1 DEF SCAN_ENABLE, SIPO_CLEAR, TEST_DATA
  <2>3. CASE Stage = 0
    BY <2>1, <2>2, <2>3 DEF Scan!vars, Scan!fabricVars, fabricVars, Scan!hostVars, Stage
  <2>4. CASE Stage # 0
    <3>1. Scan!Restart
      BY <2>1, <2>2, <2>4 DEF Scan!Restart, Scan!fabricVars, fabricVars, Stage
    <3> QED
      BY <3>1 DEF Scan!Next
  <2> QED
    BY <2>3, <2>4
<1>8. ASSUME UNCHANGED <<fabricVars, elapsed, gpio_0>>, Stage' = Stage
      PROVE  UNCHANGED Scan!vars
  BY <1>8 DEF Scan!vars, Scan!fabricVars, fabricVars, Scan!hostVars, Stage,
              SCAN_ENABLE, SIPO_CLEAR, TEST_DATA
<1>9. CASE \/ Silent(WriteText) \/ Silent(WriteNewline) \/ Silent(EndInFile)
           \/ Silent(BeginConfiguration) \/ Silent(EndConfiguration)
           \/ Silent(Finish) \/ Silent(Start)
           \/ Silent(WriteHeader) \/ Silent(WriteResult)
  <2>1. UNCHANGED <<fabricVars, elapsed, gpio_0>>
    BY <1>9 DEF Silent, WriteText, WriteNewline, EndInFile, BeginConfiguration,
                EndConfiguration, Finish, Start, WriteHeader, WriteResult, testVars
  <2>2. Stage' = Stage
    BY <1>9 DEF Silent, WriteText, WriteNewline, EndInFile, BeginConfiguration,
                EndConfiguration, Finish, Start, WriteHeader, WriteResult, Stage
  <2> QED
    BY <1>8, <2>1, <2>2
<1>10. CASE UNCHANGED vars
  BY <1>8, <1>10 DEF vars, hostVars, testVars, Stage
<1> QED
  BY <1>1, <1>2, <1>3, <1>4, <1>5, <1>6, <1>7, <1>9, <1>10 DEF Next, Program, User

(* The PIO resets to the levels ScanChain starts from.                      *)
LEMMA ScanStart ==
  ASSUME Init
  PROVE  Scan!Init
<1>1. gpio_0 = ResetWord /\ Stage = 0 /\ elapsed = 0 /\ FabricInit
  BY DEF Init, HostInit, Stage
<1>2. SCAN_ENABLE = "1" /\ SIPO_CLEAR = "0" /\ TEST_DATA = [i \in Index |-> "1"]
  <2>1. \A i \in Index : 6 + i \in WordBit /\ 6 + i # 22
    BY Indices DEF WordBit
  <2> QED
    BY <1>1, <2>1 DEF SCAN_ENABLE, SIPO_CLEAR, TEST_DATA, ResetWord, WordBit
<1>3. Scan!FabricInit
  BY <1>1 DEF FabricInit, Scan!FabricInit, CtrlInit, Scan!CtrlInit, SipoInit,
              Scan!SipoInit, Index, Scan!Index, Bit, Scan!Bit
<1> QED
  BY <1>1, <1>2, <1>3 DEF Scan!Init, Scan!AllOnes, Scan!Index, Index, Stage

(* The words main.c builds character by character take the scan path       *)
(* through the protocol of ScanChain, whatever the files hold and wherever *)
(* an earlier run was stopped (main.c:298-422).                            *)
THEOREM ScanRefinement ==
  ASSUME AnswersFit
  PROVE  Spec => ImplementsScanChain
BY ScanStart, ScanStep, HostInvariance, PTL DEF Spec, ImplementsScanChain, Scan!Spec

-----------------------------------------------------------------------------
(* What ScanChainProofs shows of ScanChain holds of the system.            *)

(* Both instances of ScanChain are the same specification.                 *)
LEMMA SameScan == Scan!Spec => ScanProofs!Spec
<1>1. Scan!Init => ScanProofs!Init
  BY DEF Scan!Init, ScanProofs!Init, Scan!FabricInit, ScanProofs!FabricInit,
         Scan!CtrlInit, ScanProofs!CtrlInit, Scan!SipoInit, ScanProofs!SipoInit,
         Scan!AllOnes, ScanProofs!AllOnes, Scan!Index, ScanProofs!Index,
         Scan!Bit, ScanProofs!Bit
<1>2. Scan!vars = ScanProofs!vars
  BY DEF Scan!vars, ScanProofs!vars, Scan!fabricVars, ScanProofs!fabricVars,
         Scan!hostVars, ScanProofs!hostVars
<1>3. Scan!Tick => ScanProofs!Tick
  BY DEF Scan!Tick, ScanProofs!Tick, Scan!Edge, ScanProofs!Edge,
         Scan!CtrlEdge, ScanProofs!CtrlEdge, Scan!ScanBit, ScanProofs!ScanBit,
         Scan!Rewind, ScanProofs!Rewind, Scan!SipoEdge, ScanProofs!SipoEdge,
         Scan!TakeBit, ScanProofs!TakeBit, Scan!Clear, ScanProofs!Clear,
         Scan!Hold, ScanProofs!Hold, Scan!Selected, ScanProofs!Selected,
         Scan!Decremented, ScanProofs!Decremented, Scan!Shifted, ScanProofs!Shifted,
         Scan!Empty, ScanProofs!Empty, Scan!Index, ScanProofs!Index,
         Scan!ShiftEnable, ScanProofs!ShiftEnable, Scan!sipoVars, ScanProofs!sipoVars
<1>4. Scan!Case1 => ScanProofs!Case1
  BY DEF Scan!Case1, ScanProofs!Case1, Scan!Starts, ScanProofs!Starts,
         Scan!Written, ScanProofs!Written, Scan!AllOnes, ScanProofs!AllOnes,
         Scan!Index, ScanProofs!Index, Scan!fabricVars, ScanProofs!fabricVars
<1>5. Scan!Case2 => ScanProofs!Case2
  BY DEF Scan!Case2, ScanProofs!Case2, Scan!Starts, ScanProofs!Starts,
         Scan!Written, ScanProofs!Written, Scan!fabricVars, ScanProofs!fabricVars
<1>6. Scan!Case3 => ScanProofs!Case3
  BY DEF Scan!Case3, ScanProofs!Case3, Scan!Starts, ScanProofs!Starts,
         Scan!Written, ScanProofs!Written, Scan!fabricVars, ScanProofs!fabricVars
<1>7. Scan!Case4 => ScanProofs!Case4
  BY DEF Scan!Case4, ScanProofs!Case4, Scan!Starts, ScanProofs!Starts,
         Scan!Written, ScanProofs!Written, Scan!fabricVars, ScanProofs!fabricVars
<1>8. /\ Scan!Case5 => ScanProofs!Case5
      /\ Scan!Restart => ScanProofs!Restart
  BY DEF Scan!Case5, ScanProofs!Case5, Scan!Starts, ScanProofs!Starts,
         Scan!Restart, ScanProofs!Restart, Scan!fabricVars, ScanProofs!fabricVars
<1>9. [Scan!Next]_(Scan!vars) => [ScanProofs!Next]_(ScanProofs!vars)
  <2>1. Scan!Next => ScanProofs!Next
    BY <1>3, <1>4, <1>5, <1>6, <1>7, <1>8 DEF Scan!Next, ScanProofs!Next
  <2>2. UNCHANGED Scan!vars => UNCHANGED ScanProofs!vars
    BY DEF Scan!vars, ScanProofs!vars, Scan!fabricVars, ScanProofs!fabricVars,
           Scan!hostVars, ScanProofs!hostVars
  <2> QED
    BY <2>1, <2>2
<1> QED
  BY <1>1, <1>9, PTL DEF Scan!Spec, ScanProofs!Spec

(* The scan path keeps its invariant under the words of the program.       *)
LEMMA ScanInvariance ==
  ASSUME AnswersFit
  PROVE  Spec => []ScanProofs!Inv
<1>1. ScanProofs!Spec => []ScanProofs!Inv
  BY ScanConstants, ScanProofs!Invariance
<1> QED
  BY <1>1, SameScan, ScanRefinement, PTL DEF ImplementsScanChain

(* With the first word that main.c documents, the register holds the       *)
(* configuration of the word when main.c reports the scan completed        *)
(* (main.c:311-356).                                                       *)
THEOREM ConfigurationLoaded ==
  ASSUME AnswersFit, ScanWhileClearing = "0"
  PROVE  Spec => []ConfigLoaded
<1>1. ScanProofs!Spec => []ScanProofs!ConfigLoaded
  BY ScanConstants, ScanProofs!DocumentedWriteLoads
<1>2. ScanProofs!ConfigLoaded => ConfigLoaded
  BY DEF ScanProofs!ConfigLoaded, ConfigLoaded, Scan!ConfigLoaded,
         ScanProofs!ScanCompleted, Scan!ScanCompleted
<1> QED
  BY <1>1, <1>2, SameScan, ScanRefinement, PTL DEF ImplementsScanChain

(* The registers of the fabric stay in their ranges, the word of the PIO   *)
(* is one of bits, whatever the strings it is built from held              *)
(* (HPSFPGA.vhd, main.c:298-422).                                          *)
THEOREM TypeCorrect ==
  ASSUME AnswersFit
  PROVE  Spec => []TypeOK
<1>1. ASSUME IInv, ScanProofs!Inv
      PROVE  TypeOK
  <2>1. gpio_0 \in [WordBit -> Bit]
    BY <1>1 DEF IInv, Words, Bit
  <2>2. FabricTypeOK /\ elapsed \in 0 .. Settle
    BY <1>1 DEF ScanProofs!Inv, ScanProofs!TypeOK, ScanProofs!FabricTypeOK,
                ScanProofs!CtrlTypeOK, ScanProofs!SipoTypeOK, ScanProofs!Bit,
                ScanProofs!CountRange, ScanProofs!Index,
                FabricTypeOK, CtrlTypeOK, SipoTypeOK, Bit, CountRange, Index
  <2> QED
    BY <2>1, <2>2 DEF TypeOK
<1> QED
  BY <1>1, HostInvariance, ScanInvariance, PTL

-----------------------------------------------------------------------------
(* The copies are driven only by a full register.                          *)

(* Between the first write of a test and the fourth the buffers are off,   *)
(* and whenever they are on, also after a program was stopped there, the   *)
(* register is full and neither scanned nor cleared.                       *)
Driven ==
  /\ pc \in {"case2", "case3", "case4"} => TRI_E = "1"
  /\ TRI_E = "0" => SCAN_ENABLE = "0" /\ SIPO_CLEAR = "0" /\ filled = Width

(* An edge leaves a full register alone.                                   *)
LEMMA EdgeHolds ==
  ASSUME Driven, TRI_E = "0", Tick
  PROVE  tmp' = tmp /\ filled' = filled
BY Indices DEF Driven, Tick, Edge, SipoEdge, TakeBit, Clear, Hold, sipoVars

(* A test ready for its stimulus has a full register and no scan.          *)
LEMMA ReadyForStimulus ==
  ASSUME ScanProofs!Inv, pc = "case4"
  PROVE  SCAN_ENABLE = "0" /\ SIPO_CLEAR = "0" /\ filled = Width
BY DEF ScanProofs!Inv, ScanProofs!LevelsOfStage, ScanProofs!Filled

(* Each step keeps Driven, and the register of driven copies.               *)
LEMMA DrivenStep ==
  ASSUME IInv, ScanProofs!Inv, Driven, [Next]_vars
  PROVE  Driven' /\ (TRI_E = "0" => tmp' = tmp)
<1>1. CASE Tick
  <2>1. UNCHANGED <<pc, TRI_E, SCAN_ENABLE, SIPO_CLEAR>>
    BY <1>1 DEF Tick, hostVars, testVars, TRI_E, SCAN_ENABLE, SIPO_CLEAR
  <2> QED
    BY <1>1, <2>1, EdgeHolds DEF Driven
<1>2. CASE Store(Case1)
  <2>1. TRI_E' = "1"
    BY <1>2, ScanCase1 DEF Store
  <2> QED
    BY <1>2, <2>1 DEF Driven, Store, fabricVars
<1>3. CASE Store(Case2)
  <2>1. TRI_E = "1" /\ TRI_E' = "1"
    BY <1>3, ScanCase2 DEF Store, Driven, Case2, Put
  <2> QED
    BY <2>1 DEF Driven
<1>4. CASE Store(Case3)
  <2>1. TRI_E = "1" /\ TRI_E' = "1"
    BY <1>4, ScanCase3 DEF Store, Driven, Case3, Put
  <2> QED
    BY <2>1 DEF Driven
<1>5. CASE Store(Case4)
  <2>1. /\ pc = "case4" /\ pc' = "case5" /\ UNCHANGED <<tmp, filled>>
    BY <1>5 DEF Store, Case4, Put, fabricVars
  <2>2. SCAN_ENABLE' = SCAN_ENABLE /\ SIPO_CLEAR' = SIPO_CLEAR
    BY <1>5, ScanCase4 DEF Store
  <2> QED
    BY <2>1, <2>2, ReadyForStimulus DEF Driven
<1>6. ASSUME UNCHANGED <<tmp, filled, gpio_0>>,
             pc' = pc \/ pc' \notin {"case2", "case3", "case4"}
      PROVE  Driven' /\ tmp' = tmp
  BY <1>6 DEF Driven, TRI_E, SCAN_ENABLE, SIPO_CLEAR
<1>7. CASE \/ Silent(WriteText) \/ Silent(WriteNewline) \/ Silent(EndInFile)
           \/ Silent(BeginConfiguration) \/ Silent(EndConfiguration)
           \/ Silent(ReadResults) \/ Silent(Finish) \/ Silent(Start) \/ Silent(Kill)
           \/ Silent(WriteHeader) \/ Silent(WriteResult)
  <2>1. UNCHANGED <<tmp, filled, gpio_0>>
    BY <1>7 DEF Silent, WriteText, WriteNewline, EndInFile, BeginConfiguration,
                EndConfiguration, ReadResults, Case5, Finish, Start, Kill, WriteHeader,
                WriteResult, testVars, fabricVars
  <2>2. pc' \notin {"case2", "case3", "case4"}
    BY <1>7 DEF Silent, WriteText, WriteNewline, EndInFile, BeginConfiguration,
                EndConfiguration, ReadResults, Case5, Finish, Start, Kill, WriteHeader,
                WriteResult
  <2> QED
    BY <1>6, <2>1, <2>2
<1>8. CASE UNCHANGED vars
  BY <1>6, <1>8 DEF vars, hostVars, testVars, fabricVars
<1> QED
  BY <1>1, <1>2, <1>3, <1>4, <1>5, <1>7, <1>8 DEF Next, Program, User

(* From the moment a stimulus drives the copies until the next test the    *)
(* faults in front of them do not change, also when the program is stopped *)
(* there and another one started (main.c:298-422).                         *)
THEOREM DrivenIsStable ==
  ASSUME AnswersFit
  PROVE  Spec => StableWhileDriven
<1>1. Init => Driven
  BY DEF Init, HostInit, Driven, TRI_E, ResetWord, WordBit
<1>2. IInv /\ ScanProofs!Inv /\ Driven /\ [Next]_vars =>
        Driven' /\ [TRI_E = "0" => tmp' = tmp]_vars
  BY DrivenStep
<1> QED
  BY <1>1, <1>2, HostInvariance, ScanInvariance, PTL DEF Spec, StableWhileDriven

-----------------------------------------------------------------------------
(* Program and fabric append to the result file what Campaign allows.      *)

(* What is read answers the configuration and the stimulus of the word.    *)
LEMMA ReadAnswers ==
  ASSUME IInv, ConfigLoaded, pc = "case5",
         NEW y0 \in Sampled(SIGNAL_Y0), NEW y1 \in Sampled(SIGNAL_Y1),
         NEW config, config = Shortened(TestConfig, 16),
         NEW stimulus, stimulus = Shortened(InputLine, 4)
  PROVE  <<y0, y1>> \in Answered(config, stimulus)
<1>1. tmp = BitsOf(config)
  <2>1. tmp = TEST_DATA
    BY DEF ConfigLoaded, Scan!ConfigLoaded, Scan!ScanCompleted
  <2>2. PICK line : line = TestConfig
    OBVIOUS
  <2>3. \A i \in 0 .. 15 : gpio_0[6 + i] = CharAt(line, 16 - i)
    BY <2>2, WordInTest
  <2> QED
    BY <2>1, <2>2, <2>3, TestDataIs
<1>2. SIGNALS = [s \in Signal |-> stimulus[InputLength - s]]
  <2>1. ASSUME NEW s \in Signal
        PROVE  gpio_0[2 + s] = stimulus[InputLength - s]
    <3>1. s \in 0 .. 3 /\ 4 - s \in 1 .. 4
      BY DEF Signal
    <3>2. stimulus[4 - s] = CharAt(InputLine, 4 - s)
      BY <3>1 DEF Shortened
    <3> QED
      BY <3>1, <3>2, WordAtReading DEF InputLength
  <2> QED
    BY <2>1 DEF SIGNALS
<1>3. TRI_E = "0"
  BY WordAtReading DEF TRI_E
<1>4. /\ SIGNAL_Y0 = SignalY0(BitsOf(config), [s \in Signal |-> stimulus[InputLength - s]], "0")
      /\ SIGNAL_Y1 = SignalY1(BitsOf(config), [s \in Signal |-> stimulus[InputLength - s]], "0")
  BY <1>1, <1>2, <1>3 DEF SIGNAL_Y0, SIGNAL_Y1
<1> QED
  BY <1>4 DEF Answered

(* With the configuration in the register, each step is one of Campaign, or *)
(* leaves what it sees alone.                                               *)
LEMMA CampaignStep ==
  ASSUME IInv, ConfigLoaded, [Next]_vars
  PROVE  [Abstract!Next]_(Abstract!vars)
<1>1. CASE Start
  BY <1>1, StartBegins DEF Abstract!Begin, Abstract!Next
<1>2. CASE BeginConfiguration
  <2>1. Abstract!Header
    BY <1>2, CampaignTypes, ConfigurationBegins
       DEF Abstract!Header, Abstract!MoreRows, Abstract!RowComplete,
           Abstract!LastWhole, Whole, Abstract!Whole,
           HeaderParts, Abstract!HeaderParts, ResultParts, Abstract!ResultParts
  <2> QED
    BY <2>1 DEF Abstract!Next
<1>3. ASSUME ReadResults
      PROVE  Abstract!Result
  <2>0. PICK y0 \in Sampled(SIGNAL_Y0), y1 \in Sampled(SIGNAL_Y1) :
          Case5(GPIO_1(y0, y1))
    BY <1>3 DEF ReadResults
  <2>1. PICK word : word = GPIO_1(y0, y1)
    OBVIOUS
  <2>2. Decimal2Binary(word)[31] = y0 /\ Decimal2Binary(word)[30] = y1
    BY <2>1 DEF Decimal2Binary, GPIO_1, ReadBit
  <2>3. /\ CampaignPhase = "running" /\ CampaignPhase' = "running"
        /\ CampaignRow = m + 1 /\ CampaignRow' = m + 1
        /\ CampaignCol = j /\ CampaignCol' = j + 1 /\ j < num_inputs_comb
        /\ SizeOf(answers)' = SizeOf(answers)
        /\ Shortened(InputLine, 4) \in Stimuli
        /\ Whole(CampaignLog[Len(CampaignLog)])
        /\ CampaignLog[Len(CampaignLog) - j].config = Shortened(TestConfig, 16)
        /\ CampaignLog' = Append(CampaignLog,
             [kind |-> "result", j |-> j, v0 |-> y0, v1 |-> y1,
              input |-> Shortened(InputLine, 4),
              config |-> Shortened(TestConfig, 16), parts |-> 1])
    BY <2>0, <2>1, <2>2, ReadingAppends
  <2>4. PICK v : v = <<y0, y1>>
    OBVIOUS
  <2>5. PICK config : config = Shortened(TestConfig, 16)
    OBVIOUS
  <2>6. PICK stimulus : stimulus = Shortened(InputLine, 4)
    OBVIOUS
  <2>7. v \in Answered(config, stimulus)
    <3>1. pc = "case5"
      BY <2>0 DEF Case5
    <3> QED
      BY <2>4, <2>5, <2>6, <3>1, ReadAnswers
  <2>8. \E s \in Stimuli : \E w \in Answered(Abstract!RowHeader.config, s) :
          CampaignLog' = Append(CampaignLog,
            [kind |-> "result", j |-> CampaignCol, v0 |-> w[1], v1 |-> w[2],
             input |-> s, config |-> Abstract!RowHeader.config, parts |-> 1])
    <3>1. v[1] = y0 /\ v[2] = y1
      BY <2>4
    <3>2. Abstract!RowHeader.config = config
      BY <2>3, <2>5 DEF Abstract!RowHeader
    <3> QED
      BY <2>3, <2>5, <2>6, <2>7, <3>1, <3>2
  <2>9. CampaignRow > 0 /\ CampaignCol < SizeOf(answers).inputs
    BY <2>3, CampaignTypes
  <2>10. Abstract!LastWhole
    BY <2>3 DEF Abstract!LastWhole, Whole, Abstract!Whole, HeaderParts,
                Abstract!HeaderParts, ResultParts, Abstract!ResultParts
  <2> QED
    BY <2>3, <2>8, <2>9, <2>10 DEF Abstract!Result
<1>4. CASE WriteHeader \/ WriteResult
  <2>1. Abstract!Write
    BY <1>4, EntryWritten
       DEF Abstract!Write, Abstract!LastWhole, Whole, Abstract!Whole,
           HeaderParts, Abstract!HeaderParts, ResultParts, Abstract!ResultParts,
           Continued, Abstract!Continued, OneMore, Abstract!OneMore
  <2> QED
    BY <2>1 DEF Abstract!Next
<1>5. CASE Finish
  <2>1. Abstract!End
    BY <1>5, CampaignTypes, FinishEnds
       DEF Abstract!End, Abstract!RowComplete,
           Abstract!LastWhole, Whole, Abstract!Whole,
           HeaderParts, Abstract!HeaderParts, ResultParts, Abstract!ResultParts
  <2> QED
    BY <2>1 DEF Abstract!Next
<1>6. CASE Kill
  BY <1>6, KillGivesUp DEF Abstract!GiveUp, Abstract!NoSize, Abstract!Next
<1>7. CASE \/ WriteText \/ WriteNewline \/ EndInFile \/ EndConfiguration
           \/ Case1 \/ Case2 \/ Case3 \/ Case4
           \/ UNCHANGED hostVars
  BY <1>7, OthersStutter DEF CampaignVars, Abstract!vars
<1>8. \/ Start \/ BeginConfiguration \/ ReadResults \/ Finish \/ Kill
      \/ WriteText \/ WriteNewline \/ EndInFile \/ EndConfiguration
      \/ Case1 \/ Case2 \/ Case3 \/ Case4
      \/ WriteHeader \/ WriteResult
      \/ UNCHANGED hostVars
  BY DEF Next, Tick, Program, User, Silent, Store, vars
<1> QED
  BY <1>1, <1>2, <1>3, <1>4, <1>5, <1>6, <1>7, <1>8 DEF Abstract!Next

(* With the first word that main.c documents, program and fabric together  *)
(* implement Campaign: each line they append holds the outputs of the two  *)
(* copies for the configuration and the stimulus it names                  *)
(* (main.c:286-507, system_w_scan.v).                                      *)
THEOREM Refinement ==
  ASSUME AnswersFit, ScanWhileClearing = "0"
  PROVE  Spec => ImplementsCampaign
<1>1. ASSUME Init
      PROVE  Abstract!Init
  <2>1. CampaignLog = <<>>
    BY <1>1 DEF Init, HostInit, CampaignLog
  <2>2. SizeOf(answers) = Abstract!NoSize /\ CampaignPhase = "idle" /\ CampaignRow = 0
        /\ CampaignCol = 0
    BY <1>1 DEF Init, HostInit, SizeOf, NoAnswers, CampaignPhase, CampaignRow,
                CampaignCol, InRow, InTest, Abstract!NoSize
  <2> QED
    BY <2>1, <2>2 DEF Abstract!Init
<1> QED
  BY <1>1, CampaignStep, HostInvariance, ConfigurationLoaded, PTL
     DEF Spec, ImplementsCampaign, Abstract!Spec
=============================================================================
