------------------------------ MODULE ScanChain ------------------------------
(***************************************************************************)
(* The scan path: CTRL_UNIT and shift_large on one clock, wired as in      *)
(* system_w_scan.v, and the register writes with which the five cases of   *)
(* main.c clear it, scan a fault configuration in, and use it.             *)
(*                                                                         *)
(* Two processes run without synchronisation: the 50 MHz clock, and the    *)
(* host program, which waits in usleep after each write.  A wait is        *)
(* modelled by what it guarantees, at least Settle clock edges; any number *)
(* more may pass before the host's next write.                             *)
(***************************************************************************)
EXTENDS SystemWScan

CONSTANTS
  Settle,            \* edges every usleep outlasts: 50 million in the code
  Configs,           \* the fault configurations the host may ask for
  ScanWhileClearing  \* SCAN_ENABLE in the first write: "1" in the code,
                     \* "0" in the comment that lists the steps (0x007FFFFD)

VARIABLES
  scan_enable, sipo_clear, test_data,  \* levels the host last wrote
  stage,             \* the case of main.c in progress, 0 outside of them
  elapsed            \* edges since the last write, counted up to Settle

ASSUME SettleAssumption == Settle \in Nat /\ Settle > Width
ASSUME ConfigsAssumption == Configs \subseteq [Index -> Bit]
ASSUME ScanWhileClearingAssumption == ScanWhileClearing \in Bit

hostVars == <<scan_enable, sipo_clear, test_data, stage, elapsed>>
vars == <<fabricVars, hostVars>>

AllOnes == [i \in Index |-> "1"]

(* The PIO resets to 0x3FFFFF, SIPO_CLEAR low and every other bit high: a  *)
(* scan is in progress before the host program runs.                       *)
Init ==
  /\ FabricInit
  /\ scan_enable = "1" /\ sipo_clear = "0" /\ test_data = AllOnes
  /\ stage = 0 /\ elapsed = 0

-----------------------------------------------------------------------------
(* One posedge CLOCK_50. *)
Tick ==
  /\ Edge(test_data, scan_enable, sipo_clear)
  /\ elapsed' = IF elapsed < Settle THEN elapsed + 1 ELSE elapsed
  /\ UNCHANGED <<scan_enable, sipo_clear, test_data, stage>>

-----------------------------------------------------------------------------
(* The host.  A case starts when the usleep of the one before has ended.   *)
Starts(case) ==
  /\ stage = case - 1
  /\ case # 1 => elapsed = Settle

Written(case) ==
  /\ stage' = case
  /\ elapsed' = 0
  /\ UNCHANGED fabricVars

(* Clear the shift register, all other bits of the word high.              *)
Case1 ==
  /\ Starts(1) /\ Written(1)
  /\ scan_enable' = ScanWhileClearing
  /\ sipo_clear' = "1"
  /\ test_data' = AllOnes

(* Release the clear and scan the test configuration in.                   *)
Case2 ==
  /\ Starts(2) /\ Written(2)
  /\ scan_enable' = "1"
  /\ sipo_clear' = "0"
  /\ test_data' \in Configs

(* Disable the scan.                                                       *)
Case3 ==
  /\ Starts(3) /\ Written(3)
  /\ scan_enable' = "0"
  /\ UNCHANGED <<sipo_clear, test_data>>

(* Apply the stimulus: nothing of the scan path's inputs changes.          *)
Case4 ==
  /\ Starts(4) /\ Written(4)
  /\ UNCHANGED <<scan_enable, sipo_clear, test_data>>

(* Read the result; the next test or configuration follows.                *)
Case5 ==
  /\ Starts(5)
  /\ stage' = 0
  /\ UNCHANGED <<fabricVars, scan_enable, sipo_clear, test_data, elapsed>>

(* The program is stopped at any point and started again; the fabric and   *)
(* the word it was given stay as they are.                                 *)
Restart ==
  /\ stage # 0
  /\ stage' = 0
  /\ UNCHANGED <<fabricVars, scan_enable, sipo_clear, test_data, elapsed>>

Next == Tick \/ Case1 \/ Case2 \/ Case3 \/ Case4 \/ Case5 \/ Restart

Spec == Init /\ [][Next]_vars

-----------------------------------------------------------------------------
(* Every variable holds a value of its kind.                               *)
TypeOK ==
  /\ FabricTypeOK
  /\ scan_enable \in Bit /\ sipo_clear \in Bit
  /\ test_data \in [Index -> Bit]
  /\ stage \in 0 .. 4
  /\ elapsed \in 0 .. Settle

(* main.c has reported "Scanning Test Configuration Completed" and not yet *)
(* read the result.                                                        *)
ScanCompleted == stage \in {3, 4} \/ (stage = 2 /\ elapsed = Settle)

(* When main.c says that scanning is completed, the register holds the     *)
(* configuration it loaded into the word.                                  *)
ConfigLoaded == ScanCompleted => tmp = test_data

(* A position of the serialiser reduced to the range of its counter.       *)
Wrapped(c) == IF c < 2 * Width THEN c ELSE c - 2 * Width

(* The phases at which the serialiser can be when the scan begins: only    *)
(* the documented first write rewinds it.                                  *)
Phases == IF ScanWhileClearing = "0" THEN {0} ELSE CountRange

(* The lowest n bits of the register are consecutive bits of what the      *)
(* serialiser sends: bit i left it while its counter stood at p + i.  The  *)
(* first of them, bit n - 1, may have been put on the chain before the     *)
(* configuration was written, out of the all-ones word of case 1.          *)
Window(n, p) ==
  \A i \in 0 .. n - 1 :
    \/ tmp[i] = Selected(test_data, Wrapped(p + i))
    \/ /\ EdgeOrder = "registered" /\ ScanWhileClearing = "1" /\ i = n - 1
       /\ tmp[i] = Selected(AllOnes, Wrapped(p + i))

(* Whatever the serialiser's phase when the scan began, the register ends  *)
(* up with Width consecutive bits of its output: no bit is dropped, taken  *)
(* twice or out of order (CTRL_UNIT.v:19-25 against shift_large.v:15-19).  *)
LoadedWindow == ScanCompleted => \E p \in Phases : Window(Width, p)

(* From then until the next clear the register does not move, although     *)
(* the serialiser may go on sending.                                       *)
LoadFrozen == [][ScanCompleted => tmp' = tmp]_vars

(* A scan starts on an empty register, also when an earlier run of the     *)
(* program was stopped half way through a scan.                            *)
ScanStartsEmpty ==
  [][stage = 1 /\ stage' = 2 => tmp = Empty /\ filled = 0]_vars

(* Step 3 of the list in main.c goes on to step 4 on CTRL_FB == 1: the pin *)
(* is high throughout, although the scan is disabled by then.              *)
Acknowledged ==
  ScanCompleted => CtrlFb(ctrl_feedback, scan_shift_feedback) = "1"

-----------------------------------------------------------------------------
(* The inductive invariant from which ScanChainProofs derives the above.   *)

(* What the host has written, case by case.                                *)
LevelsOfStage ==
  /\ stage = 1 => /\ scan_enable = ScanWhileClearing /\ sipo_clear = "1"
                  /\ test_data = AllOnes
  /\ stage = 2 => scan_enable = "1" /\ sipo_clear = "0"
  /\ stage \in {3, 4} => scan_enable = "0" /\ sipo_clear = "0"

(* One edge of case 1 empties the register, and leaves the serialiser      *)
(* sending or rewound.                                                     *)
Cleared ==
  stage = 1 /\ elapsed > 0 =>
    /\ tmp = Empty /\ filled = 0
    /\ ScanWhileClearing = "1" =>
         /\ ctrl_feedback = "1"
         /\ scan_chain = Selected(AllOnes, Wrapped(count + 1))
    /\ ScanWhileClearing = "0" => ctrl_feedback = "0" /\ count = Width - 1

(* How far the register is behind the serialiser, and with that the        *)
(* position from which its newest bit came.                                *)
Lag   == IF EdgeOrder = "registered" THEN 1 ELSE 0
Phase == Wrapped(count + 1 + Lag)

(* The bit that the next edge takes, when the register lags.               *)
OnChain ==
  EdgeOrder = "registered" /\ ctrl_feedback = "1" =>
    \/ scan_chain = Selected(test_data, Wrapped(count + 1))
    \/ /\ filled = 0 /\ ScanWhileClearing = "1"
       /\ scan_chain = Selected(AllOnes, Wrapped(count + 1))

(* While the register fills it keeps step with the clock, and holds the    *)
(* window that ends at the serialiser's phase.                             *)
Filling ==
  stage = 2 =>
    /\ elapsed > 0 \/ ScanWhileClearing = "1" => ctrl_feedback = "1"
    /\ filled < Width =>
         /\ filled + Lag >= elapsed
         /\ OnChain
         /\ Window(filled, Phase)
         /\ ScanWhileClearing = "0" =>
              IF elapsed = 0 THEN count = Width - 1 /\ ctrl_feedback = "0" /\ filled = 0
                             ELSE Phase = Width - filled
    /\ filled = Width => \E p \in Phases : Window(Width, p)

(* A completed scan has filled the register.                               *)
Filled ==
  stage \in {3, 4} => filled = Width /\ \E p \in Phases : Window(Width, p)

(* The pin CTRL_FB was set by the first edge of the scan.                  *)
FeedbackSet ==
  stage \in {3, 4} \/ (stage = 2 /\ elapsed > 0) => scan_shift_feedback = "1"

Inv == TypeOK /\ LevelsOfStage /\ Cleared /\ Filling /\ Filled /\ FeedbackSet
==============================================================================
