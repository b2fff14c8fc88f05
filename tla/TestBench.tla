------------------------------ MODULE TestBench ------------------------------
(***************************************************************************)
(* The whole system: main.c on the ARM side, system_w_scan in the fabric,  *)
(* and between them the PIO registers wired in HPSFPGA.vhd.  The clock     *)
(* runs by itself; the program only sleeps between its writes.             *)
(***************************************************************************)
EXTENDS HostView, SystemWScan, FaultInjection

CONSTANT Settle      \* clock edges every usleep outlasts

ASSUME BenchAssumption == Width = ConfigLength /\ Settle \in Nat /\ Settle > Width

VARIABLE elapsed     \* edges since the last write, counted up to Settle

vars == <<hostVars, fabricVars, elapsed>>

-----------------------------------------------------------------------------

(* Mutant: the configuration wired one bit too low.                        *)
TestDataOffByOne == [i \in Index |-> gpio_0[5 + i]]

(* The port map of HPSFPGA.vhd.                                            *)
TRI_E       == gpio_0[0]
SCAN_ENABLE == gpio_0[1]
SIGNALS     == [s \in Signal |-> gpio_0[2 + s]]
TEST_DATA   == [i \in Index |-> gpio_0[6 + i]]
SIPO_CLEAR  == gpio_0[22]

SIGNAL_Y0 == SignalY0(tmp, SIGNALS, TRI_E)
SIGNAL_Y1 == SignalY1(tmp, SIGNALS, TRI_E)

(* The word the program reads; an undetermined result is read as a level.  *)
GPIO_1(y0, y1) ==
  [b \in ReadBit |-> CASE b = 0 -> y0
                      [] b = 1 -> y1
                      [] b = 2 -> CtrlFb(ctrl_feedback, scan_shift_feedback)
                      [] OTHER -> tmp[b - 3]]

ReadResults ==
  \E y0 \in Sampled(SIGNAL_Y0), y1 \in Sampled(SIGNAL_Y1) : Case5(GPIO_1(y0, y1))

Init ==
  /\ HostInit
  /\ FabricInit
  /\ elapsed = 0

(* One posedge CLOCK_50.                                                   *)
Tick ==
  /\ Edge(TEST_DATA, SCAN_ENABLE, SIPO_CLEAR)
  /\ elapsed' = IF elapsed < Settle THEN elapsed + 1 ELSE elapsed
  /\ UNCHANGED hostVars

(* A step of the program that touches no register of the bridge.           *)
Silent(step) == step /\ UNCHANGED <<fabricVars, elapsed>>

(* One that writes the PIO, and goes to sleep.                             *)
Store(step) == step /\ elapsed' = 0 /\ UNCHANGED fabricVars

Slept == elapsed = Settle

Program ==
  \/ Silent(WriteText)
  \/ Silent(WriteNewline)
  \/ Silent(EndInFile)
  \/ Silent(BeginConfiguration)
  \/ Silent(WriteHeader)
  \/ Silent(EndConfiguration)
  \/ Silent(Finish)
  \/ Store(Case1)
  \/ Slept /\ Store(Case2)
  \/ Slept /\ Store(Case3)
  \/ Slept /\ Store(Case4)
  \/ Slept /\ Silent(ReadResults)
  \/ Silent(WriteResult)

User == Silent(Start) \/ Silent(Kill)

Next == Tick \/ Program \/ User

Spec == Init /\ [][Next]_vars

(* The clock does not stop.  Nothing is asked of the program, which may be *)
(* scheduled late, nor of the user.                                        *)
FairSpec == Spec /\ WF_vars(Tick)

-----------------------------------------------------------------------------
(* Every variable of the composition holds a value of its kind.            *)
TypeOK ==
  /\ FabricTypeOK
  /\ gpio_0 \in [WordBit -> Bit]
  /\ elapsed \in 0 .. Settle

(* Bits of a configuration as the string of main.c has them: the character *)
(* for bit 15 first.                                                       *)
BitsOf(text) == [i \in Index |-> text[Width - i]]

(* The words main.c builds character by character take the scan path       *)
(* through the protocol of ScanChain, whatever the files hold and wherever *)
(* an earlier run was stopped.                                             *)
Scan == INSTANCE ScanChain WITH
  Configs     <- {BitsOf(text) : text \in Configs},
  scan_enable <- SCAN_ENABLE,
  sipo_clear  <- SIPO_CLEAR,
  test_data   <- TEST_DATA,
  stage       <- CASE pc = "case2" -> 1
                   [] pc = "case3" -> 2
                   [] pc = "case4" -> 3
                   [] pc = "case5" -> 4
                   [] OTHER        -> 0

ImplementsScanChain == Scan!Spec

(* With the documented first word the register holds the bits of the word, *)
(* on the full-width fabric and under the words main.c builds: what its    *)
(* message of main.c:356 says.                                             *)
ConfigLoaded == Scan!ConfigLoaded

(* What may be read of both copies for a configuration and a stimulus.     *)
Answered(config, stimulus) ==
  LET signals == [s \in Signal |-> stimulus[InputLength - s]]
      sipo    == BitsOf(config)
  IN  Sampled(SignalY0(sipo, signals, "0")) \X Sampled(SignalY1(sipo, signals, "0"))

(* With the documented first word program and fabric together write the    *)
(* result file as Campaign says: row by row, under the right headers, each *)
(* line holding the outputs of the two copies for the configuration and    *)
(* the stimulus it names (main.c:286-507).  With that of the code a scan   *)
(* may load nothing but bits from beyond the end of the configuration, and *)
(* a line may say anything.                                                *)
Abstract == INSTANCE Campaign WITH
  Sizes <- CampaignSizes,
  log   <- CampaignLog,
  phase <- CampaignPhase,
  size  <- SizeOf(answers),
  row   <- CampaignRow,
  col   <- CampaignCol

ImplementsCampaign == Abstract!Spec

(* The copies are never driven while the faults in front of them change.   *)
StableWhileDriven == [][TRI_E = "0" => tmp' = tmp]_vars

(* The program never asks whether the scan is over, it sleeps (main.c:352).*)
(* While it does the fabric takes all bits in, however it was left by an   *)
(* earlier run, unless the user stops the program before (CTRL_UNIT.v:     *)
(* 15-34, shift_large.v:13-25).                                            *)
ScanCompletes == (pc = "case3") ~> (filled = Width \/ pc = "start")

(* What is left to do of a campaign, the most significant number first:    *)
(* the lines to be written or the configurations to be tested, the stimuli *)
(* for the one in progress, the cases of the test, the appends of the      *)
(* entry.                                                                  *)
CasesLeft == CASE pc = "inner" -> 6 [] pc = "case2" -> 5 [] pc = "case3" -> 4
               [] pc = "case4" -> 3 [] pc = "case5" -> 2 [] OTHER -> 1

Left ==
  CASE pc = "in_file" -> <<2, LineCount - written, 1>>
    [] pc = "newline" -> <<2, LineCount - written, 0>>
    [] pc = "outer"   -> <<1, num_test_comb - m, 2>>
    [] pc = "header"  -> <<1, num_test_comb - m, 1, HeaderParts - LastEntry.parts>>
    [] pc = "result"  -> <<1, num_test_comb - m, 0, num_inputs_comb - j, CasesLeft,
                           ResultParts - LastEntry.parts>>
    [] pc = "done"    -> <<0>>
    [] OTHER          -> <<1, num_test_comb - m, 0, num_inputs_comb - j, CasesLeft>>

Less(s, t) ==
  \E i \in DOMAIN s \cap DOMAIN t : s[i] < t[i] /\ \A k \in 1 .. i - 1 : s[k] = t[k]

(* Whatever the program does between a start and a stop takes it nearer to *)
(* the end of the campaign: no loop goes round without having got further  *)
(* (main.c:226-269, 286-507).                                              *)
NearerTheEnd ==
  [][hostVars' # hostVars /\ pc # "start" /\ pc' # "start" => Less(Left', Left)]_vars
==============================================================================
