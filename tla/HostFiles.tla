------------------------------ MODULE HostFiles ------------------------------
(***************************************************************************)
(* main.c by itself, over arbitrary answers of the fabric: what its loops  *)
(* make of the three text files when the program is stopped anywhere and   *)
(* started again, and what that does to the words it writes.               *)
(***************************************************************************)
EXTENDS HostView

CONSTANT Levels      \* levels the result bits of the word read may have

Init == HostInit

ReadWord(v0, v1) ==
  [b \in ReadBit |-> CASE b = 0 -> v0 [] b = 1 -> v1 [] OTHER -> "1"]

Test ==
  \/ Case1 \/ Case2 \/ Case3 \/ Case4
  \/ \E v0, v1 \in Levels : Case5(ReadWord(v0, v1))

Next ==
  \/ Start \/ WriteText \/ WriteNewline \/ EndInFile
  \/ BeginConfiguration \/ WriteHeader \/ EndConfiguration \/ Finish
  \/ Test \/ WriteResult
  \/ Kill

Spec == Init /\ [][Next]_hostVars

-----------------------------------------------------------------------------
(* Every variable holds a value of its kind; m never passes the number of  *)
(* configurations asked for.                                               *)
TypeOK ==
  /\ pc \in {"start", "in_file", "newline", "outer", "header", "inner",
             "case2", "case3", "case4", "case5", "result", "done"}
  /\ written \in 0 .. LineCount
  /\ answers \in Answers \cup {NoAnswers}
  /\ value_input_files \in [Cell -> {"0", "1", "nul"}]
  /\ m \in 0 .. num_test_comb /\ j \in 0 .. num_inputs_comb
  /\ main_string \in [Cell -> {"0", "1", "nl", "nul"}]
  /\ gpio_0 \in [WordBit -> {"0", "1"}]
  /\ runs \in 0 .. MaxRuns

(* All cells are addressed by their distance from strlen(main_string), and *)
(* so are the bits of the word.  The string has its 32 characters as long  *)
(* as the configuration line fills its field; a shorter one brings its     *)
(* terminating zero with it and ends the string there, for all the cases   *)
(* that follow, and SCAN_ENABLE and TRI_E are then taken off at other      *)
(* cells (main.c:323-324, 335-339, 359, 381).                              *)
StringEndsWithLine ==
  /\ pc = "case2" => StrLen(main_string) = 32
  /\ pc \in {"case3", "case4", "case5"} =>
       StrLen(main_string) =
         IF Len(TestConfig) >= ConfigLength THEN 32 ELSE 10 + Len(TestConfig)

(* No line is asked for that the files do not have: fgets would leave the  *)
(* line before it in the buffer, and it would be tested again (main.c:130, *)
(* 148).                                                                   *)
NoReadPastEnd ==
  /\ pc = "inner" \/ InTest => m < Len(test_config_txt)
  /\ InTest => j < Len(dut_inputs_txt)

(* The bits of the word that TEST_DATA and the four signals are wired to.  *)
ConfigBits   == [i \in 0 .. 15 |-> gpio_0[6 + i]]
StimulusBits == [s \in 0 .. 3 |-> gpio_0[2 + s]]

(* The first configuration of a run is the golden reference, on which the  *)
(* later evaluation compares all others (main.c:242-249), also in a run    *)
(* that finds the files of an earlier one.                                 *)
GoldenFirst ==
  m = 0 /\ pc \in {"case3", "case4", "case5"} => \A i \in 0 .. 15 : ConfigBits[i] = "1"

(* When the outputs are read, the word holds the configuration and the     *)
(* stimulus that the result line will name, in their bit positions, with   *)
(* the drivers on and the scan and the clear off.                          *)
WordAsNamed ==
  pc = "case5" =>
    /\ \A i \in 0 .. 15 :
         CharAt(TestConfig, 16 - i) \in {"0", "1"} =>
           ConfigBits[i] = CharAt(TestConfig, 16 - i)
    /\ \A s \in 0 .. 3 : StimulusBits[s] = input_data[4 - s]
    /\ gpio_0[0] = "0" /\ gpio_0[1] = "0" /\ gpio_0[22] = "0"

(* "Creating dut_inputs.txt Input File", "Creating test_config.txt Input   *)
(* File" (main.c:251, 261): the files the tests read hold what this run    *)
(* made.                                                                   *)
FilesAreCreated ==
  InTest => /\ Len(dut_inputs_txt) = num_inputs_comb
            /\ Len(test_config_txt) = num_test_comb + 1

-----------------------------------------------------------------------------
(* The fabric may answer anything.                                        *)
Answered(config, stimulus) == Levels \X Levels

(* However often the program is stopped and started, and whatever earlier  *)
(* runs left in the files it appends to: the result file is written as     *)
(* Campaign says, every result under the header of its configuration, in   *)
(* order, for a stimulus and a configuration that rand() or the golden     *)
(* reference gave, and a run that returns has completed its matrix         *)
(* (main.c:286-507).                                                       *)
Abstract == INSTANCE Campaign WITH
  Sizes <- CampaignSizes,
  log   <- CampaignLog,
  phase <- CampaignPhase,
  size  <- SizeOf(answers),
  row   <- CampaignRow,
  col   <- CampaignCol

ImplementsCampaign == Abstract!Spec

(* The same with the texts as they are printed, whatever they hold.        *)
Text == Seq(STRING \cup {"0", "1", "nl"})

Printed == INSTANCE Campaign WITH
  Sizes <- CampaignSizes, Configs <- Text, Stimuli <- Text,
  log   <- data_result_txt,
  phase <- CampaignPhase,
  size  <- SizeOf(answers),
  row   <- CampaignRow,
  col   <- CampaignCol

(* A run that returns has appended the whole matrix that the evaluation    *)
(* script expects to find, behind whatever stopped runs left and with no   *)
(* line cut (main.c:286-507).                                              *)
MatrixWhenEnded == Printed!MatrixWhenEnded

(* Each result stands under the header of its own configuration, with only *)
(* results of that header between them (main.c:288-293, 432-445).          *)
EachUnderItsHeader == Printed!EachUnderItsHeader

(* A run that has found no result file, or an empty one, leaves a file of  *)
(* the form that the evaluation script is given, between whichever two     *)
(* appends it is stopped: all entries in their order, headers and results  *)
(* with the same text, and none but the last one cut (main.c:286-507,      *)
(* d_metric.py:22-48).                                                     *)
FileOfOneCampaign == Printed!FileOfOneCampaign
==============================================================================
