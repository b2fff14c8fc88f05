----------------------------- MODULE HostProgram -----------------------------
(***************************************************************************)
(* Software/main.c: the program on the ARM side.  It asks for the size of  *)
(* the campaign, appends the golden and the random fault configurations    *)
(* and the random stimuli to two text files, and then, for each line of    *)
(* the one and each line of the other, takes the fabric through the five   *)
(* cases of a test and appends the result to a third file, piece by piece. *)
(*                                                                         *)
(* The fabric appears here as the register gpio_0 the program writes, and  *)
(* as the word Case5 is given.  Waiting is left to TestBench.              *)
(***************************************************************************)
EXTENDS ResultFile

CONSTANTS
  Answers,           \* what the user may answer to the four prompts
  Rands,             \* the numbers rand() may return
  Tails,             \* what may lie in memory behind the stimulus, which
                     \* is printed as a string and has no terminating zero
  ScanWhileClearing, \* the character of SCAN_ENABLE in the first word
  MaxRuns            \* bound: how often the program is started

(* The fabric has eight injection points with two select bits each, and    *)
(* four inputs; the loops that copy a line have these numbers fixed.       *)
ConfigLength == 16
InputLength  == 4

(* With fewer inputs the program writes past the end of input_data, and    *)
(* with more than 31 inputs or 15 points it shifts an int out of range,    *)
(* and then writes past the end of value_input_files.                      *)
ASSUME AnswersAssumption ==
  Answers \subseteq [num_inputs       : InputLength .. 31,
                     num_inputs_comb  : Nat,
                     num_fault_points : 0 .. 15,
                     num_test_comb    : Nat]

(* fgets reads at most 255 characters of a line.  Each run that is stopped *)
(* between a text and its newline makes a line longer by the text, up to   *)
(* 32 characters: with seven runs no line is read in pieces.               *)
ASSUME RunsAssumption == MaxRuns \in 0 .. 7

ASSUME RandsAssumption == Rands \subseteq Nat
ASSUME TailsAssumption == Tails \subseteq Seq(STRING)
ASSUME FirstWordAssumption == ScanWhileClearing \in {"0", "1"}

VARIABLES
  pc,                \* where main stands; "case2" .. "case5" come next
  written,           \* lines in_file has written
  answers,           \* the four globals scanf fills
  value_input_files, \* char value_input_files[33]
  m, j,              \* test configuration and stimulus in progress
  main_string,       \* char main_string[33]
  input_data,        \* the stimulus of the test, for the result file
  test_config_txt, dut_inputs_txt, \* the files, as sequences of lines
  data_result_txt,   \* its entries: headers and result lines
  gpio_0,            \* the PIO register the program writes
  runs               \* how often it was started

fileVars == <<test_config_txt, dut_inputs_txt>>
testVars == <<m, j, main_string, input_data, gpio_0>>
hostVars == <<pc, written, answers, value_input_files, testVars, fileVars,
              data_result_txt, runs>>

num_inputs       == answers.num_inputs
num_inputs_comb  == answers.num_inputs_comb
num_fault_points == answers.num_fault_points
num_test_comb    == answers.num_test_comb

-----------------------------------------------------------------------------
(* The two character arrays of 33 cells, and what is done to them.         *)
Cell == 0 .. 32

StrLen(s) == CHOOSE p \in Cell : s[p] = "nul" /\ \A q \in 0 .. p - 1 : s[q] # "nul"

(* The characters up to the terminating zero, as fputs writes them.        *)
CString(s) == [k \in 1 .. StrLen(s) |-> s[k - 1]]

(* main_string[strlen(main_string)-k] = c                                  *)
FromEnd(s, k, c) == [s EXCEPT ![StrLen(s) - k] = c]

(* The character behind a line is its terminating zero.  What lies further *)
(* back in the buffer is older text; "nul" stands for all of it.           *)
CharAt(line, i) == IF i \in DOMAIN line THEN line[i] ELSE "nul"

(* The loops that copy a line into the cells first .. last.                *)
Copied(s, first, last, line) ==
  [p \in Cell |-> IF p \in first .. last THEN CharAt(line, p - first + 1)
                                         ELSE s[p]]

Digit(n, i) == IF (n \div 2^i) % 2 = 1 THEN "1" ELSE "0"

(* dec2bin_input_files: bit i goes to cell i.  The cells behind keep what  *)
(* an earlier, longer number left there, and no zero is written.           *)
Dec2Bin(s, n, max_length) ==
  [p \in Cell |-> IF p < max_length THEN Digit(n, p) ELSE s[p]]

-----------------------------------------------------------------------------
(* Text files.  A line is a sequence of characters; all but possibly the   *)
(* last end in "nl".                                                       *)
Newline == <<"nl">>

Unfinished(file) ==
  file # <<>> /\ LET line == file[Len(file)] IN line[Len(line)] # "nl"

(* fopen(..., "a"), fputs, fclose: the text goes to the end of the file,   *)
(* onto the last line when that one has no newline yet.                    *)
Appended(file, text) ==
  CASE text = <<>>      -> file
    [] Unfinished(file) -> [file EXCEPT ![Len(file)] = @ \o text]
    [] OTHER            -> Append(file, text)

(* File_Read_Test_Config and File_Read_DUT_Inputs: line n counted from 0,  *)
(* or what fgets left in the buffer, the last line, when there is none.    *)
LineRead(file, n) == file[IF n < Len(file) THEN n + 1 ELSE Len(file)]

(* Mutant: the configuration looked up by the number of the stimulus.      *)
TestConfigOfStimulus == LineRead(test_config_txt, j)

TestConfig == LineRead(test_config_txt, m)
InputLine  == LineRead(dut_inputs_txt, j)

-----------------------------------------------------------------------------
(* The words.  Cell p of the control string stands for bit 31 - p; of the  *)
(* word read back the program makes such a string of 32 characters.        *)
StringOf(scan_enable, tri_e) ==
  [p \in Cell |-> CASE p = 32 -> "nul"
                    [] p = 31 -> tri_e
                    [] p = 30 -> scan_enable
                    [] p < 9  -> "0"
                    [] OTHER  -> "1"]

(* Mutant: a first word that drives the circuits.                          *)
InitialStringDriving == StringOf(ScanWhileClearing, "0")
InitialString == StringOf(ScanWhileClearing, "1")

(* dec_2_int(main_string) as the 23 bits the PIO keeps: bit b is set by    *)
(* the character '1' b places before the end of the string.                *)
WordBit == 0 .. 22

WordOf(s) ==
  [b \in WordBit |->
     IF StrLen(s) - 1 - b \in Cell /\ s[StrLen(s) - 1 - b] = "1" THEN "1" ELSE "0"]

(* INPUT_MA1_RESET_VALUE: 0x3FFFFF.                                        *)
ResetWord == [b \in WordBit |-> IF b = 22 THEN "0" ELSE "1"]

ReadBit == 0 .. 18

(* Mutant: the string written from the lowest bit on.                      *)
Decimal2BinaryReversed(word) ==
  [p \in 0 .. 31 |-> IF p \in ReadBit THEN word[p] ELSE "0"]

Decimal2Binary(word) ==
  [p \in 0 .. 31 |-> IF 31 - p \in ReadBit THEN word[31 - p] ELSE "0"]

-----------------------------------------------------------------------------
NoAnswers == [num_inputs |-> 0, num_inputs_comb |-> 0,
              num_fault_points |-> 0, num_test_comb |-> 0]

EmptyBuffer == [p \in Cell |-> "nul"]

(* The first start of the program, with none of its files there yet.       *)
HostInit ==
  /\ pc = "start" /\ written = 0 /\ runs = 0
  /\ answers = NoAnswers /\ value_input_files = EmptyBuffer
  /\ m = 0 /\ j = 0 /\ main_string = InitialString /\ input_data = <<>>
  /\ test_config_txt = <<>> /\ dut_inputs_txt = <<>> /\ data_result_txt = <<>>
  /\ gpio_0 = ResetWord

(* main maps the bridge and calls in_file, which asks for the counts.      *)
Start ==
  /\ pc = "start" /\ runs < MaxRuns
  /\ answers' \in Answers
  /\ pc' = "in_file"
  /\ runs' = runs + 1
  /\ UNCHANGED <<written, value_input_files, testVars, fileVars, data_result_txt>>

(* Mutants: the golden reference last; a loop over the stimuli that starts *)
(* at 1; one character for each injection point.                           *)
IsGoldenLast(line) == line = num_inputs_comb + num_test_comb
IsStimulusLess(line) == line \in 1 .. num_inputs_comb - 1
GoldenHalf == [k \in 1 .. num_fault_points |-> "1"]

(* The lines in_file writes: line 0 is the golden reference, the next ones *)
(* are the stimuli, and the last ones the random configurations.           *)
LineCount        == 1 + num_inputs_comb + num_test_comb
IsGolden(line)   == line = 0
IsStimulus(line) == line \in 1 .. num_inputs_comb

Golden == [k \in 1 .. 2 * num_fault_points |-> "1"]

MaxLength(line) == IF IsStimulus(line) THEN num_inputs ELSE 2 * num_fault_points

(* File_Write_Input_DUT or File_Write_Test_Config, as the line demands.    *)
WriteTo(line, text) ==
  \/ /\ IsStimulus(line)
     /\ dut_inputs_txt' = Appended(dut_inputs_txt, text)
     /\ UNCHANGED test_config_txt
  \/ /\ ~IsStimulus(line)
     /\ test_config_txt' = Appended(test_config_txt, text)
     /\ UNCHANGED dut_inputs_txt

(* The text of a line, with the rand() and the conversion that make it.    *)
WriteText ==
  /\ pc = "in_file" /\ written < LineCount
  /\ \/ /\ IsGolden(written)
        /\ WriteTo(written, Golden)
        /\ UNCHANGED value_input_files
     \/ /\ ~IsGolden(written)
        /\ \E rand \in Rands :
             value_input_files' = Dec2Bin(value_input_files, rand, MaxLength(written))
        /\ WriteTo(written, CString(value_input_files'))
  /\ pc' = "newline"
  /\ UNCHANGED <<written, answers, testVars, data_result_txt, runs>>

(* Its newline is written by another call.                                 *)
WriteNewline ==
  /\ pc = "newline" /\ pc' = "in_file"
  /\ WriteTo(written, Newline)
  /\ written' = written + 1
  /\ UNCHANGED <<answers, value_input_files, testVars, data_result_txt, runs>>

campaignVars == <<written, answers, value_input_files, fileVars, runs>>

(* in_file returns; for(m=0; ...                                           *)
EndInFile ==
  /\ pc = "in_file" /\ written = LineCount
  /\ m' = 0
  /\ pc' = "outer"
  /\ UNCHANGED <<campaignVars, j, main_string, input_data, gpio_0, data_result_txt>>

(* Mutants: m <= num_test_comb; an inner loop without j = 0, or with       *)
(* j = 1; one without j++.                                                 *)
OneConfigurationMore == m <= num_test_comb
StimulusKept         == j
SecondStimulus       == 1
StimulusRepeated     == j

MoreConfigurations == m < num_test_comb
FirstStimulus      == 0
NextConfiguration  == m + 1
NextStimulus       == j + 1
Returns            == m >= num_test_comb

LastEntry == data_result_txt[Len(data_result_txt)]

(* The head of the outer loop, and the first append of header m.           *)
BeginConfiguration ==
  /\ pc = "outer" /\ MoreConfigurations
  /\ data_result_txt' = Append(data_result_txt,
       [kind |-> "header", m |-> m, config |-> TestConfig, parts |-> 1])
  /\ pc' = "header"
  /\ UNCHANGED <<campaignVars, m, j, main_string, input_data, gpio_0>>

(* The appends that follow; behind the last one for(j=0; ...               *)
WriteHeader ==
  /\ pc = "header"
  /\ data_result_txt' = Continued(data_result_txt)
  /\ \/ ~Whole(LastEntry') /\ UNCHANGED <<pc, j>>
     \/ Whole(LastEntry') /\ pc' = "inner" /\ j' = FirstStimulus
  /\ UNCHANGED <<campaignVars, m, main_string, input_data, gpio_0>>

Finish ==
  /\ pc = "outer" /\ Returns
  /\ pc' = "done"
  /\ UNCHANGED <<campaignVars, testVars, data_result_txt>>

EndConfiguration ==
  /\ pc = "inner" /\ j >= num_inputs_comb
  /\ m' = NextConfiguration
  /\ pc' = "outer"
  /\ UNCHANGED <<campaignVars, j, main_string, input_data, gpio_0, data_result_txt>>

-----------------------------------------------------------------------------
(* The five cases.  The first four change main_string and store its word   *)
(* in the PIO.                                                             *)
Put(from, to, s) ==
  /\ pc = from /\ pc' = to
  /\ main_string' = s
  /\ gpio_0' = WordOf(main_string')
  /\ UNCHANGED <<campaignVars, m, j, data_result_txt>>

Case1 ==
  /\ j < num_inputs_comb
  /\ Put("inner", "case2", InitialString)
  /\ UNCHANGED input_data

(* Mutants: SIPO_CLEAR addressed one cell off; SCAN_ENABLE not set again;  *)
(* a copy that starts one cell late.                                       *)
ScanStringClearHeld(s, line) ==
  Copied(FromEnd(FromEnd(s, 22, "0"), 2, "1"), 10, 25, line)
ScanStringNoScan(s, line) == Copied(FromEnd(s, 23, "0"), 10, 25, line)
ScanStringLate(s, line) ==
  Copied(FromEnd(FromEnd(s, 23, "0"), 2, "1"), 11, 26, line)

(* SIPO_CLEAR is cell strlen-23, SCAN_ENABLE cell strlen-2; the            *)
(* configuration goes to cells 10 .. 25.                                   *)
ScanString(s, line) ==
  Copied(FromEnd(FromEnd(s, 23, "0"), 2, "1"), 10, 25, line)

Case2 ==
  /\ Put("case2", "case3", ScanString(main_string, TestConfig))
  /\ UNCHANGED input_data

Case3 ==
  /\ Put("case3", "case4", FromEnd(main_string, 2, "0"))
  /\ UNCHANGED input_data

(* Mutant: the stimulus one cell to the right.                             *)
DriveStringLate(s, line) == Copied(FromEnd(s, 1, "0"), 27, 30, line)

(* TRI_E is cell strlen-1; the stimulus goes to cells 26 .. 29.            *)
DriveString(s, line) == Copied(FromEnd(s, 1, "0"), 26, 29, line)

Case4 ==
  /\ Put("case4", "case5", DriveString(main_string, InputLine))
  /\ input_data' = [i \in 1 .. InputLength |-> CharAt(InputLine, i)]

ResultLine(v0, v1, tail) ==
  [kind |-> "result", j |-> j, v0 |-> v0, v1 |-> v1,
   input |-> input_data \o tail, config |-> TestConfig, parts |-> 1]

(* The two last characters of the word read back are the results; the      *)
(* first append of their line.                                             *)
Case5(gpio_1) ==
  /\ pc = "case5" /\ pc' = "result"
  /\ \E tail \in Tails :
       data_result_txt' = Append(data_result_txt,
         ResultLine(Decimal2Binary(gpio_1)[31], Decimal2Binary(gpio_1)[30], tail))
  /\ UNCHANGED <<campaignVars, m, j, main_string, input_data, gpio_0>>

(* The appends that follow; behind the last one j++.                       *)
WriteResult ==
  /\ pc = "result"
  /\ data_result_txt' = Continued(data_result_txt)
  /\ \/ ~Whole(LastEntry') /\ UNCHANGED <<pc, j>>
     \/ Whole(LastEntry') /\ pc' = "inner" /\ j' = NextStimulus
  /\ UNCHANGED <<campaignVars, m, main_string, input_data, gpio_0>>

(* The program is stopped, or has ended, and can be started again: its     *)
(* memory is new, the files and the PIO keep what they hold.               *)
Kill ==
  /\ pc # "start" /\ runs < MaxRuns
  /\ pc' = "start" /\ written' = 0
  /\ answers' = NoAnswers /\ value_input_files' = EmptyBuffer
  /\ m' = 0 /\ j' = 0 /\ main_string' = InitialString /\ input_data' = <<>>
  /\ UNCHANGED <<fileVars, data_result_txt, gpio_0, runs>>
==============================================================================
