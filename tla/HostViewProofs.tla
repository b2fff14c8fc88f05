--------------------------- MODULE HostViewProofs ---------------------------
(***************************************************************************)
(* The invariant of main.c under any word it may read, and what its steps  *)
(* are in the eyes of Campaign: for every set of answers that fit the      *)
(* fabric, every number rand() may return, every content of the memory     *)
(* behind the stimulus, both first words, up to seven starts, and stops    *)
(* between any two steps.  HostFiles and TestBench run the program and     *)
(* use this.                                                               *)
(***************************************************************************)
EXTENDS HostTextProofs

(* The fabric has eight injection points.                                  *)
AnswersFit == \A a \in Answers : a.num_fault_points >= 8

(* A step of the program, whatever word it reads.                          *)
HostStep ==
  \/ Start \/ WriteText \/ WriteNewline \/ EndInFile
  \/ BeginConfiguration \/ WriteHeader \/ EndConfiguration \/ Finish
  \/ Case1 \/ Case2 \/ Case3 \/ Case4
  \/ \E word : Case5(word)
  \/ WriteResult
  \/ Kill

-----------------------------------------------------------------------------
(* The inductive invariant.                                                *)

(* The loops, and how far in_file has come.                                *)
Control ==
  /\ pc \in {"start", "in_file", "newline", "outer", "header", "inner",
             "case2", "case3", "case4", "case5", "result", "done"}
  /\ runs \in 0 .. MaxRuns
  /\ pc = "start" => answers = NoAnswers /\ written = 0
  /\ pc # "start" => answers \in Answers
  /\ written \in 0 .. LineCount
  /\ pc = "newline" => written < LineCount
  /\ pc \in {"outer", "done"} \/ InRow => written = LineCount
  /\ m \in 0 .. num_test_comb /\ j \in 0 .. num_inputs_comb
  /\ pc \in {"start", "in_file", "newline"} => m = 0 /\ j = 0
  /\ InRow => m < num_test_comb
  /\ InTest \/ pc = "result" => j < num_inputs_comb
  /\ pc \in {"outer", "done"} /\ m > 0 => j = num_inputs_comb
  /\ pc = "done" => m = num_test_comb

Buffer == \E n \in 0 .. 31 : Holds(value_input_files, n)

(* How many of the first n lines of in_file go to which file.              *)
ConfigLines(n) == IF n = 0 THEN 0
                  ELSE IF n <= num_inputs_comb + 1 THEN 1 ELSE n - num_inputs_comb
InputLines(n) == IF n = 0 THEN 0
                 ELSE IF n <= num_inputs_comb + 1 THEN n - 1 ELSE num_inputs_comb

Ones == [i \in 1 .. ConfigLength |-> "1"]

(* The files begin with a golden line and hold what this run has written,  *)
(* whatever else they hold.                                                *)
Files ==
  /\ FileOf(test_config_txt, ConfigLength, Configs)
  /\ FileOf(dut_inputs_txt, InputLength, Stimuli)
  /\ test_config_txt # <<>> => Shortened(test_config_txt[1], ConfigLength) = Ones
  /\ Complete(test_config_txt) >= ConfigLines(written)
  /\ Complete(dut_inputs_txt) >= InputLines(written)
  /\ pc = "newline" =>
       Unfinished(IF IsStimulus(written) THEN dut_inputs_txt ELSE test_config_txt)

(* What each case has put into the control string.                         *)
ScanPart  == /\ main_string[9] = "0"
             /\ \A k \in 1 .. 16 : main_string[9 + k] = CharAt(TestConfig, k)
DrivePart == /\ main_string[31] = "0"
             /\ \A k \in 1 .. 4 : main_string[25 + k] = CharAt(InputLine, k)
             /\ input_data = [i \in 1 .. 4 |-> CharAt(InputLine, i)]

Words ==
  /\ Full(main_string)
  /\ gpio_0 \in [WordBit -> {"0", "1"}]
  /\ InTest => gpio_0 = WordOf(main_string)
  /\ pc \in {"case3", "case4", "case5"} => ScanPart
  /\ pc \in {"case4", "case5"} => main_string[30] = "0"
  /\ pc = "case5" => DrivePart

(* The result file is a sequence of entries, the header of the test in     *)
(* progress is where Campaign looks for it, and the last entry is whole    *)
(* unless the program stands between its appends.                          *)
IsEntry(e) ==
  /\ e.parts \in Nat
  /\ \/ e.kind = "header" /\ DOMAIN e = {"kind", "m", "config", "parts"}
     \/ /\ e.kind = "result"
        /\ DOMAIN e = {"kind", "j", "v0", "v1", "input", "config", "parts"}

InProgress(e) ==
  /\ pc = "header" => e.kind = "header" /\ e.parts < HeaderParts
  /\ pc = "result" => e.kind = "result" /\ e.parts < ResultParts
  /\ pc \notin {"header", "result"} => Whole(e)

Entries == /\ \E S : data_result_txt \in Seq(S)
           /\ \A n \in DOMAIN data_result_txt : IsEntry(data_result_txt[n])

Log ==
  /\ Entries
  /\ InRow =>
       /\ Len(data_result_txt) - CampaignCol \in DOMAIN data_result_txt
       /\ LET header == data_result_txt[Len(data_result_txt) - CampaignCol]
          IN  header.kind = "header" /\ header.config = TestConfig
  /\ InRow \/ m > 0 => Len(data_result_txt) \in DOMAIN data_result_txt
                       /\ InProgress(LastEntry)

IInv == Control /\ Buffer /\ Files /\ Words /\ Log

-----------------------------------------------------------------------------
(* The answers are numbers, and after Start within the bounds.             *)
LEMMA AnswerTypes ==
  ASSUME Control
  PROVE  /\ num_inputs_comb \in Nat /\ num_test_comb \in Nat /\ LineCount \in Nat
         /\ answers \in Answers \cup {NoAnswers}
         /\ pc # "start" => num_inputs \in 4 .. 31 /\ num_fault_points \in 0 .. 15
<1>1. answers \in Answers \cup {NoAnswers}
  BY DEF Control
<1>2. num_inputs_comb \in Nat /\ num_test_comb \in Nat
  BY <1>1, AnswersAssumption DEF NoAnswers, num_inputs_comb, num_test_comb
<1>3. pc # "start" => num_inputs \in 4 .. 31 /\ num_fault_points \in 0 .. 15
  BY AnswersAssumption DEF Control, num_inputs, num_fault_points, InputLength
<1> QED
  BY <1>1, <1>2, <1>3 DEF LineCount

(* The line numbers and loop counters stay where the answers put them.     *)
LEMMA ControlStep ==
  ASSUME Control, [HostStep]_hostVars
  PROVE  Control'
<1>0. /\ num_inputs_comb \in Nat /\ num_test_comb \in Nat
      /\ LineCount = 1 + num_inputs_comb + num_test_comb
  BY AnswerTypes DEF LineCount
<1>1. CASE Start
  <2>1. /\ answers' \in Answers /\ pc' = "in_file" /\ runs' = runs + 1 /\ runs < MaxRuns
        /\ written' = 0 /\ m' = 0 /\ j' = 0
    BY <1>1 DEF Start, Control, testVars
  <2>2. num_inputs_comb' \in Nat /\ num_test_comb' \in Nat
    BY <2>1, AnswersAssumption DEF num_inputs_comb, num_test_comb
  <2>3. runs' \in 0 .. MaxRuns
    BY <2>1, RunsAssumption DEF Control
  <2>4. 0 \in 0 .. LineCount' /\ 0 \in 0 .. num_test_comb' /\ 0 \in 0 .. num_inputs_comb'
    BY <2>1, AnswersAssumption DEF LineCount, num_inputs_comb, num_test_comb
  <2>5. ~InTest' /\ ~InRow'
    BY <2>1 DEF InTest, InRow
  <2> QED
    BY <2>1, <2>3, <2>4, <2>5 DEF Control
<1>2. CASE WriteText
  BY <1>0, <1>2 DEF WriteText, Control, testVars, InRow, InTest, LineCount,
                    num_inputs_comb, num_test_comb
<1>3. CASE WriteNewline
  BY <1>0, <1>3 DEF WriteNewline, Control, testVars, InRow, InTest, LineCount,
                    num_inputs_comb, num_test_comb
<1>4. CASE EndInFile
  BY <1>0, <1>4 DEF EndInFile, Control, campaignVars, InRow, InTest, LineCount,
                    num_inputs_comb, num_test_comb
<1>5. CASE BeginConfiguration
  BY <1>0, <1>5 DEF BeginConfiguration, Control, campaignVars, InRow, InTest, LineCount,
                    num_inputs_comb, num_test_comb, MoreConfigurations
<1>6. CASE WriteHeader
  BY <1>0, <1>6 DEF WriteHeader, Control, campaignVars, InRow, InTest, LineCount,
                    num_inputs_comb, num_test_comb, FirstStimulus
<1>7. CASE EndConfiguration
  BY <1>0, <1>7 DEF EndConfiguration, Control, campaignVars, InRow, InTest, LineCount,
                    num_inputs_comb, num_test_comb, NextConfiguration
<1>8. CASE Finish
  BY <1>0, <1>8 DEF Finish, Control, campaignVars, testVars, InRow, InTest, LineCount,
                    num_inputs_comb, num_test_comb, Returns
<1>9. CASE Case1 \/ Case2 \/ Case3 \/ Case4
  BY <1>0, <1>9 DEF Case1, Case2, Case3, Case4, Put, Control, campaignVars, InRow, InTest,
                    LineCount, num_inputs_comb, num_test_comb
<1>10. ASSUME NEW word, Case5(word)
       PROVE  Control'
  BY <1>0, <1>10 DEF Case5, Control, campaignVars, InRow, InTest, LineCount,
                     num_inputs_comb, num_test_comb
<1>11. CASE WriteResult
  BY <1>0, <1>11 DEF WriteResult, Control, campaignVars, InRow, InTest, LineCount,
                     num_inputs_comb, num_test_comb, NextStimulus
<1>12. CASE Kill
  BY <1>0, <1>12 DEF Kill, Control, InRow, InTest, LineCount, NoAnswers, num_inputs_comb,
                     num_test_comb
<1>13. CASE UNCHANGED hostVars
  BY <1>13 DEF hostVars, testVars, Control, InRow, InTest, LineCount, num_inputs_comb,
               num_test_comb
<1> QED
  BY <1>1, <1>2, <1>3, <1>4, <1>5, <1>6, <1>7, <1>8, <1>9, <1>10, <1>11, <1>12, <1>13
     DEF HostStep

(* Only Start and Kill change the answers.                                 *)
LEMMA AnswersKept ==
  ASSUME UNCHANGED answers
  PROVE  /\ num_inputs_comb' = num_inputs_comb /\ num_test_comb' = num_test_comb
         /\ LineCount' = LineCount
         /\ \A n : ConfigLines(n)' = ConfigLines(n) /\ InputLines(n)' = InputLines(n)
BY DEF num_inputs_comb, num_test_comb, LineCount, ConfigLines, InputLines

(* What a random number or the golden reference writes begins a line of    *)
(* the right kind.                                                         *)
LEMMA WrittenText ==
  ASSUME Control, pc = "in_file", Buffer, WriteText
  PROVE  \E text \in Seq({"0", "1"}) :
           /\ WriteTo(written, text)
           /\ IsStimulus(written) =>
                Len(text) >= 4 /\ Shortened(text, 4) \in Stimuli
           /\ AnswersFit /\ ~IsStimulus(written) =>
                Len(text) >= 16 /\ Shortened(text, 16) \in Configs
           /\ AnswersFit /\ written = 0 => Shortened(text, 16) = Ones
           /\ Buffer'
<1>0. /\ num_inputs \in 4 .. 31 /\ num_fault_points \in 0 .. 15 /\ written \in Nat
      /\ AnswersFit => num_fault_points \in 8 .. 15
      /\ num_inputs_comb \in Nat
  <2>1. AnswersFit => num_fault_points >= 8
    BY DEF Control, AnswersFit, num_fault_points
  <2>2. written \in Nat
    BY AnswerTypes DEF Control
  <2> QED
    BY <2>1, <2>2, AnswerTypes
<1>1. CASE IsGolden(written)
  <2>1. PICK n : /\ n = 2 * num_fault_points /\ n \in 0 .. 30 /\ n \in Nat
                 /\ AnswersFit => n \in 16 .. 30
    BY <1>0
  <2>2. PICK text : text = [k \in 1 .. n |-> "1"]
    OBVIOUS
  <2>3. text \in Seq({"0", "1"}) /\ Len(text) = n
    BY <2>1, <2>2
  <2>4. WriteTo(written, text) /\ Buffer'
    BY <1>1, <2>1, <2>2 DEF WriteText, Golden, Buffer
  <2>5. AnswersFit => Shortened(text, 16) = Ones
    <3> SUFFICES ASSUME AnswersFit PROVE Shortened(text, 16) = Ones
      OBVIOUS
    <3>1. ASSUME NEW i \in 1 .. 16
          PROVE  CharAt(text, i) = "1"
      BY <2>1, <2>2 DEF CharAt
    <3> QED
      BY <3>1 DEF Shortened, Ones, ConfigLength
  <2>6. Ones \in Configs
    BY DEF Ones, Configs
  <2>7. ~IsStimulus(written)
    BY <1>1 DEF IsGolden, IsStimulus
  <2> QED
    BY <2>1, <2>3, <2>4, <2>5, <2>6, <2>7
<1>2. CASE ~IsGolden(written)
  <2>1. PICK rand \in Rands :
          /\ value_input_files' = Dec2Bin(value_input_files, rand, MaxLength(written))
          /\ WriteTo(written, CString(value_input_files'))
    BY <1>2 DEF WriteText
  <2>2. PICK n \in 0 .. 31 : Holds(value_input_files, n)
    BY DEF Buffer
  <2>3. PICK s : s = value_input_files
    OBVIOUS
  <2>4. PICK t : t = value_input_files'
    OBVIOUS
  <2>5. PICK len, short :
          /\ len = MaxLength(written)
          /\ short = IF IsStimulus(written) THEN 4 ELSE IF AnswersFit THEN 16 ELSE 0
    OBVIOUS
  <2>6. len \in 0 .. 31 /\ short \in 0 .. len
    BY <1>0, <2>5 DEF MaxLength
  <2>7. t = Dec2Bin(s, rand, len) /\ Holds(s, n)
    BY <2>1, <2>2, <2>3, <2>4, <2>5
  <2>8. /\ \E k \in 0 .. 31 : Holds(t, k)
        /\ CString(t) \in Seq({"0", "1"}) /\ Len(CString(t)) >= len
        /\ Shortened(CString(t), short) = RandomText(short, rand)
    <3>1. n \in 0 .. 31
      OBVIOUS
    <3>2. \E k \in 0 .. 31 : Holds(t, k)
      BY <2>6, <2>7, <3>1, Conversion
    <3>3. CString(t) \in Seq({"0", "1"}) /\ Len(CString(t)) >= len
      <4>1. DigitText(CString(t), len)
        BY <2>6, <2>7, <3>1, Conversion
      <4> QED
        BY <4>1 DEF DigitText
    <3>4. Shortened(CString(t), short) = RandomText(short, rand)
      BY <2>6, <2>7, <3>1, Conversion
    <3> QED
      BY <3>2, <3>3, <3>4
  <2>9. RandomText(4, rand) \in Stimuli /\ RandomText(16, rand) \in Configs
    BY DEF Stimuli, Configs, InputLength, ConfigLength
  <2>10. Buffer'
    BY <2>4, <2>8 DEF Buffer
  <2>11. WriteTo(written, CString(t)) /\ written # 0
    BY <1>2, <2>1, <2>4 DEF IsGolden
  <2>12. Len(CString(t)) \in Nat /\ Len(CString(t)) >= short
    BY <2>6, <2>8
  <2> QED
    BY <2>5, <2>8, <2>9, <2>10, <2>11, <2>12
<1> QED
  BY <1>1, <1>2

(* A text goes to the file its line is for, unfinished for now.            *)
LEMMA WriteTextFiles ==
  ASSUME AnswersFit, Control, Buffer, Files, WriteText
  PROVE  Files' /\ Buffer'
<1>0. /\ pc = "in_file" /\ pc' = "newline" /\ written' = written
      /\ answers' = answers /\ written < LineCount
  BY DEF WriteText
<1>1. PICK text \in Seq({"0", "1"}) :
        /\ WriteTo(written, text)
        /\ IsStimulus(written) => Len(text) >= 4 /\ Shortened(text, 4) \in Stimuli
        /\ ~IsStimulus(written) => Len(text) >= 16 /\ Shortened(text, 16) \in Configs
        /\ written = 0 => Shortened(text, 16) = Ones
        /\ Buffer'
  BY <1>0, WrittenText
<1>2. /\ \A n : ConfigLines(n)' = ConfigLines(n) /\ InputLines(n)' = InputLines(n)
      /\ IsStimulus(written)' = IsStimulus(written)
  BY <1>0, AnswersKept DEF IsStimulus, num_inputs_comb
<1>3. CASE IsStimulus(written)
  <2>1. /\ dut_inputs_txt' = Appended(dut_inputs_txt, text)
        /\ test_config_txt' = test_config_txt
    BY <1>1, <1>3 DEF WriteTo
  <2>2. PICK file, new : file = dut_inputs_txt /\ new = Appended(file, text)
    OBVIOUS
  <2>3. FileOf(file, 4, Stimuli) /\ Len(text) >= 4 /\ Shortened(text, 4) \in Stimuli
    BY <1>1, <1>3, <2>2 DEF Files, InputLength
  <2>4. FileOf(new, 4, Stimuli) /\ Unfinished(new) /\ Complete(new) = Complete(file)
    BY <2>2, <2>3, TextWritten
  <2> QED
    BY <1>0, <1>1, <1>2, <1>3, <2>1, <2>2, <2>4 DEF Files, InputLength
<1>4. CASE ~IsStimulus(written)
  <2>1. /\ test_config_txt' = Appended(test_config_txt, text)
        /\ dut_inputs_txt' = dut_inputs_txt
    BY <1>1, <1>4 DEF WriteTo
  <2>2. PICK file, new : file = test_config_txt /\ new = Appended(file, text)
    OBVIOUS
  <2>3. FileOf(file, 16, Configs) /\ Len(text) >= 16 /\ Shortened(text, 16) \in Configs
    BY <1>1, <1>4, <2>2 DEF Files, ConfigLength
  <2>4. /\ FileOf(new, 16, Configs) /\ Unfinished(new) /\ Complete(new) = Complete(file)
        /\ Shortened(new[1], 16) =
             IF file = <<>> THEN Shortened(text, 16) ELSE Shortened(file[1], 16)
    BY <2>2, <2>3, TextWritten
  <2>5. file = <<>> => written = 0
    <3>1. Complete(<<>>) = 0
      BY DEF Complete, Unfinished
    <3>2. written \in Nat /\ num_inputs_comb \in Nat
      BY AnswerTypes DEF Control
    <3>3. Complete(file) >= ConfigLines(written)
      BY <2>2 DEF Files
    <3> QED
      BY <3>1, <3>2, <3>3 DEF ConfigLines
  <2>6. Shortened(new[1], 16) = Ones
    BY <1>1, <2>2, <2>4, <2>5 DEF Files, ConfigLength
  <2> QED
    BY <1>0, <1>1, <1>2, <1>4, <2>1, <2>2, <2>4, <2>6 DEF Files, ConfigLength
<1> QED
  BY <1>1, <1>3, <1>4

(* Its newline makes one complete line more, which in_file counts.         *)
LEMMA WriteNewlineFiles ==
  ASSUME Control, Files, WriteNewline
  PROVE  Files'
<1>0. /\ pc = "newline" /\ pc' = "in_file" /\ written' = written + 1
      /\ answers' = answers /\ WriteTo(written, Newline)
      /\ written \in Nat /\ num_inputs_comb \in Nat
  BY AnswerTypes DEF WriteNewline, Control
<1>2. \A n : ConfigLines(n)' = ConfigLines(n) /\ InputLines(n)' = InputLines(n)
  BY <1>0, AnswersKept
<1>3. CASE IsStimulus(written)
  <2>1. /\ dut_inputs_txt' = Appended(dut_inputs_txt, Newline)
        /\ test_config_txt' = test_config_txt
    BY <1>0, <1>3 DEF WriteTo
  <2>2. PICK file, new : file = dut_inputs_txt /\ new = Appended(file, Newline)
    OBVIOUS
  <2>3. FileOf(file, 4, Stimuli) /\ Unfinished(file)
    BY <1>0, <1>3, <2>2 DEF Files, InputLength
  <2>4. FileOf(new, 4, Stimuli) /\ Complete(new) = Complete(file) + 1
    BY <2>2, <2>3, NewlineWritten
  <2>5. /\ InputLines(written + 1) = InputLines(written) + 1
        /\ InputLines(written) \in Nat
        /\ ConfigLines(written + 1) = ConfigLines(written)
    BY <1>0, <1>3 DEF InputLines, ConfigLines, IsStimulus
  <2>6. Complete(file) \in Int
    BY <2>3 DEF Complete, FileOf
  <2>7. Complete(new) >= InputLines(written + 1)
    BY <2>2, <2>4, <2>5, <2>6 DEF Files
  <2> QED
    BY <1>0, <1>2, <2>1, <2>2, <2>4, <2>5, <2>7 DEF Files, InputLength
<1>4. CASE ~IsStimulus(written)
  <2>1. /\ test_config_txt' = Appended(test_config_txt, Newline)
        /\ dut_inputs_txt' = dut_inputs_txt
    BY <1>0, <1>4 DEF WriteTo
  <2>2. PICK file, new : file = test_config_txt /\ new = Appended(file, Newline)
    OBVIOUS
  <2>3. FileOf(file, 16, Configs) /\ Unfinished(file)
    BY <1>0, <1>4, <2>2 DEF Files, ConfigLength
  <2>4. /\ FileOf(new, 16, Configs) /\ Complete(new) = Complete(file) + 1
        /\ Shortened(new[1], 16) = Shortened(file[1], 16)
    BY <2>2, <2>3, NewlineWritten
  <2>5. /\ ConfigLines(written + 1) = ConfigLines(written) + 1
        /\ ConfigLines(written) \in Nat
        /\ InputLines(written + 1) = InputLines(written)
    BY <1>0, <1>4 DEF InputLines, ConfigLines, IsStimulus
  <2>6. Complete(file) \in Int /\ file # <<>>
    BY <2>3 DEF Complete, FileOf, Unfinished
  <2>7. Complete(new) >= ConfigLines(written + 1)
    BY <2>2, <2>4, <2>5, <2>6 DEF Files
  <2> QED
    BY <1>0, <1>2, <2>1, <2>2, <2>4, <2>5, <2>6, <2>7 DEF Files, ConfigLength
<1> QED
  BY <1>3, <1>4

(* The steps that write no text leave the files alone.                     *)
LEMMA FilesStep ==
  ASSUME AnswersFit, Control, Buffer, Files, [HostStep]_hostVars
  PROVE  Buffer' /\ Files'
<1>0. /\ FileOf(test_config_txt, 16, Configs) /\ FileOf(dut_inputs_txt, 4, Stimuli)
      /\ Complete(test_config_txt) \in Nat /\ Complete(dut_inputs_txt) \in Nat
  <2>1. ASSUME NEW n, NEW Texts, NEW file, FileOf(file, n, Texts)
        PROVE  Complete(file) \in Nat
    BY <2>1 DEF FileOf, Complete, Unfinished
  <2> QED
    BY <2>1 DEF Files, ConfigLength, InputLength
<1>1. ASSUME UNCHANGED <<value_input_files, test_config_txt, dut_inputs_txt, answers,
                         written>>,
             pc' = "newline" => pc = "newline"
      PROVE  Buffer' /\ Files'
  BY <1>1, AnswersKept DEF Buffer, Files, IsStimulus, num_inputs_comb
<1>2. ASSUME UNCHANGED <<test_config_txt, dut_inputs_txt>>, written' = 0,
             pc' # "newline", value_input_files' \in {value_input_files, EmptyBuffer}
      PROVE  Buffer' /\ Files'
  <2>1. Buffer'
    <3>1. Holds(EmptyBuffer, 0)
      BY DEF Holds, EmptyBuffer, Cell
    <3> QED
      BY <1>2, <3>1 DEF Buffer
  <2>2. ConfigLines(written)' = 0 /\ InputLines(written)' = 0
    BY <1>2 DEF ConfigLines, InputLines
  <2> QED
    BY <1>0, <1>2, <2>1, <2>2 DEF Files
<1>3. CASE Start
  BY <1>2, <1>3 DEF Start, Control, fileVars
<1>4. CASE WriteText
  BY <1>4, WriteTextFiles
<1>5. CASE WriteNewline
  BY <1>5, WriteNewlineFiles DEF WriteNewline, Buffer
<1>6. CASE \/ EndInFile \/ BeginConfiguration \/ WriteHeader \/ EndConfiguration
           \/ Finish \/ WriteResult
  BY <1>1, <1>6 DEF EndInFile, BeginConfiguration, WriteHeader, EndConfiguration, Finish,
                    WriteResult, campaignVars, fileVars
<1>7. CASE Case1 \/ Case2 \/ Case3 \/ Case4
  BY <1>1, <1>7 DEF Case1, Case2, Case3, Case4, Put, campaignVars, fileVars
<1>8. ASSUME NEW word, Case5(word)
      PROVE  Buffer' /\ Files'
  BY <1>1, <1>8 DEF Case5, campaignVars, fileVars
<1>9. CASE Kill
  BY <1>2, <1>9 DEF Kill, fileVars
<1>10. CASE UNCHANGED hostVars
  BY <1>1, <1>10 DEF hostVars, fileVars
<1> QED
  BY <1>3, <1>4, <1>5, <1>6, <1>7, <1>8, <1>9, <1>10 DEF HostStep

-----------------------------------------------------------------------------
(* What the tests read.                                                    *)

(* A line that the readers count as there.                                 *)
LEMMA LineThere ==
  ASSUME NEW n, NEW Texts, NEW file, FileOf(file, n, Texts),
         NEW i \in Nat, i < Complete(file)
  PROVE  /\ i < Len(file) /\ LineRead(file, i) = file[i + 1]
         /\ Shortened(LineRead(file, i), n) \in Texts
<1>1. file \in Seq(Seq(Char)) /\ Len(file) \in Nat
  BY DEF FileOf
<1>2. i < Len(file)
  BY <1>1 DEF Complete
<1>3. i + 1 \in 1 .. Len(file) /\ LineRead(file, i) = file[i + 1]
  BY <1>1, <1>2 DEF LineRead
<1> QED
  BY <1>2, <1>3 DEF FileOf

(* A line that stands for a text consists of digits as far as it does.      *)
LEMMA TextDigits ==
  ASSUME NEW line, NEW n,
         Shortened(line, n) \in {RandomText(n, rand) : rand \in Rands}
                                  \cup {[i \in 1 .. n |-> "1"]}
  PROVE  Digits(line, n)
<1> SUFFICES ASSUME NEW k \in 1 .. n
             PROVE  CharAt(line, k) \in {"0", "1"}
  BY DEF Digits
<1>1. Shortened(line, n)[k] = CharAt(line, k)
  BY DEF Shortened
<1>2. CASE \E rand \in Rands : Shortened(line, n) = RandomText(n, rand)
  BY <1>1, <1>2, DigitIsBit DEF RandomText
<1>3. CASE Shortened(line, n) = [i \in 1 .. n |-> "1"]
  BY <1>1, <1>3
<1> QED
  BY <1>2, <1>3

ConfigThere ==
  /\ m < Len(test_config_txt) /\ TestConfig = test_config_txt[m + 1]
  /\ Shortened(TestConfig, 16) \in Configs /\ Digits(TestConfig, 16)

InputThere ==
  /\ j < Len(dut_inputs_txt)
  /\ Shortened(InputLine, 4) \in Stimuli /\ Digits(InputLine, 4)

(* in_file has written at least the lines the loops ask for.               *)
LEMMA ConfigIsThere ==
  ASSUME Control, Files, pc = "outer" \/ InRow, m < num_test_comb
  PROVE  ConfigThere
<1>1. /\ num_inputs_comb \in Nat /\ num_test_comb \in Nat /\ m \in Nat
      /\ written = 1 + num_inputs_comb + num_test_comb
  BY AnswerTypes DEF Control, LineCount
<1>2. m < ConfigLines(written)
  BY <1>1 DEF ConfigLines
<1>3. FileOf(test_config_txt, 16, Configs) /\ m < Complete(test_config_txt)
  <2>1. Complete(test_config_txt) \in Int /\ ConfigLines(written) \in Int
    BY <1>1 DEF Files, FileOf, Complete, ConfigLines
  <2> QED
    BY <1>1, <1>2, <2>1 DEF Files, ConfigLength
<1>4. /\ m < Len(test_config_txt) /\ TestConfig = test_config_txt[m + 1]
      /\ Shortened(TestConfig, 16) \in Configs
  BY <1>1, <1>3, LineThere DEF TestConfig
<1>5. Digits(TestConfig, 16)
  BY <1>4, TextDigits DEF Configs, ConfigLength
<1> QED
  BY <1>4, <1>5 DEF ConfigThere

(* In a test the line of dut_inputs.txt it uses is there.                   *)
LEMMA InputIsThere ==
  ASSUME Control, Files, InRow, j < num_inputs_comb
  PROVE  InputThere
<1>1. /\ num_inputs_comb \in Nat /\ num_test_comb \in Nat /\ j \in Nat
      /\ written = 1 + num_inputs_comb + num_test_comb
      /\ num_test_comb > 0
  BY AnswerTypes DEF Control, LineCount
<1>2. j < InputLines(written)
  BY <1>1 DEF InputLines
<1>3. FileOf(dut_inputs_txt, 4, Stimuli) /\ j < Complete(dut_inputs_txt)
  <2>1. Complete(dut_inputs_txt) \in Int /\ InputLines(written) \in Int
    BY <1>1 DEF Files, FileOf, Complete, InputLines
  <2> QED
    BY <1>1, <1>2, <2>1 DEF Files, InputLength
<1>4. j < Len(dut_inputs_txt) /\ Shortened(InputLine, 4) \in Stimuli
  BY <1>1, <1>3, LineThere DEF InputLine
<1>5. Digits(InputLine, 4)
  BY <1>4, TextDigits DEF Stimuli, InputLength
<1> QED
  BY <1>4, <1>5 DEF InputThere

-----------------------------------------------------------------------------
(* The cases of a test build the word, and only they change it.            *)
LEMMA WordsStep ==
  ASSUME Control, Files, Words, [HostStep]_hostVars
  PROVE  Words'
<1>1. ASSUME NEW from, NEW to, NEW s, Put(from, to, s), Full(s)
      PROVE  /\ main_string' = s /\ Full(main_string')
             /\ gpio_0' \in [WordBit -> {"0", "1"}] /\ gpio_0' = WordOf(main_string')
             /\ TestConfig' = TestConfig /\ InputLine' = InputLine
  <2>1. main_string' = s /\ gpio_0' = WordOf(s)
    BY <1>1 DEF Put
  <2>2. WordOf(s) \in [WordBit -> {"0", "1"}]
    BY <1>1, WordBits
  <2>3. TestConfig' = TestConfig /\ InputLine' = InputLine
    BY <1>1 DEF Put, campaignVars, fileVars, TestConfig, InputLine
  <2> QED
    BY <1>1, <2>1, <2>2, <2>3
<1>2. CASE Case1
  <2>1. Put("inner", "case2", InitialString)
    BY <1>2 DEF Case1
  <2>2. pc' = "case2"
    BY <2>1 DEF Put
  <2> QED
    BY <1>1, <2>1, <2>2, FirstString DEF Words, InTest
<1>3. CASE Case2
  <2>1. Put("case2", "case3", ScanString(main_string, TestConfig)) /\ InTest /\ pc' = "case3"
    BY <1>3 DEF Case2, Put, InTest
  <2>2. Digits(TestConfig, 16)
    BY <2>1, ConfigIsThere DEF ConfigThere, Control, InRow
  <2>3. PICK s, line : s = main_string /\ line = TestConfig
    OBVIOUS
  <2>4. /\ Full(ScanString(s, line)) /\ ScanString(s, line)[9] = "0"
        /\ \A k \in 1 .. 16 : ScanString(s, line)[9 + k] = CharAt(line, k)
    BY <2>2, <2>3, ScanCells DEF Words
  <2>5. Full(ScanString(main_string, TestConfig))
    BY <2>3, <2>4
  <2>6. ScanPart'
    BY <1>1, <2>1, <2>3, <2>4 DEF ScanPart
  <2> QED
    BY <1>1, <2>1, <2>5, <2>6 DEF Words, InTest
<1>4. CASE Case3
  <2>1. Put("case3", "case4", FromEnd(main_string, 2, "0")) /\ pc = "case3" /\ pc' = "case4"
    BY <1>4 DEF Case3, Put
  <2>2. PICK s : s = main_string
    OBVIOUS
  <2>3. /\ Full(FromEnd(s, 2, "0"))
        /\ \A p \in 0 .. 31 : FromEnd(s, 2, "0")[p] = IF p = 30 THEN "0" ELSE s[p]
    <3>1. Full(s)
      BY <2>2 DEF Words
    <3> QED
      BY <3>1, ScanEnableCell
  <2>4. main_string'[30] = "0" /\ \A p \in 0 .. 29 : main_string'[p] = main_string[p]
    BY <1>1, <2>1, <2>2, <2>3
  <2>5. ScanPart'
    <3>1. ScanPart /\ TestConfig' = TestConfig
      BY <1>1, <2>1, <2>2, <2>3 DEF Words
    <3> QED
      BY <2>4, <3>1 DEF ScanPart
  <2> QED
    BY <1>1, <2>1, <2>2, <2>3, <2>4, <2>5 DEF Words, InTest
<1>5. CASE Case4
  <2>1. /\ Put("case4", "case5", DriveString(main_string, InputLine))
        /\ pc = "case4" /\ pc' = "case5" /\ InTest
        /\ input_data' = [i \in 1 .. 4 |-> CharAt(InputLine, i)]
    BY <1>5 DEF Case4, Put, InTest, InputLength
  <2>2. Digits(InputLine, 4)
    BY <2>1, InputIsThere DEF InputThere, Control, InRow
  <2>3. PICK s, line : s = main_string /\ line = InputLine
    OBVIOUS
  <2>4. PICK t : t = DriveString(s, line)
    OBVIOUS
  <2>5. /\ Full(t) /\ t[31] = "0" /\ t[30] = s[30]
        /\ \A p \in 0 .. 25 : t[p] = s[p]
        /\ \A k \in 1 .. 4 : t[25 + k] = CharAt(line, k)
    BY <2>2, <2>3, <2>4, DriveCells DEF Words
  <2>6. /\ main_string' = t /\ Full(main_string') /\ gpio_0' = WordOf(main_string')
        /\ gpio_0' \in [WordBit -> {"0", "1"}]
        /\ TestConfig' = TestConfig /\ InputLine' = InputLine
    BY <1>1, <2>1, <2>3, <2>4, <2>5
  <2>7. ScanPart'
    <3>1. ScanPart
      BY <2>1 DEF Words
    <3>2. \A k \in 1 .. 16 : t[9 + k] = s[9 + k]
      BY <2>5
    <3> QED
      BY <2>3, <2>5, <2>6, <3>1, <3>2 DEF ScanPart
  <2>8. DrivePart'
    BY <2>1, <2>3, <2>5, <2>6 DEF DrivePart
  <2>9. main_string'[30] = "0"
    BY <2>1, <2>3, <2>5, <2>6 DEF Words
  <2> QED
    BY <2>1, <2>6, <2>7, <2>8, <2>9 DEF Words, InTest
<1>6. ASSUME UNCHANGED <<main_string, gpio_0>>, ~InTest'
      PROVE  Words'
  BY <1>6 DEF Words, InTest
<1>7. CASE Start \/ WriteText \/ WriteNewline \/ Finish
  BY <1>6, <1>7 DEF Start, WriteText, WriteNewline, Finish, testVars, InTest
<1>8. CASE \/ EndInFile \/ BeginConfiguration \/ WriteHeader \/ EndConfiguration
           \/ WriteResult
  BY <1>6, <1>8 DEF EndInFile, BeginConfiguration, WriteHeader, EndConfiguration,
                    WriteResult, InTest
<1>9. ASSUME NEW word, Case5(word)
      PROVE  Words'
  BY <1>6, <1>9 DEF Case5, InTest
<1>10. CASE Kill
  BY <1>10, FirstString DEF Kill, Words, InTest
<1>11. CASE UNCHANGED hostVars
  BY <1>11 DEF hostVars, testVars, fileVars, Words, InTest, ScanPart, DrivePart,
               TestConfig, InputLine
<1> QED
  BY <1>2, <1>3, <1>4, <1>5, <1>7, <1>8, <1>9, <1>10, <1>11 DEF HostStep

-----------------------------------------------------------------------------
(* One more line leaves the lines above it in their places.                *)
LEMMA OneLineMore ==
  ASSUME NEW old, NEW e, \E S : old \in Seq(S)
  PROVE  /\ \E S : Append(old, e) \in Seq(S)
         /\ Len(old) \in Nat /\ DOMAIN old = 1 .. Len(old)
         /\ Len(Append(old, e)) = Len(old) + 1
         /\ DOMAIN Append(old, e) = 1 .. Len(old) + 1
         /\ Append(old, e)[Len(old) + 1] = e
         /\ \A k \in 1 .. Len(old) : Append(old, e)[k] = old[k]
<1>1. PICK S : old \in Seq(S)
  OBVIOUS
<1>2. PICK T : T = S \cup {e}
  OBVIOUS
<1>3. old \in Seq(T) /\ e \in T
  BY <1>1, <1>2
<1>4. Append(old, e) \in Seq(T)
  BY <1>3
<1> QED
  BY <1>3, <1>4

(* One more append to the last line leaves all lines in their places.      *)
LEMMA OneAppendMore ==
  ASSUME NEW old, \E S : old \in Seq(S), Len(old) \in DOMAIN old
  PROVE  /\ \E S : Continued(old) \in Seq(S)
         /\ Len(old) \in Nat /\ DOMAIN old = 1 .. Len(old)
         /\ Len(Continued(old)) = Len(old)
         /\ DOMAIN Continued(old) = 1 .. Len(old)
         /\ Continued(old)[Len(old)] = OneMore(old[Len(old)])
         /\ \A k \in 1 .. Len(old) - 1 : Continued(old)[k] = old[k]
<1>1. PICK S : old \in Seq(S)
  OBVIOUS
<1>2. PICK q : q = OneMore(old[Len(old)])
  OBVIOUS
<1>3. PICK T : T = S \cup {q}
  OBVIOUS
<1>4. old \in Seq(T) /\ q \in T
  BY <1>1, <1>3
<1>5. Continued(old) = [old EXCEPT ![Len(old)] = q]
  BY <1>2 DEF Continued
<1>6. Continued(old) \in Seq(T) /\ Len(Continued(old)) = Len(old)
  BY <1>4, <1>5
<1> QED
  BY <1>2, <1>4, <1>5, <1>6

(* An append more changes nothing of an entry but the number of them, and  *)
(* nothing of what the fabric has no use for.                              *)
LEMMA EntryContinued ==
  ASSUME NEW e, IsEntry(e)
  PROVE  LET q == OneMore(e)
         IN  /\ IsEntry(q) /\ q.kind = e.kind /\ q.config = e.config
             /\ q.parts = e.parts + 1
             /\ Essence(q) = OneMore(Essence(e))
<1>1. PICK p, c : p = e.parts + 1 /\ c = Shortened(e.config, 16)
  OBVIOUS
<1>2. PICK q : q = [e EXCEPT !.parts = p]
  OBVIOUS
<1>3. q = OneMore(e) /\ p \in Nat /\ e.parts \in Nat
  BY <1>1, <1>2 DEF OneMore, IsEntry
<1>4. CASE e.kind = "header"
  <2>1. DOMAIN e = {"kind", "m", "config", "parts"}
    BY <1>4 DEF IsEntry
  <2>2. /\ q.kind = "header" /\ q.config = e.config /\ q.parts = p
        /\ DOMAIN q = {"kind", "m", "config", "parts"}
    BY <1>2, <1>4, <2>1
  <2>3. PICK f : f = [e EXCEPT !.config = c]
    OBVIOUS
  <2>4. Essence(e) = f /\ Essence(q) = [q EXCEPT !.config = c]
    BY <1>1, <1>4, <2>2, <2>3 DEF Essence, ConfigLength
  <2>5. f.parts = e.parts
    BY <2>1, <2>3
  <2>6. OneMore(Essence(e)) = [f EXCEPT !.parts = p]
    BY <1>1, <2>4, <2>5 DEF OneMore
  <2>7. [q EXCEPT !.config = c] = [f EXCEPT !.parts = p]
    BY <1>2, <2>3
  <2> QED
    BY <1>1, <1>3, <1>4, <2>2, <2>4, <2>6, <2>7 DEF IsEntry
<1>5. CASE e.kind = "result"
  <2>1. DOMAIN e = {"kind", "j", "v0", "v1", "input", "config", "parts"}
    BY <1>5 DEF IsEntry
  <2>2. /\ q.kind = "result" /\ q.config = e.config /\ q.input = e.input /\ q.parts = p
        /\ DOMAIN q = {"kind", "j", "v0", "v1", "input", "config", "parts"}
    BY <1>2, <1>5, <2>1
  <2>3. PICK i : i = Shortened(e.input, 4)
    OBVIOUS
  <2>4. PICK f : f = [e EXCEPT !.config = c, !.input = i]
    OBVIOUS
  <2>5. Essence(e) = f /\ Essence(q) = [q EXCEPT !.config = c, !.input = i]
    BY <1>1, <1>5, <2>2, <2>3, <2>4 DEF Essence, ConfigLength, InputLength
  <2>6. f.parts = e.parts
    BY <2>1, <2>4
  <2>7. OneMore(Essence(e)) = [f EXCEPT !.parts = p]
    BY <1>1, <2>5, <2>6 DEF OneMore
  <2>8. [q EXCEPT !.config = c, !.input = i] = [f EXCEPT !.parts = p]
    BY <1>2, <2>4
  <2> QED
    BY <1>1, <1>3, <1>5, <2>2, <2>5, <2>7, <2>8 DEF IsEntry
<1> QED
  BY <1>4, <1>5 DEF IsEntry

(* The entry that an append begins.                                        *)
LEMMA EntryBegun ==
  ASSUME Entries, NEW r, IsEntry(r), data_result_txt' = Append(data_result_txt, r)
  PROVE  /\ Entries'
         /\ Len(data_result_txt) \in Nat
         /\ DOMAIN data_result_txt = 1 .. Len(data_result_txt)
         /\ Len(data_result_txt') = Len(data_result_txt) + 1
         /\ DOMAIN data_result_txt' = 1 .. Len(data_result_txt) + 1
         /\ LastEntry' = r
         /\ \A k \in 1 .. Len(data_result_txt) :
              data_result_txt'[k] = data_result_txt[k]
<1>1. PICK old, new : old = data_result_txt /\ new = Append(old, r)
  OBVIOUS
<1>2. \E S : old \in Seq(S)
  BY <1>1 DEF Entries
<1>3. /\ \E S : new \in Seq(S)
      /\ Len(old) \in Nat /\ DOMAIN old = 1 .. Len(old)
      /\ Len(new) = Len(old) + 1 /\ DOMAIN new = 1 .. Len(old) + 1
      /\ new[Len(old) + 1] = r
      /\ \A k \in 1 .. Len(old) : new[k] = old[k]
  <2>1. \E S : new \in Seq(S)
    BY <1>1, <1>2, OneLineMore
  <2> QED
    BY <1>1, <1>2, <2>1, OneLineMore
<1>4. data_result_txt' = new
  BY <1>1
<1>5. LastEntry' = r
  BY <1>3, <1>4 DEF LastEntry
<1>6. ASSUME NEW n \in 1 .. Len(old) + 1
      PROVE  IsEntry(new[n])
  <2>1. CASE n = Len(old) + 1
    BY <1>3, <2>1
  <2>2. CASE n # Len(old) + 1
    <3>1. n \in 1 .. Len(old) /\ new[n] = old[n]
      BY <1>3, <2>2
    <3> QED
      BY <1>1, <1>3, <3>1 DEF Entries
  <2> QED
    BY <2>1, <2>2
<1> QED
  BY <1>1, <1>3, <1>4, <1>5, <1>6 DEF Entries

(* The entry that an append continues.                                     *)
LEMMA LastContinued ==
  ASSUME Entries, Len(data_result_txt) \in DOMAIN data_result_txt,
         data_result_txt' = Continued(data_result_txt)
  PROVE  /\ Entries' /\ IsEntry(LastEntry)
         /\ Len(data_result_txt) \in Nat
         /\ DOMAIN data_result_txt = 1 .. Len(data_result_txt)
         /\ Len(data_result_txt') = Len(data_result_txt)
         /\ DOMAIN data_result_txt' = 1 .. Len(data_result_txt)
         /\ LastEntry' = OneMore(LastEntry)
         /\ \A k \in 1 .. Len(data_result_txt) - 1 :
              data_result_txt'[k] = data_result_txt[k]
<1>1. PICK old, new : old = data_result_txt /\ new = Continued(old)
  OBVIOUS
<1>2. \E S : old \in Seq(S)
  BY <1>1 DEF Entries
<1>3. /\ \E S : new \in Seq(S)
      /\ Len(old) \in Nat /\ DOMAIN old = 1 .. Len(old)
      /\ Len(new) = Len(old) /\ DOMAIN new = 1 .. Len(old)
      /\ new[Len(old)] = OneMore(old[Len(old)])
      /\ \A k \in 1 .. Len(old) - 1 : new[k] = old[k]
  BY <1>1, <1>2, OneAppendMore
<1>4. data_result_txt' = new
  BY <1>1
<1>5. LastEntry = old[Len(old)] /\ LastEntry' = OneMore(LastEntry)
  BY <1>1, <1>3, <1>4 DEF LastEntry
<1>6. IsEntry(LastEntry) /\ IsEntry(OneMore(LastEntry))
  BY <1>1, <1>5, EntryContinued DEF Entries
<1>7. ASSUME NEW n \in 1 .. Len(old)
      PROVE  IsEntry(new[n])
  <2>1. CASE n = Len(old)
    BY <1>3, <1>5, <1>6, <2>1
  <2>2. CASE n # Len(old)
    <3>1. n \in 1 .. Len(old) - 1 /\ n \in DOMAIN old
      <4> PICK last : last = Len(old)
        OBVIOUS
      <4>1. last \in Nat /\ DOMAIN old = 1 .. last
        BY <1>3
      <4> QED
        BY <2>2, <4>1
    <3>2. new[n] = old[n]
      BY <1>3, <3>1
    <3>3. IsEntry(old[n])
      BY <1>1, <3>1 DEF Entries
    <3> QED
      BY <3>2, <3>3
  <2> QED
    BY <2>1, <2>2
<1> QED
  BY <1>1, <1>3, <1>4, <1>5, <1>6, <1>7 DEF Entries

(* The header of the test in progress stays where it is.                   *)
LEMMA LogStep ==
  ASSUME Control, Log, [HostStep]_hostVars
  PROVE  Log'
<1>0. m \in Nat /\ j \in Nat
  BY AnswerTypes DEF Control
<1>1. ASSUME UNCHANGED <<data_result_txt, test_config_txt, m, j>>,
             InRow, InRow', pc \notin {"header", "result"}, pc' \notin {"header", "result"}
      PROVE  Log'
  <2>1. CampaignCol' = CampaignCol /\ TestConfig' = TestConfig /\ LastEntry' = LastEntry
    BY <1>1 DEF CampaignCol, TestConfig, LastEntry
  <2> QED
    BY <1>1, <2>1 DEF Log, Entries, InProgress
<1>2. ASSUME UNCHANGED data_result_txt, ~InRow', m' = 0
      PROVE  Log'
  BY <1>2 DEF Log, Entries
<1>3. CASE Start \/ WriteText \/ WriteNewline \/ EndInFile \/ Kill
  BY <1>2, <1>3 DEF Start, WriteText, WriteNewline, EndInFile, Kill, Control, InRow, InTest,
                    testVars
<1>4. CASE BeginConfiguration
  <2>1. PICK r : /\ data_result_txt' = Append(data_result_txt, r)
                 /\ r = [kind |-> "header", m |-> m, config |-> TestConfig, parts |-> 1]
    BY <1>4 DEF BeginConfiguration
  <2>2. IsEntry(r) /\ r.kind = "header" /\ r.config = TestConfig /\ r.parts = 1
    BY <2>1 DEF IsEntry
  <2>3. pc' = "header" /\ CampaignCol' = 0 /\ TestConfig' = TestConfig
    BY <1>4 DEF BeginConfiguration, campaignVars, fileVars, TestConfig, CampaignCol
  <2>4. /\ Entries' /\ Len(data_result_txt') \in DOMAIN data_result_txt'
        /\ Len(data_result_txt') \in Nat /\ LastEntry' = r
    BY <2>1, <2>2, EntryBegun DEF Log
  <2>5. data_result_txt'[Len(data_result_txt') - CampaignCol'] = r
    BY <2>3, <2>4 DEF LastEntry
  <2>6. InProgress(LastEntry)'
    BY <2>2, <2>3, <2>4 DEF InProgress, HeaderParts
  <2> QED
    BY <2>2, <2>3, <2>4, <2>5, <2>6 DEF Log
<1>5. CASE WriteHeader
  <2>1. /\ data_result_txt' = Continued(data_result_txt) /\ InRow /\ InRow'
        /\ CampaignCol = 0 /\ CampaignCol' = 0 /\ TestConfig' = TestConfig
        /\ pc = "header"
        /\ \/ pc' = "header" /\ ~Whole(LastEntry')
           \/ pc' = "inner" /\ Whole(LastEntry')
    BY <1>5 DEF WriteHeader, campaignVars, fileVars, TestConfig, CampaignCol, InRow,
                FirstStimulus
  <2>2. /\ Len(data_result_txt) \in DOMAIN data_result_txt
        /\ LastEntry.kind = "header" /\ LastEntry.parts < HeaderParts
    BY <2>1 DEF Log, InProgress
  <2>3. /\ Entries' /\ Len(data_result_txt') \in DOMAIN data_result_txt'
        /\ Len(data_result_txt') = Len(data_result_txt)
        /\ Len(data_result_txt) \in Nat
        /\ IsEntry(LastEntry) /\ LastEntry' = OneMore(LastEntry)
    BY <2>1, <2>2, LastContinued DEF Log
  <2>4. /\ LastEntry'.kind = "header" /\ LastEntry'.config = LastEntry.config
        /\ LastEntry'.parts = LastEntry.parts + 1 /\ LastEntry.parts \in Nat
    BY <2>2, <2>3, EntryContinued DEF IsEntry
  <2>5. InProgress(LastEntry)'
    BY <2>1, <2>2, <2>4 DEF InProgress, Whole, HeaderParts
  <2>6. /\ data_result_txt'[Len(data_result_txt') - CampaignCol'] = LastEntry'
        /\ data_result_txt[Len(data_result_txt) - CampaignCol] = LastEntry
    BY <2>1, <2>3 DEF LastEntry
  <2>7. LastEntry.config = TestConfig
    BY <2>1, <2>6 DEF Log
  <2> QED
    BY <2>1, <2>3, <2>4, <2>5, <2>6, <2>7 DEF Log
<1>6. CASE EndConfiguration
  <2>1. /\ UNCHANGED data_result_txt /\ InRow /\ ~InRow' /\ pc = "inner" /\ pc' = "outer"
    BY <1>6 DEF EndConfiguration, InRow, InTest
  <2>2. LastEntry' = LastEntry
    BY <2>1 DEF LastEntry
  <2> QED
    BY <2>1, <2>2 DEF Log, Entries, InProgress
<1>7. CASE Finish
  <2>1. /\ UNCHANGED <<data_result_txt, m>> /\ ~InRow' /\ pc = "outer" /\ pc' = "done"
    BY <1>7 DEF Finish, InRow, InTest, testVars
  <2>2. LastEntry' = LastEntry
    BY <2>1 DEF LastEntry
  <2> QED
    BY <2>1, <2>2 DEF Log, Entries, InProgress
<1>8. CASE Case1 \/ Case2 \/ Case3 \/ Case4
  BY <1>1, <1>8 DEF Case1, Case2, Case3, Case4, Put, campaignVars, fileVars, InRow, InTest
<1>9. ASSUME NEW word, Case5(word)
      PROVE  Log'
  <2>1. PICK tail : data_result_txt' = Append(data_result_txt,
          ResultLine(Decimal2Binary(word)[31], Decimal2Binary(word)[30], tail))
    BY <1>9 DEF Case5
  <2>2. PICK v0, v1, text, r :
          /\ data_result_txt' = Append(data_result_txt, r)
          /\ r = [kind |-> "result", j |-> j, v0 |-> v0, v1 |-> v1,
                  input |-> text, config |-> TestConfig, parts |-> 1]
    BY <2>1 DEF ResultLine
  <2>3. IsEntry(r) /\ r.kind = "result" /\ r.parts = 1
    BY <2>2 DEF IsEntry
  <2>4. /\ pc' = "result" /\ CampaignCol = j /\ CampaignCol' = j + 1
        /\ TestConfig' = TestConfig /\ InRow /\ pc \notin {"header", "result"}
    BY <1>9 DEF Case5, campaignVars, fileVars, TestConfig, CampaignCol, InRow, InTest
  <2>5. /\ Entries' /\ Len(data_result_txt) \in Nat
        /\ DOMAIN data_result_txt = 1 .. Len(data_result_txt)
        /\ Len(data_result_txt') = Len(data_result_txt) + 1
        /\ DOMAIN data_result_txt' = 1 .. Len(data_result_txt) + 1
        /\ LastEntry' = r
        /\ \A k \in 1 .. Len(data_result_txt) :
             data_result_txt'[k] = data_result_txt[k]
    BY <2>2, <2>3, EntryBegun DEF Log
  <2>6. PICK h : h = Len(data_result_txt) - CampaignCol
    OBVIOUS
  <2>7. /\ h \in DOMAIN data_result_txt /\ data_result_txt[h].kind = "header"
        /\ data_result_txt[h].config = TestConfig
    BY <2>4, <2>6 DEF Log
  <2>8. Len(data_result_txt') - CampaignCol' = h
    BY <1>0, <2>4, <2>5, <2>6
  <2>9. InProgress(LastEntry)'
    BY <2>3, <2>4, <2>5 DEF InProgress, ResultParts
  <2> QED
    BY <2>4, <2>5, <2>7, <2>8, <2>9 DEF Log
<1>10. CASE WriteResult
  <2>1. /\ data_result_txt' = Continued(data_result_txt) /\ InRow /\ InRow'
        /\ CampaignCol = j + 1 /\ CampaignCol' = j + 1 /\ TestConfig' = TestConfig
        /\ pc = "result"
        /\ \/ pc' = "result" /\ ~Whole(LastEntry')
           \/ pc' = "inner" /\ Whole(LastEntry')
    BY <1>10 DEF WriteResult, campaignVars, fileVars, TestConfig, CampaignCol, InRow,
                 NextStimulus
  <2>2. /\ Len(data_result_txt) \in DOMAIN data_result_txt
        /\ LastEntry.kind = "result" /\ LastEntry.parts < ResultParts
    BY <2>1 DEF Log, InProgress
  <2>3. /\ Entries' /\ Len(data_result_txt) \in Nat
        /\ DOMAIN data_result_txt = 1 .. Len(data_result_txt)
        /\ Len(data_result_txt') = Len(data_result_txt)
        /\ DOMAIN data_result_txt' = 1 .. Len(data_result_txt)
        /\ IsEntry(LastEntry) /\ LastEntry' = OneMore(LastEntry)
        /\ \A k \in 1 .. Len(data_result_txt) - 1 :
             data_result_txt'[k] = data_result_txt[k]
    BY <2>1, <2>2, LastContinued DEF Log
  <2>4. /\ LastEntry'.kind = "result"
        /\ LastEntry'.parts = LastEntry.parts + 1 /\ LastEntry.parts \in Nat
    BY <2>2, <2>3, EntryContinued DEF IsEntry
  <2>5. InProgress(LastEntry)'
    BY <2>1, <2>2, <2>4 DEF InProgress, Whole, ResultParts
  <2>6. PICK h : h = Len(data_result_txt) - CampaignCol
    OBVIOUS
  <2>7. /\ h \in DOMAIN data_result_txt /\ data_result_txt[h].kind = "header"
        /\ data_result_txt[h].config = TestConfig
    BY <2>1, <2>6 DEF Log
  <2>8. Len(data_result_txt') - CampaignCol' = h /\ h \in 1 .. Len(data_result_txt) - 1
    BY <1>0, <2>1, <2>3, <2>6, <2>7
  <2> QED
    BY <2>1, <2>2, <2>3, <2>5, <2>7, <2>8 DEF Log
<1>11. CASE UNCHANGED hostVars
  <2>1. UNCHANGED <<data_result_txt, CampaignCol, TestConfig, LastEntry, pc, m, InRow>>
    BY <1>11 DEF hostVars, testVars, fileVars, CampaignCol, TestConfig, LastEntry, InRow, InTest
  <2> QED
    BY <2>1 DEF Log, Entries, InProgress
<1> QED
  BY <1>3, <1>4, <1>5, <1>6, <1>7, <1>8, <1>9, <1>10, <1>11 DEF HostStep

-----------------------------------------------------------------------------
(* The invariant holds before the first run.                                *)
LEMMA IInvInit ==
  ASSUME HostInit
  PROVE  IInv
<1>1. Control
  <2>1. LineCount = 1 /\ num_test_comb = 0 /\ num_inputs_comb = 0
    BY DEF HostInit, NoAnswers, LineCount, num_test_comb, num_inputs_comb
  <2>2. 0 \in 0 .. MaxRuns
    BY RunsAssumption
  <2> QED
    BY <2>1, <2>2 DEF HostInit, Control, InRow, InTest
<1>2. Buffer
  <2>1. Holds(EmptyBuffer, 0)
    BY DEF Holds, EmptyBuffer, Cell
  <2> QED
    BY <2>1 DEF HostInit, Buffer
<1>3. Files
  <2>1. ASSUME NEW n, NEW Texts
        PROVE  FileOf(<<>>, n, Texts) /\ Complete(<<>>) = 0
    BY DEF FileOf, Complete, Unfinished
  <2>2. ConfigLines(0) = 0 /\ InputLines(0) = 0
    BY DEF ConfigLines, InputLines
  <2> QED
    BY <2>1, <2>2 DEF HostInit, Files
<1>4. Words
  <2>1. ResetWord \in [WordBit -> {"0", "1"}]
    BY DEF ResetWord
  <2> QED
    BY <2>1, FirstString DEF HostInit, Words, InTest
<1>5. Log
  <2>1. <<>> \in Seq({})
    OBVIOUS
  <2> QED
    BY <2>1 DEF HostInit, Log, Entries, InRow, InTest
<1> QED
  BY <1>1, <1>2, <1>3, <1>4, <1>5 DEF IInv

(* Each step of the program, and its end, keeps the invariant.              *)
LEMMA IInvStep ==
  ASSUME AnswersFit, IInv, [HostStep]_hostVars
  PROVE  IInv'
<1>1. Control /\ Buffer /\ Files /\ Words /\ Log
  BY DEF IInv
<1> QED
  BY <1>1, ControlStep, FilesStep, WordsStep, LogStep DEF IInv

-----------------------------------------------------------------------------
(* The configuration in the word, from the first edge of the scan on.      *)
LEMMA WordInTest ==
  ASSUME IInv, pc \in {"case3", "case4", "case5"}
  PROVE  \A i \in 0 .. 15 : gpio_0[6 + i] = CharAt(TestConfig, 16 - i)
<1>1. Full(main_string) /\ gpio_0 = WordOf(main_string) /\ ScanPart
  BY DEF IInv, Words, InTest
<1>2. ASSUME NEW i \in 0 .. 15
      PROVE  gpio_0[6 + i] = CharAt(TestConfig, 16 - i)
  <2>1. 6 + i \in WordBit /\ 31 - (6 + i) = 9 + (16 - i) /\ 16 - i \in 1 .. 16
    BY DEF WordBit
  <2>2. gpio_0[6 + i] = main_string[9 + (16 - i)]
    BY <1>1, <2>1, WordBits
  <2> QED
    BY <1>1, <2>1, <2>2 DEF ScanPart
<1> QED
  BY <1>2

(* The rest of it when the outputs are read.                               *)
LEMMA WordAtReading ==
  ASSUME IInv, pc = "case5"
  PROVE  /\ \A s \in 0 .. 3 : gpio_0[2 + s] = CharAt(InputLine, 4 - s)
         /\ \A s \in 0 .. 3 : input_data[4 - s] = CharAt(InputLine, 4 - s)
         /\ gpio_0[0] = "0" /\ gpio_0[1] = "0" /\ gpio_0[22] = "0"
<1>1. /\ Full(main_string) /\ gpio_0 = WordOf(main_string)
      /\ ScanPart /\ DrivePart /\ main_string[30] = "0"
  BY DEF IInv, Words, InTest
<1>2. \A b \in WordBit : gpio_0[b] = main_string[31 - b]
  BY <1>1, WordBits
<1>3. gpio_0[0] = "0" /\ gpio_0[1] = "0" /\ gpio_0[22] = "0"
  <2>1. 0 \in WordBit /\ 1 \in WordBit /\ 22 \in WordBit
    BY DEF WordBit
  <2> QED
    BY <1>1, <1>2, <2>1 DEF ScanPart, DrivePart
<1>4. ASSUME NEW s \in 0 .. 3
      PROVE  /\ gpio_0[2 + s] = CharAt(InputLine, 4 - s)
             /\ input_data[4 - s] = CharAt(InputLine, 4 - s)
  <2>1. 2 + s \in WordBit /\ 31 - (2 + s) = 25 + (4 - s) /\ 4 - s \in 1 .. 4
    BY DEF WordBit
  <2>2. gpio_0[2 + s] = main_string[25 + (4 - s)]
    BY <1>2, <2>1
  <2> QED
    BY <1>1, <2>1, <2>2 DEF DrivePart
<1> QED
  BY <1>3, <1>4

-----------------------------------------------------------------------------
(* The steps of the program in the eyes of Campaign.                       *)

(* What Campaign sees of a header.                                         *)
LEMMA EssenceOfHeader ==
  ASSUME NEW n, NEW line
  PROVE  Essence([kind |-> "header", m |-> n, config |-> line, parts |-> 1]) =
           [kind |-> "header", m |-> n, config |-> Shortened(line, 16), parts |-> 1]
BY DEF Essence, ConfigLength

(* What Campaign sees of a result line.                                     *)
LEMMA EssenceOfResult ==
  ASSUME NEW n, NEW v0, NEW v1, NEW text, NEW line
  PROVE  Essence([kind |-> "result", j |-> n, v0 |-> v0, v1 |-> v1,
                  input |-> text, config |-> line, parts |-> 1]) =
           [kind |-> "result", j |-> n, v0 |-> v0, v1 |-> v1,
            input |-> Shortened(text, 4), config |-> Shortened(line, 16), parts |-> 1]
BY DEF Essence, ConfigLength, InputLength

(* The first four characters printed are the stimulus, whatever lies       *)
(* behind it.                                                              *)
LEMMA PrintedInput ==
  ASSUME NEW line, Digits(line, 4), NEW tail \in Seq(STRING), NEW data,
         data = [i \in 1 .. 4 |-> CharAt(line, i)]
  PROVE  Shortened(data \o tail, 4) = Shortened(line, 4)
<1>0. PICK T : T = STRING \cup {"0", "1"}
  OBVIOUS
<1>1. data \in Seq(T) /\ Len(data) = 4 /\ tail \in Seq(T)
  <2>1. \A i \in 1 .. 4 : CharAt(line, i) \in T
    BY <1>0 DEF Digits
  <2>2. tail \in Seq(T)
    BY <1>0
  <2> QED
    BY <2>1, <2>2
<1>2. ASSUME NEW i \in 1 .. 4
      PROVE  CharAt(data \o tail, i) = CharAt(line, i)
  <2>1. i \in DOMAIN (data \o tail) /\ (data \o tail)[i] = data[i]
    BY <1>1
  <2> QED
    BY <2>1 DEF CharAt
<1> QED
  BY <1>2 DEF Shortened

(* An entry begun in the file is an entry begun in the log.                *)
LEMMA LogAppended ==
  ASSUME Entries, NEW r, data_result_txt' = Append(data_result_txt, r)
  PROVE  CampaignLog' = Append(CampaignLog, Essence(r))
<1>1. PICK old, new : old = data_result_txt /\ new = Append(old, r)
  OBVIOUS
<1>2. /\ Len(old) \in Nat /\ DOMAIN old = 1 .. Len(old)
      /\ DOMAIN new = 1 .. Len(old) + 1 /\ new[Len(old) + 1] = r
      /\ \A k \in 1 .. Len(old) : new[k] = old[k]
  <2>1. \E S : old \in Seq(S)
    BY <1>1 DEF Entries
  <2> QED
    BY <1>1, <2>1, OneLineMore
<1>3. PICK before, after : /\ before = [k \in 1 .. Len(old) |-> Essence(old[k])]
                           /\ after = [k \in 1 .. Len(old) + 1 |-> Essence(new[k])]
  OBVIOUS
<1>4. CampaignLog = before /\ CampaignLog' = after
  BY <1>1, <1>2, <1>3 DEF CampaignLog
<1>5. after = Append(before, Essence(r))
  <2>1. PICK T : T = {Essence(new[k]) : k \in 1 .. Len(old) + 1}
    OBVIOUS
  <2>2. \A k \in 1 .. Len(old) : Essence(old[k]) \in T
    BY <1>2, <2>1
  <2>3. before \in Seq(T) /\ Len(before) = Len(old)
    BY <1>2, <1>3, <2>2
  <2>4. Essence(r) \in T
    BY <1>2, <2>1
  <2>5. /\ Append(before, Essence(r)) \in Seq(T)
        /\ Len(Append(before, Essence(r))) = Len(old) + 1
        /\ \A k \in 1 .. Len(old) + 1 :
             Append(before, Essence(r))[k] =
               IF k = Len(old) + 1 THEN Essence(r) ELSE before[k]
    BY <1>2, <2>3, <2>4
  <2>6. /\ after \in Seq(T) /\ Len(after) = Len(old) + 1
        /\ \A k \in 1 .. Len(old) + 1 :
             after[k] = IF k = Len(old) + 1 THEN Essence(r) ELSE before[k]
    <3>1. after \in Seq(T) /\ Len(after) = Len(old) + 1
      BY <1>2, <1>3, <2>1
    <3>2. ASSUME NEW k \in 1 .. Len(old) + 1
          PROVE  after[k] = IF k = Len(old) + 1 THEN Essence(r) ELSE before[k]
      <4>1. CASE k = Len(old) + 1
        BY <1>2, <1>3, <4>1
      <4>2. CASE k # Len(old) + 1
        <5>1. k \in 1 .. Len(old)
          BY <1>2, <4>2
        <5> QED
          BY <1>2, <1>3, <4>2, <5>1
      <4> QED
        BY <4>1, <4>2
    <3> QED
      BY <3>1, <3>2
  <2> QED
    BY <2>5, <2>6
<1> QED
  BY <1>4, <1>5

(* An entry continued in the file is an entry continued in the log.        *)
LEMMA LogContinued ==
  ASSUME Entries, Len(data_result_txt) \in DOMAIN data_result_txt,
         data_result_txt' = Continued(data_result_txt)
  PROVE  CampaignLog' = Continued(CampaignLog)
<1>1. PICK old, new : old = data_result_txt /\ new = Continued(old)
  OBVIOUS
<1>2. PICK last : last = Len(old)
  OBVIOUS
<1>3. /\ last \in Nat /\ DOMAIN old = 1 .. last /\ DOMAIN new = 1 .. last
      /\ new[last] = OneMore(old[last]) /\ last \in 1 .. last
      /\ \A k \in 1 .. last - 1 : new[k] = old[k]
  <2>1. \E S : old \in Seq(S)
    BY <1>1 DEF Entries
  <2> QED
    BY <1>1, <1>2, <2>1, OneAppendMore
<1>4. PICK before, after : /\ before = [k \in 1 .. last |-> Essence(old[k])]
                           /\ after = [k \in 1 .. last |-> Essence(new[k])]
  OBVIOUS
<1>5. CampaignLog = before /\ CampaignLog' = after
  BY <1>1, <1>3, <1>4 DEF CampaignLog
<1>6. Len(before) = last /\ before[last] = Essence(old[last])
  BY <1>3, <1>4
<1>7. Essence(new[last]) = OneMore(before[last])
  <2>1. IsEntry(old[last])
    BY <1>1, <1>2, <1>3 DEF Entries
  <2> QED
    BY <1>3, <1>6, <2>1, EntryContinued
<1>8. after = [before EXCEPT ![last] = OneMore(before[last])]
  <2>1. ASSUME NEW k \in 1 .. last
        PROVE  after[k] = IF k = last THEN OneMore(before[last]) ELSE before[k]
    <3>1. CASE k = last
      BY <1>4, <1>7, <3>1
    <3>2. CASE k # last
      <4>1. k \in 1 .. last - 1
        BY <1>3, <3>2
      <4> QED
        BY <1>3, <1>4, <3>2, <4>1
    <3> QED
      BY <3>1, <3>2
  <2> QED
    BY <1>4, <2>1
<1> QED
  BY <1>5, <1>6, <1>8 DEF Continued

(* Campaign sees of the last entry whether it is whole.                    *)
LEMMA LastSeen ==
  ASSUME Log, InRow \/ m > 0
  PROVE  Whole(CampaignLog[Len(CampaignLog)]) <=> Whole(LastEntry)
<1>1. PICK e : e = LastEntry
  OBVIOUS
<1>2. /\ Len(data_result_txt) \in DOMAIN data_result_txt /\ IsEntry(e)
      /\ \E S : data_result_txt \in Seq(S)
  BY <1>1 DEF Log, Entries, LastEntry
<1>3. CampaignLog[Len(CampaignLog)] = Essence(e)
  <2>1. Len(CampaignLog) = Len(data_result_txt)
    BY <1>2 DEF CampaignLog
  <2> QED
    BY <1>1, <1>2, <2>1 DEF CampaignLog, LastEntry
<1>4. Essence(e).kind = e.kind /\ Essence(e).parts = e.parts
  <2>1. CASE e.kind = "header"
    <3>1. DOMAIN e = {"kind", "m", "config", "parts"}
      BY <1>2, <2>1 DEF IsEntry
    <3> QED
      BY <2>1, <3>1 DEF Essence
  <2>2. CASE e.kind = "result"
    <3>1. DOMAIN e = {"kind", "j", "v0", "v1", "input", "config", "parts"}
      BY <1>2, <2>2 DEF IsEntry
    <3> QED
      BY <2>2, <3>1 DEF Essence
  <2> QED
    BY <1>2, <2>1, <2>2 DEF IsEntry
<1> QED
  BY <1>1, <1>3, <1>4 DEF Whole

CampaignVars == <<CampaignLog, data_result_txt, CampaignPhase, SizeOf(answers),
                  CampaignRow, CampaignCol>>

(* The numbers Campaign sees.                                              *)
LEMMA CampaignTypes ==
  ASSUME IInv
  PROVE  /\ num_test_comb \in Nat /\ num_inputs_comb \in Nat /\ m \in Nat /\ j \in Nat
         /\ SizeOf(answers).tests = num_test_comb
         /\ SizeOf(answers).inputs = num_inputs_comb
<1>1. Control
  BY DEF IInv
<1> QED
  BY <1>1, AnswerTypes DEF Control, SizeOf, num_test_comb, num_inputs_comb

(* Start is the Begin of Campaign.                                         *)
LEMMA StartBegins ==
  ASSUME IInv, Start
  PROVE  /\ CampaignPhase = "idle" /\ CampaignPhase' = "running"
         /\ SizeOf(answers)' \in CampaignSizes
         /\ UNCHANGED <<CampaignLog, data_result_txt, CampaignRow, CampaignCol>>
BY DEF Start, testVars, CampaignPhase, CampaignRow, CampaignCol, InRow, InTest,
       CampaignSizes, SizeOf, CampaignLog

(* The configuration as it is printed.                                     *)
LEMMA PrintedConfig ==
  ASSUME Files, ConfigThere, m \in Nat
  PROVE  TestConfig \in Seq(Char)
<1>1. test_config_txt \in Seq(Seq(Char))
  BY DEF Files, FileOf
<1> QED
  BY <1>1 DEF ConfigThere

(* The head of the outer loop, with the first append of the header, is its *)
(* Header: of the text as it is printed, and of what the fabric uses.      *)
LEMMA ConfigurationBegins ==
  ASSUME IInv, BeginConfiguration
  PROVE  /\ CampaignPhase = "running" /\ CampaignPhase' = "running"
         /\ CampaignRow = m /\ CampaignRow' = m + 1
         /\ CampaignCol' = 0 /\ m < num_test_comb
         /\ m > 0 => /\ CampaignCol = num_inputs_comb /\ Whole(LastEntry)
                     /\ Whole(CampaignLog[Len(CampaignLog)])
         /\ SizeOf(answers)' = SizeOf(answers)
         /\ Shortened(TestConfig, 16) \in Configs /\ TestConfig \in Seq(Char)
         /\ data_result_txt' = Append(data_result_txt,
              [kind |-> "header", m |-> m, config |-> TestConfig, parts |-> 1])
         /\ CampaignLog' = Append(CampaignLog,
              [kind |-> "header", m |-> m, config |-> Shortened(TestConfig, 16),
               parts |-> 1])
<1>0. Control /\ Files /\ Log
  BY DEF IInv
<1>1. /\ CampaignPhase = "running" /\ CampaignPhase' = "running"
      /\ CampaignRow = m /\ CampaignRow' = m + 1
      /\ CampaignCol' = 0 /\ m < num_test_comb /\ pc = "outer"
      /\ m > 0 => CampaignCol = num_inputs_comb
      /\ SizeOf(answers)' = SizeOf(answers)
      /\ data_result_txt' = Append(data_result_txt,
           [kind |-> "header", m |-> m, config |-> TestConfig, parts |-> 1])
  BY <1>0, CampaignTypes DEF BeginConfiguration, MoreConfigurations, Control,
          campaignVars, CampaignPhase, CampaignRow, CampaignCol, InRow, InTest, SizeOf
<1>2. m > 0 => Whole(LastEntry) /\ Whole(CampaignLog[Len(CampaignLog)])
  BY <1>0, <1>1, LastSeen DEF Log, InProgress
<1>3. Shortened(TestConfig, 16) \in Configs /\ TestConfig \in Seq(Char)
  <2>1. ConfigThere
    BY <1>0, <1>1, ConfigIsThere
  <2> QED
    BY <1>0, <2>1, PrintedConfig, CampaignTypes DEF ConfigThere
<1>4. PICK n, line : n = m /\ line = TestConfig
  OBVIOUS
<1>5. PICK r : r = [kind |-> "header", m |-> n, config |-> line, parts |-> 1]
  OBVIOUS
<1>6. CampaignLog' = Append(CampaignLog, Essence(r))
  BY <1>0, <1>1, <1>4, <1>5, LogAppended DEF Log
<1>7. Essence(r) = [kind |-> "header", m |-> n, config |-> Shortened(line, 16), parts |-> 1]
  BY <1>5, EssenceOfHeader
<1> QED
  BY <1>1, <1>2, <1>3, <1>4, <1>6, <1>7

(* The further appends of a header or of a result are its Write.           *)
LEMMA EntryWritten ==
  ASSUME IInv, WriteHeader \/ WriteResult
  PROVE  /\ CampaignPhase = "running" /\ CampaignRow > 0
         /\ ~Whole(LastEntry) /\ ~Whole(CampaignLog[Len(CampaignLog)])
         /\ data_result_txt' = Continued(data_result_txt)
         /\ CampaignLog' = Continued(CampaignLog)
         /\ UNCHANGED <<CampaignPhase, SizeOf(answers), CampaignRow, CampaignCol>>
<1>0. Control /\ Log
  BY DEF IInv
<1>1. /\ CampaignPhase = "running" /\ CampaignRow = m + 1 /\ InRow
      /\ pc \in {"header", "result"}
      /\ data_result_txt' = Continued(data_result_txt)
      /\ UNCHANGED <<CampaignPhase, SizeOf(answers), CampaignRow, CampaignCol>>
  <2>1. CASE WriteHeader
    BY <1>0, <2>1 DEF WriteHeader, campaignVars, CampaignPhase, CampaignRow, CampaignCol,
                      InRow, InTest, SizeOf, FirstStimulus
  <2>2. CASE WriteResult
    BY <1>0, <2>2 DEF WriteResult, campaignVars, CampaignPhase, CampaignRow, CampaignCol,
                      InRow, InTest, SizeOf, NextStimulus
  <2> QED
    BY <2>1, <2>2
<1>2. /\ Len(data_result_txt) \in DOMAIN data_result_txt /\ InProgress(LastEntry)
      /\ IsEntry(LastEntry)
  BY <1>0, <1>1 DEF Log, Entries, LastEntry
<1>3. ~Whole(LastEntry)
  BY <1>1, <1>2 DEF InProgress, Whole, HeaderParts, ResultParts, IsEntry
<1>4. ~Whole(CampaignLog[Len(CampaignLog)])
  BY <1>0, <1>1, <1>3, LastSeen
<1>5. CampaignLog' = Continued(CampaignLog)
  BY <1>0, <1>1, <1>2, LogContinued DEF Log
<1> QED
  BY <1>1, <1>3, <1>4, <1>5, CampaignTypes

(* Case 5 is its Result, as far as the program goes: the line names the    *)
(* stimulus and the configuration of the test, and holds the two bits of   *)
(* the word.                                                               *)
LEMMA ReadingAppends ==
  ASSUME IInv, NEW word, Case5(word)
  PROVE  /\ CampaignPhase = "running" /\ CampaignPhase' = "running"
         /\ CampaignRow = m + 1 /\ CampaignRow' = m + 1
         /\ CampaignCol = j /\ CampaignCol' = j + 1 /\ j < num_inputs_comb
         /\ SizeOf(answers)' = SizeOf(answers)
         /\ Shortened(InputLine, 4) \in Stimuli
         /\ Whole(LastEntry) /\ Whole(CampaignLog[Len(CampaignLog)])
         /\ data_result_txt[Len(data_result_txt) - j].config = TestConfig
         /\ CampaignLog[Len(CampaignLog) - j].config = Shortened(TestConfig, 16)
         /\ \E text \in Seq(STRING \cup {"0", "1", "nl"}) :
              data_result_txt' = Append(data_result_txt,
                [kind |-> "result", j |-> j,
                 v0 |-> Decimal2Binary(word)[31], v1 |-> Decimal2Binary(word)[30],
                 input |-> text, config |-> TestConfig, parts |-> 1])
         /\ CampaignLog' = Append(CampaignLog,
              [kind |-> "result", j |-> j,
               v0 |-> Decimal2Binary(word)[31], v1 |-> Decimal2Binary(word)[30],
               input |-> Shortened(InputLine, 4), config |-> Shortened(TestConfig, 16),
               parts |-> 1])
<1>0. Control /\ Files /\ Words /\ Log
  BY DEF IInv
<1>1. /\ CampaignPhase = "running" /\ CampaignPhase' = "running"
      /\ CampaignRow = m + 1 /\ CampaignRow' = m + 1 /\ InTest /\ InRow /\ pc = "case5"
      /\ CampaignCol = j /\ CampaignCol' = j + 1 /\ j < num_inputs_comb
      /\ SizeOf(answers)' = SizeOf(answers)
  BY <1>0 DEF Case5, Control, campaignVars, CampaignPhase, CampaignRow, CampaignCol,
              InRow, InTest, SizeOf
<1>2. PICK v0, v1 : v0 = Decimal2Binary(word)[31] /\ v1 = Decimal2Binary(word)[30]
  OBVIOUS
<1>3. PICK tail \in Tails :
        data_result_txt' = Append(data_result_txt,
          [kind |-> "result", j |-> j, v0 |-> v0, v1 |-> v1,
           input |-> input_data \o tail, config |-> TestConfig, parts |-> 1])
  BY <1>2 DEF Case5, ResultLine
<1>4. PICK n, line, input, data, text :
        /\ n = j /\ line = TestConfig /\ input = InputLine
        /\ data = input_data /\ text = data \o tail
  OBVIOUS
<1>5. Shortened(input, 4) \in Stimuli /\ Digits(input, 4)
  BY <1>0, <1>1, <1>4, InputIsThere DEF InputThere
<1>6. data = [i \in 1 .. 4 |-> CharAt(input, i)] /\ tail \in Seq(STRING)
  BY <1>0, <1>1, <1>4, TailsAssumption DEF Words, DrivePart
<1>7. Shortened(text, 4) = Shortened(input, 4)
  BY <1>4, <1>5, <1>6, PrintedInput
<1>8. text \in Seq(STRING \cup {"0", "1", "nl"})
  <2>1. PICK T : T = STRING \cup {"0", "1", "nl"}
    OBVIOUS
  <2>2. data \in Seq(T)
    <3>1. \A i \in 1 .. 4 : CharAt(input, i) \in T
      BY <1>5, <2>1 DEF Digits
    <3> QED
      BY <1>6, <3>1
  <2>3. tail \in Seq(T)
    BY <1>6, <2>1
  <2> QED
    BY <1>4, <2>1, <2>2, <2>3
<1>9. CampaignLog' = Append(CampaignLog,
        [kind |-> "result", j |-> n, v0 |-> v0, v1 |-> v1,
         input |-> Shortened(input, 4), config |-> Shortened(line, 16), parts |-> 1])
  <2>1. PICK r : r = [kind |-> "result", j |-> n, v0 |-> v0, v1 |-> v1,
                      input |-> text, config |-> line, parts |-> 1]
    OBVIOUS
  <2>2. CampaignLog' = Append(CampaignLog, Essence(r))
    BY <1>0, <1>3, <1>4, <2>1, LogAppended DEF Log
  <2>3. Essence(r) = [kind |-> "result", j |-> n, v0 |-> v0, v1 |-> v1,
          input |-> Shortened(text, 4), config |-> Shortened(line, 16), parts |-> 1]
    BY <2>1, EssenceOfResult
  <2> QED
    BY <1>7, <2>2, <2>3
<1>10. /\ data_result_txt[Len(data_result_txt) - j].config = line
       /\ CampaignLog[Len(CampaignLog) - j].config = Shortened(line, 16)
  <2>1. PICK h, e : h = Len(data_result_txt) - j /\ e = data_result_txt[h]
    OBVIOUS
  <2>2. h \in DOMAIN data_result_txt /\ e.kind = "header" /\ e.config = line /\ IsEntry(e)
    BY <1>0, <1>1, <1>4, <2>1 DEF Log, Entries
  <2>3. Len(CampaignLog) = Len(data_result_txt)
    BY <1>0 DEF Log, Entries, CampaignLog
  <2>4. CampaignLog[h] = Essence(e)
    BY <2>1, <2>2 DEF CampaignLog
  <2>5. Essence(e).config = Shortened(line, 16)
    <3>1. "config" \in DOMAIN e
      BY <2>2 DEF IsEntry
    <3> QED
      BY <2>2, <3>1 DEF Essence, ConfigLength
  <2> QED
    BY <2>1, <2>2, <2>3, <2>4, <2>5
<1>11. Whole(LastEntry) /\ Whole(CampaignLog[Len(CampaignLog)])
  BY <1>0, <1>1, LastSeen DEF Log, InProgress
<1>12. \E x \in Seq(STRING \cup {"0", "1", "nl"}) :
         data_result_txt' = Append(data_result_txt,
           [kind |-> "result", j |-> n, v0 |-> v0, v1 |-> v1,
            input |-> x, config |-> line, parts |-> 1])
  BY <1>3, <1>4, <1>8
<1> QED
  BY <1>1, <1>2, <1>4, <1>5, <1>9, <1>10, <1>11, <1>12

(* The return of main is its End.                                          *)
LEMMA FinishEnds ==
  ASSUME IInv, Finish
  PROVE  /\ CampaignPhase = "running" /\ CampaignPhase' = "ended"
         /\ CampaignRow = m /\ m = num_test_comb
         /\ m > 0 => /\ CampaignCol = num_inputs_comb /\ Whole(LastEntry)
                     /\ Whole(CampaignLog[Len(CampaignLog)])
         /\ UNCHANGED <<CampaignLog, data_result_txt, SizeOf(answers), CampaignRow,
                        CampaignCol>>
<1>0. Control /\ Log
  BY DEF IInv
<1>1. m > 0 => Whole(LastEntry) /\ Whole(CampaignLog[Len(CampaignLog)])
  BY <1>0, LastSeen DEF Finish, Log, InProgress
<1> QED
  BY <1>0, <1>1, CampaignTypes DEF Finish, Returns, Control, campaignVars, testVars,
          CampaignPhase, CampaignRow, CampaignCol, InRow, InTest, CampaignLog, SizeOf

(* A stop is its GiveUp.                                                   *)
LEMMA KillGivesUp ==
  ASSUME IInv, Kill
  PROVE  /\ CampaignPhase # "idle" /\ CampaignPhase' = "idle"
         /\ CampaignRow' = 0 /\ CampaignCol' = 0
         /\ UNCHANGED <<CampaignLog, data_result_txt>>
         /\ SizeOf(answers)' = [tests |-> 0, inputs |-> 0]
BY DEF Kill, CampaignPhase, CampaignRow, CampaignCol, InRow, InTest, CampaignLog, SizeOf,
       NoAnswers

(* All other steps leave what Campaign sees.                               *)
LEMMA OthersStutter ==
  ASSUME IInv,
         \/ WriteText \/ WriteNewline \/ EndInFile \/ EndConfiguration
         \/ Case1 \/ Case2 \/ Case3 \/ Case4
         \/ UNCHANGED hostVars
  PROVE  UNCHANGED CampaignVars
<1>1. ASSUME UNCHANGED <<data_result_txt, answers>>, CampaignCol' = CampaignCol,
             CampaignPhase' = CampaignPhase, CampaignRow' = CampaignRow
      PROVE  UNCHANGED CampaignVars
  BY <1>1 DEF CampaignVars, CampaignLog, SizeOf
<1>2. CASE WriteText \/ WriteNewline
  BY <1>1, <1>2 DEF WriteText, WriteNewline, testVars, CampaignPhase, CampaignRow,
                    CampaignCol, InRow, InTest
<1>3. CASE EndInFile
  BY <1>1, <1>3 DEF IInv, EndInFile, Control, campaignVars, CampaignPhase, CampaignRow,
                    CampaignCol, InRow, InTest
<1>4. CASE EndConfiguration
  BY <1>1, <1>4 DEF EndConfiguration, NextConfiguration, campaignVars, CampaignPhase,
                    CampaignRow, CampaignCol, InRow, InTest
<1>5. CASE Case1 \/ Case2 \/ Case3 \/ Case4
  BY <1>1, <1>5 DEF Case1, Case2, Case3, Case4, Put, campaignVars, CampaignPhase,
                    CampaignRow, CampaignCol, InRow, InTest
<1>6. CASE UNCHANGED hostVars
  BY <1>1, <1>6 DEF hostVars, testVars, CampaignPhase, CampaignRow, CampaignCol, InRow,
                    InTest
<1> QED
  BY <1>2, <1>3, <1>4, <1>5, <1>6

-----------------------------------------------------------------------------
(* What the cases do to the word: Case1 sets every bit of it but the one   *)
(* for SCAN_ENABLE,                                                        *)
LEMMA FirstWord ==
  ASSUME Case1
  PROVE  \A b \in WordBit : gpio_0'[b] = IF b = 1 THEN ScanWhileClearing ELSE "1"
<1>1. gpio_0' = WordOf(InitialString)
  BY DEF Case1, Put
<1>2. ASSUME NEW b \in WordBit
      PROVE  InitialString[31 - b] = IF b = 1 THEN ScanWhileClearing ELSE "1"
  <2>1. 31 - b \in Cell /\ 31 - b >= 9 /\ 31 - b # 32
    BY DEF WordBit, Cell
  <2>2. InitialString[31 - b] =
          CASE 31 - b = 32 -> "nul" [] 31 - b = 31 -> "1"
            [] 31 - b = 30 -> ScanWhileClearing
            [] 31 - b < 9  -> "0" [] OTHER -> "1"
    BY <2>1 DEF InitialString, StringOf
  <2> QED
    BY <2>1, <2>2 DEF WordBit
<1> QED
  BY <1>1, <1>2, FirstString, WordBits

(* Case2 sets SCAN_ENABLE, clears SIPO_CLEAR and writes the configuration, *)
LEMMA ScanWord ==
  ASSUME IInv, Case2
  PROVE  /\ gpio_0'[1] = "1" /\ gpio_0'[22] = "0" /\ gpio_0'[0] = gpio_0[0]
         /\ \A i \in 0 .. 15 : gpio_0'[6 + i] = CharAt(TestConfig, 16 - i)
         /\ Shortened(TestConfig, 16) \in Configs
<1>1. Control /\ Files /\ Words /\ InTest
  BY DEF IInv, Case2, Put, InTest
<1>2. ConfigThere
  BY <1>1, ConfigIsThere DEF Control, InRow
<1>3. PICK s, line, t : s = main_string /\ line = TestConfig /\ t = ScanString(s, line)
  OBVIOUS
<1>4. /\ Full(t) /\ t[9] = "0" /\ t[30] = "1" /\ t[31] = s[31]
      /\ \A k \in 1 .. 16 : t[9 + k] = CharAt(line, k)
  <2>1. Full(s) /\ Digits(line, 16)
    BY <1>1, <1>2, <1>3 DEF Words, ConfigThere
  <2> QED
    BY <1>3, <2>1, ScanCells
<1>5. gpio_0' = WordOf(t) /\ gpio_0 = WordOf(s) /\ Full(s)
  BY <1>1, <1>3 DEF Case2, Put, Words
<1>6. \A b \in WordBit : gpio_0'[b] = t[31 - b] /\ gpio_0[b] = s[31 - b]
  BY <1>4, <1>5, WordBits
<1>7. gpio_0'[1] = t[30] /\ gpio_0'[22] = t[9] /\ gpio_0'[0] = t[31] /\ gpio_0[0] = s[31]
  <2>1. 0 \in WordBit /\ 1 \in WordBit /\ 22 \in WordBit
    BY DEF WordBit
  <2> QED
    BY <1>6, <2>1
<1>8. ASSUME NEW i \in 0 .. 15
      PROVE  gpio_0'[6 + i] = CharAt(TestConfig, 16 - i)
  <2>1. 6 + i \in WordBit /\ 31 - (6 + i) = 9 + (16 - i) /\ 16 - i \in 1 .. 16
    BY DEF WordBit
  <2> QED
    BY <1>3, <1>4, <1>6, <2>1
<1> QED
  BY <1>2, <1>4, <1>7, <1>8 DEF ConfigThere

(* Case3 clears SCAN_ENABLE and nothing else,                              *)
LEMMA HeldWord ==
  ASSUME IInv, Case3
  PROVE  \A b \in WordBit : gpio_0'[b] = IF b = 1 THEN "0" ELSE gpio_0[b]
<1>1. PICK s, t : s = main_string /\ t = FromEnd(s, 2, "0")
  OBVIOUS
<1>2. gpio_0' = WordOf(t) /\ gpio_0 = WordOf(s) /\ Full(s)
  BY <1>1 DEF IInv, Words, InTest, Case3, Put
<1>3. /\ Full(t)
      /\ \A p \in 0 .. 31 : t[p] = IF p = 30 THEN "0" ELSE s[p]
  BY <1>1, <1>2, ScanEnableCell
<1>4. \A b \in WordBit : gpio_0'[b] = t[31 - b] /\ gpio_0[b] = s[31 - b]
  BY <1>2, <1>3, WordBits
<1>5. \A b \in WordBit : 31 - b \in 0 .. 31 /\ (31 - b = 30 <=> b = 1)
  BY DEF WordBit
<1> QED
  BY <1>3, <1>4, <1>5

(* Case4 leaves the bits of the scan path alone.                       *)
LEMMA DrivenWord ==
  ASSUME IInv, Case4
  PROVE  \A b \in {1} \cup 6 .. 22 : gpio_0'[b] = gpio_0[b]
<1>1. Control /\ Files /\ Words /\ InTest
  BY DEF IInv, Case4, Put, InTest
<1>2. InputThere
  BY <1>1, InputIsThere DEF Control, InRow
<1>3. PICK s, line, t : s = main_string /\ line = InputLine /\ t = DriveString(s, line)
  OBVIOUS
<1>4. Full(t) /\ t[30] = s[30] /\ \A p \in 0 .. 25 : t[p] = s[p]
  <2>1. Full(s) /\ Digits(line, 4)
    BY <1>1, <1>2, <1>3 DEF Words, InputThere
  <2> QED
    BY <1>3, <2>1, DriveCells
<1>5. gpio_0' = WordOf(t) /\ gpio_0 = WordOf(s) /\ Full(s)
  BY <1>1, <1>3 DEF Case4, Put, Words
<1>6. \A b \in WordBit : gpio_0'[b] = t[31 - b] /\ gpio_0[b] = s[31 - b]
  BY <1>4, <1>5, WordBits
<1>7. ASSUME NEW b \in {1} \cup 6 .. 22
      PROVE  b \in WordBit /\ (31 - b = 30 \/ 31 - b \in 0 .. 25)
  BY DEF WordBit
<1> QED
  BY <1>4, <1>6, <1>7
==============================================================================
