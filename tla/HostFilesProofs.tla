--------------------------- MODULE HostFilesProofs ---------------------------
(***************************************************************************)
(* Theorems about HostFiles, for every set of answers that fit the fabric, *)
(* every number rand() may return, every content of the memory behind the  *)
(* stimulus, both first words, up to seven starts, stops between any two   *)
(* appends, and any levels the fabric answers.                             *)
(***************************************************************************)
EXTENDS HostFiles, HostViewProofs

(* Each step is one of the program.                                        *)
LEMMA StepOfHost ==
  ASSUME [Next]_hostVars
  PROVE  [HostStep]_hostVars
BY DEF Next, Test, HostStep

(* The inductive invariant holds in every reachable state.                 *)
THEOREM Invariance == AnswersFit => (Spec => []IInv)
<1> SUFFICES ASSUME AnswersFit PROVE Spec => []IInv
  OBVIOUS
<1>1. Init => IInv
  BY IInvInit DEF Init
<1>2. IInv /\ [Next]_hostVars => IInv'
  BY StepOfHost, IInvStep
<1> QED
  BY <1>1, <1>2, PTL DEF Spec

-----------------------------------------------------------------------------
(* What follows for the files and the words, for all answers that fit.     *)

(* Every variable holds a value of its kind (main.c:226-507).              *)
THEOREM TypeCorrect ==
  ASSUME AnswersFit
  PROVE  Spec => []TypeOK
<1>1. ASSUME IInv
      PROVE  TypeOK
  <2>1. value_input_files \in [Cell -> {"0", "1", "nul"}]
    BY <1>1 DEF IInv, Buffer, Holds
  <2>2. main_string \in [Cell -> {"0", "1", "nl", "nul"}]
    <3>1. main_string \in [Cell -> {"0", "1", "nul"}]
      BY <1>1 DEF IInv, Words, Full, Holds
    <3> QED
      BY <3>1
  <2>3. gpio_0 \in [WordBit -> {"0", "1"}]
    BY <1>1 DEF IInv, Words
  <2> QED
    BY <1>1, <2>1, <2>2, <2>3, AnswerTypes DEF IInv, Control, TypeOK
<1> QED
  BY <1>1, Invariance, PTL

(* The loops ask for no line the files do not have, whatever earlier runs  *)
(* left in them (main.c:118-151, 286, 295).                                *)
THEOREM LinesAreThere ==
  ASSUME AnswersFit
  PROVE  Spec => []NoReadPastEnd
<1>1. ASSUME IInv
      PROVE  NoReadPastEnd
  <2>1. pc = "inner" \/ InTest => m < Len(test_config_txt)
    BY <1>1, ConfigIsThere DEF IInv, Control, ConfigThere, InRow
  <2>2. InTest => j < Len(dut_inputs_txt)
    BY <1>1, InputIsThere DEF IInv, Control, InputThere, InRow
  <2> QED
    BY <2>1, <2>2 DEF NoReadPastEnd
<1> QED
  BY <1>1, Invariance, PTL

(* Every run tests the golden reference first, also behind the files of    *)
(* stopped runs (main.c:242-249).                                          *)
THEOREM GoldenIsFirst ==
  ASSUME AnswersFit
  PROVE  Spec => []GoldenFirst
<1>1. ASSUME IInv, m = 0, pc \in {"case3", "case4", "case5"}, NEW i \in 0 .. 15
      PROVE  ConfigBits[i] = "1"
  <2>1. ConfigBits[i] = CharAt(TestConfig, 16 - i)
    BY <1>1, WordInTest DEF ConfigBits
  <2>2. TestConfig = test_config_txt[1] /\ test_config_txt # <<>>
    <3>1. ConfigThere
      BY <1>1, ConfigIsThere DEF IInv, Control, InRow, InTest
    <3> QED
      BY <1>1, <3>1 DEF ConfigThere
  <2>3. Shortened(TestConfig, 16) = Ones
    BY <1>1, <2>2 DEF IInv, Files, ConfigLength
  <2>4. 16 - i \in 1 .. 16
    OBVIOUS
  <2> QED
    BY <2>1, <2>3, <2>4 DEF Shortened, Ones, ConfigLength
<1>2. IInv => GoldenFirst
  BY <1>1 DEF GoldenFirst
<1> QED
  BY <1>2, Invariance, PTL

(* When the outputs are read the word holds what the result line names     *)
(* (main.c:322-447).                                                       *)
THEOREM WordIsNamed ==
  ASSUME AnswersFit
  PROVE  Spec => []WordAsNamed
<1>1. ASSUME IInv, pc = "case5"
      PROVE  /\ \A i \in 0 .. 15 : ConfigBits[i] = CharAt(TestConfig, 16 - i)
             /\ \A s \in 0 .. 3 : StimulusBits[s] = input_data[4 - s]
             /\ gpio_0[0] = "0" /\ gpio_0[1] = "0" /\ gpio_0[22] = "0"
  <2>1. \A i \in 0 .. 15 : ConfigBits[i] = CharAt(TestConfig, 16 - i)
    BY <1>1, WordInTest DEF ConfigBits
  <2>2. \A s \in 0 .. 3 : StimulusBits[s] = input_data[4 - s]
    BY <1>1, WordAtReading DEF StimulusBits
  <2> QED
    BY <1>1, <2>1, <2>2, WordAtReading
<1>2. IInv => WordAsNamed
  BY <1>1 DEF WordAsNamed
<1> QED
  BY <1>2, Invariance, PTL

-----------------------------------------------------------------------------
(* Where the control string ends, for answers with any number of injection *)
(* points, also fewer than the fabric has: an invariant of its own, since  *)
(* configuration lines may then be of any length.                          *)
Lines ==
  /\ test_config_txt \in Seq(Seq(Char))
  /\ FileOf(dut_inputs_txt, InputLength, Stimuli)
  /\ Complete(dut_inputs_txt) >= InputLines(written)
  /\ pc = "newline" /\ IsStimulus(written) => Unfinished(dut_inputs_txt)
  /\ written > 0 => test_config_txt # <<>>

Ends(s, n) ==
  /\ s \in [Cell -> {"0", "1", "nl", "nul"}]
  /\ s[n] = "nul" /\ \A q \in 0 .. n - 1 : s[q] # "nul"

LineEnd == IF Len(TestConfig) >= ConfigLength THEN 32 ELSE 10 + Len(TestConfig)

Strings ==
  /\ pc = "case2" => Ends(main_string, 32)
  /\ pc \in {"case3", "case4", "case5"} => Ends(main_string, LineEnd)

StringInv == Control /\ Buffer /\ Lines /\ Strings

(* An append leaves a file of lines.                                       *)
LEMMA AppendedText ==
  ASSUME NEW file \in Seq(Seq(Char)), NEW text \in Seq(Char)
  PROVE  /\ Appended(file, text) \in Seq(Seq(Char))
         /\ file # <<>> \/ text # <<>> => Appended(file, text) # <<>>
<1>1. CASE Unfinished(file)
  <2>0. file # <<>>
    BY <1>1 DEF Unfinished
  <2>1. PICK last : last = Len(file) /\ last \in 1 .. Len(file)
    <3>1. Len(file) \in Nat /\ Len(file) # 0
      BY <2>0
    <3> QED
      BY <3>1
  <2>2. PICK line : line = file[last] \o text
    OBVIOUS
  <2>3. file[last] \in Seq(Char)
    BY <2>1
  <2>4. line \in Seq(Char) /\ (text = <<>> => line = file[last])
    BY <2>2, <2>3
  <2>5. PICK new : new = [file EXCEPT ![last] = line]
    OBVIOUS
  <2>6. new \in Seq(Seq(Char)) /\ Len(new) = Len(file) /\ (text = <<>> => new = file)
    BY <2>1, <2>4, <2>5
  <2>7. Appended(file, text) = new
    BY <1>1, <2>1, <2>2, <2>5, <2>6 DEF Appended
  <2> QED
    BY <2>1, <2>6, <2>7
<1>2. CASE ~Unfinished(file)
  <2>1. CASE text = <<>>
    BY <1>2, <2>1 DEF Appended
  <2>2. CASE text # <<>>
    <3>1. Appended(file, text) = Append(file, text)
      BY <1>2, <2>2 DEF Appended
    <3> QED
      BY <3>1
  <2> QED
    BY <2>1, <2>2
<1> QED
  BY <1>1, <1>2

(* The lines that in_file writes are lines.                                *)
LEMMA LinesWritten ==
  ASSUME Control, Buffer, Lines, WriteText \/ WriteNewline
  PROVE  Buffer' /\ Lines'
<1>0. written \in Nat /\ num_inputs_comb \in Nat /\ answers' = answers
  BY AnswerTypes DEF Control, WriteText, WriteNewline
<1>1. /\ \A n : InputLines(n)' = InputLines(n)
      /\ \A n : IsStimulus(n)' <=> IsStimulus(n)
  BY <1>0, AnswersKept DEF IsStimulus, num_inputs_comb
<1>2. CASE WriteText
  <2>0. pc = "in_file" /\ pc' = "newline" /\ written' = written
    BY <1>2 DEF WriteText
  <2>1. PICK text \in Seq({"0", "1"}) :
          /\ WriteTo(written, text) /\ Buffer'
          /\ IsStimulus(written) =>
               Len(text) >= 4 /\ Shortened(text, 4) \in Stimuli
    BY <1>2, <2>0, WrittenText
  <2>2. CASE IsStimulus(written)
    <3>1. /\ dut_inputs_txt' = Appended(dut_inputs_txt, text)
          /\ test_config_txt' = test_config_txt
      BY <2>1, <2>2 DEF WriteTo
    <3>2. PICK file, new : file = dut_inputs_txt /\ new = Appended(file, text)
      OBVIOUS
    <3>3. FileOf(file, 4, Stimuli) /\ Len(text) >= 4 /\ Shortened(text, 4) \in Stimuli
      BY <2>1, <2>2, <3>2 DEF Lines, InputLength
    <3>4. FileOf(new, 4, Stimuli) /\ Unfinished(new) /\ Complete(new) = Complete(file)
      <4>1. 4 \in Nat \ {0}
        OBVIOUS
      <4> QED
        BY <3>2, <3>3, <4>1, TextWritten, SMTT(30)
    <3> QED
      BY <1>1, <2>0, <2>1, <3>1, <3>2, <3>4 DEF Lines, InputLength
  <2>3. CASE ~IsStimulus(written)
    <3>1. /\ test_config_txt' = Appended(test_config_txt, text)
          /\ dut_inputs_txt' = dut_inputs_txt
      BY <2>1, <2>3 DEF WriteTo
    <3>2. text \in Seq(Char)
      BY DEF Char
    <3>3. PICK file, new : file = test_config_txt /\ new = Appended(file, text)
      OBVIOUS
    <3>4. new \in Seq(Seq(Char)) /\ (file # <<>> => new # <<>>)
      BY <3>2, <3>3, AppendedText DEF Lines
    <3> QED
      BY <1>1, <2>0, <2>1, <2>3, <3>1, <3>3, <3>4 DEF Lines
  <2> QED
    BY <2>2, <2>3
<1>3. CASE WriteNewline
  <2>0. /\ pc = "newline" /\ pc' = "in_file" /\ written' = written + 1
        /\ WriteTo(written, Newline) /\ Buffer'
    BY <1>3 DEF WriteNewline, Buffer
  <2>1. CASE IsStimulus(written)
    <3>1. /\ dut_inputs_txt' = Appended(dut_inputs_txt, Newline)
          /\ test_config_txt' = test_config_txt
      BY <2>0, <2>1 DEF WriteTo
    <3>2. PICK file, new : file = dut_inputs_txt /\ new = Appended(file, Newline)
      OBVIOUS
    <3>3. FileOf(file, 4, Stimuli) /\ Unfinished(file)
      BY <2>0, <2>1, <3>2 DEF Lines, InputLength
    <3>4. FileOf(new, 4, Stimuli) /\ Complete(new) = Complete(file) + 1
      BY <3>2, <3>3, NewlineWritten
    <3>5. InputLines(written + 1) = InputLines(written) + 1 /\ InputLines(written) \in Nat
      BY <1>0, <2>1 DEF InputLines, IsStimulus
    <3>6. Complete(file) \in Int /\ written > 0
      BY <2>1, <3>3 DEF Complete, FileOf, IsStimulus
    <3>7. Complete(new) >= InputLines(written + 1)
      BY <3>2, <3>4, <3>5, <3>6 DEF Lines
    <3> QED
      BY <1>1, <2>0, <3>1, <3>2, <3>4, <3>6, <3>7 DEF Lines, InputLength
  <2>2. CASE ~IsStimulus(written)
    <3>1. /\ test_config_txt' = Appended(test_config_txt, Newline)
          /\ dut_inputs_txt' = dut_inputs_txt
      BY <2>0, <2>2 DEF WriteTo
    <3>2. Newline \in Seq(Char) /\ Newline # <<>>
      BY DEF Char, Newline
    <3>3. PICK file, new : file = test_config_txt /\ new = Appended(file, Newline)
      OBVIOUS
    <3>4. new \in Seq(Seq(Char)) /\ new # <<>>
      BY <3>2, <3>3, AppendedText DEF Lines
    <3>5. InputLines(written + 1) = InputLines(written)
      BY <1>0, <2>2 DEF InputLines, IsStimulus
    <3> QED
      BY <1>1, <2>0, <3>1, <3>3, <3>4, <3>5 DEF Lines
  <2> QED
    BY <2>1, <2>2
<1> QED
  BY <1>2, <1>3

(* The other steps leave the lines alone.                                  *)
LEMMA LinesStep ==
  ASSUME Control, Buffer, Lines, [HostStep]_hostVars
  PROVE  Buffer' /\ Lines'
<1>1. ASSUME UNCHANGED <<value_input_files, test_config_txt, dut_inputs_txt, answers,
                         written>>,
             pc' # "newline" \/ pc' = pc
      PROVE  Buffer' /\ Lines'
  BY <1>1, AnswersKept DEF Buffer, Lines, IsStimulus, num_inputs_comb
<1>2. ASSUME UNCHANGED <<test_config_txt, dut_inputs_txt>>, written' = 0,
             pc' # "newline", value_input_files' \in {value_input_files, EmptyBuffer}
      PROVE  Buffer' /\ Lines'
  <2>1. Buffer'
    <3>1. Holds(EmptyBuffer, 0)
      BY DEF Holds, EmptyBuffer, Cell
    <3> QED
      BY <1>2, <3>1 DEF Buffer
  <2>2. InputLines(written)' = 0
    BY <1>2 DEF InputLines
  <2>3. Complete(dut_inputs_txt) \in Nat
    BY DEF Lines, FileOf, Complete, Unfinished
  <2> QED
    BY <1>2, <2>1, <2>2, <2>3 DEF Lines
<1>3. CASE Start
  BY <1>2, <1>3 DEF Start, Control, fileVars
<1>4. CASE WriteText \/ WriteNewline
  BY <1>4, LinesWritten
<1>5. CASE \/ EndInFile \/ BeginConfiguration \/ WriteHeader \/ EndConfiguration
           \/ Finish \/ WriteResult
  BY <1>1, <1>5 DEF EndInFile, BeginConfiguration, WriteHeader, EndConfiguration, Finish,
                    WriteResult, campaignVars, fileVars
<1>6. CASE Case1 \/ Case2 \/ Case3 \/ Case4
  BY <1>1, <1>6 DEF Case1, Case2, Case3, Case4, Put, campaignVars, fileVars
<1>7. ASSUME NEW word, Case5(word)
      PROVE  Buffer' /\ Lines'
  BY <1>1, <1>7 DEF Case5, campaignVars, fileVars
<1>8. CASE Kill
  BY <1>2, <1>8 DEF Kill, fileVars
<1>9. CASE UNCHANGED hostVars
  BY <1>1, <1>9 DEF hostVars, fileVars
<1> QED
  BY <1>3, <1>4, <1>5, <1>6, <1>7, <1>8, <1>9 DEF HostStep

(* In a test there is a configuration of characters, and a whole stimulus. *)
LEMMA LinesInTest ==
  ASSUME Control, Lines, InTest
  PROVE  /\ TestConfig \in Seq(Char) /\ LineEnd \in 10 .. 25 \cup {32}
         /\ Digits(InputLine, 4)
<1>1. /\ num_inputs_comb \in Nat /\ num_test_comb \in Nat /\ j \in Nat /\ m \in Nat
      /\ written = 1 + num_inputs_comb + num_test_comb /\ j < num_inputs_comb
      /\ num_test_comb > 0
  BY AnswerTypes DEF Control, LineCount, InRow
<1>2. TestConfig \in Seq(Char)
  <2>1. test_config_txt \in Seq(Seq(Char)) /\ test_config_txt # <<>>
    BY <1>1 DEF Lines
  <2> QED
    BY <1>1, <2>1 DEF TestConfig, LineRead
<1>3. LineEnd \in 10 .. 25 \cup {32}
  BY <1>2 DEF LineEnd, ConfigLength
<1>4. j < InputLines(written)
  BY <1>1 DEF InputLines
<1>5. FileOf(dut_inputs_txt, 4, Stimuli) /\ j < Complete(dut_inputs_txt)
  <2>1. Complete(dut_inputs_txt) \in Int /\ InputLines(written) \in Int
    BY <1>1 DEF Lines, FileOf, Complete, InputLines
  <2> QED
    BY <1>1, <1>4, <2>1 DEF Lines, InputLength
<1>6. Shortened(InputLine, 4) \in Stimuli
  BY <1>1, <1>5, LineThere DEF InputLine
<1>7. Digits(InputLine, 4)
  BY <1>6, TextDigits DEF Stimuli, InputLength
<1> QED
  BY <1>2, <1>3, <1>7

(* strlen finds the end.                                                   *)
LEMMA EndIsLength ==
  ASSUME NEW s, NEW n \in 0 .. 32, Ends(s, n)
  PROVE  StrLen(s) = n
<1>1. n \in Cell /\ s[n] = "nul" /\ \A q \in 0 .. n - 1 : s[q] # "nul"
  BY DEF Ends, Cell
<1> QED
  BY <1>1, StrLenIs

(* A character written before its end leaves a string where it ends.       *)
LEMMA EndKept ==
  ASSUME NEW s, NEW n \in 10 .. 32, Ends(s, n), NEW k \in 1 .. n, NEW c \in {"0", "1"}
  PROVE  Ends(FromEnd(s, k, c), n)
<1>1. StrLen(s) = n
  BY EndIsLength
<1>2. PICK x : x = n - k /\ x \in 0 .. n - 1 /\ x \in Cell
  BY DEF Cell
<1>3. PICK t : t = FromEnd(s, k, c) /\ t = [s EXCEPT ![x] = c]
  BY <1>1, <1>2 DEF FromEnd
<1>4. /\ t \in [Cell -> {"0", "1", "nl", "nul"}]
      /\ \A q \in Cell : t[q] = IF q = x THEN c ELSE s[q]
  BY <1>2, <1>3 DEF Ends
<1>5. t[n] = "nul" /\ \A q \in 0 .. n - 1 : t[q] # "nul"
  BY <1>2, <1>4 DEF Ends, Cell
<1> QED
  BY <1>3, <1>4, <1>5 DEF Ends

(* The configuration ends the string where it ends itself.                 *)
LEMMA ScanStringEnds ==
  ASSUME NEW s, Ends(s, 32), NEW line \in Seq(Char), NEW n,
         n = IF Len(line) >= 16 THEN 32 ELSE 10 + Len(line)
  PROVE  Ends(ScanString(s, line), n)
<1>1. PICK a, b : a = FromEnd(s, 23, "0") /\ b = FromEnd(a, 2, "1")
  OBVIOUS
<1>2. Ends(a, 32)
  BY <1>1, EndKept
<1>3. Ends(b, 32)
  BY <1>1, <1>2, EndKept
<1>4. PICK t : t = ScanString(s, line)
  OBVIOUS
<1>5. /\ t \in [Cell -> {"0", "1", "nl", "nul"}]
      /\ \A p \in Cell : t[p] = IF p \in 10 .. 25 THEN CharAt(line, p - 9) ELSE b[p]
  <2>1. t = [p \in Cell |-> IF p \in 10 .. 25 THEN CharAt(line, p - 10 + 1) ELSE b[p]]
    BY <1>1, <1>4 DEF ScanString, Copied
  <2>2. \A i : CharAt(line, i) \in {"0", "1", "nl", "nul"}
    BY DEF CharAt, Char
  <2>3. \A p \in Cell : b[p] \in {"0", "1", "nl", "nul"}
    BY <1>3 DEF Ends
  <2>4. \A p \in Cell : p - 10 + 1 = p - 9
    BY DEF Cell
  <2> QED
    BY <2>1, <2>2, <2>3, <2>4
<1>6. b[32] = "nul" /\ \A q \in 0 .. 31 : b[q] # "nul"
  BY <1>3 DEF Ends
<1>7. \A i \in 1 .. Len(line) : CharAt(line, i) # "nul"
  BY DEF CharAt, Char
<1>8. /\ n \in 10 .. 25 \/ n = 32
      /\ \A q \in 0 .. n - 1 : q \in 10 .. 25 => q - 9 \in 1 .. Len(line)
      /\ n # 32 => n - 9 = Len(line) + 1
  <2>1. Len(line) \in Nat
    OBVIOUS
  <2> QED
    BY <2>1
<1>9. ASSUME NEW q \in 0 .. n - 1
      PROVE  t[q] # "nul"
  <2>0. q \in 0 .. 31 /\ q \in Cell
    BY <1>8 DEF Cell
  <2>1. CASE q \in 10 .. 25
    <3>1. t[q] = CharAt(line, q - 9)
      BY <1>5, <2>0, <2>1
    <3>2. q - 9 \in 1 .. Len(line)
      BY <1>8, <2>1
    <3> QED
      BY <1>7, <3>1, <3>2
  <2>2. CASE q \notin 10 .. 25
    <3>1. t[q] = b[q]
      BY <1>5, <2>0, <2>2
    <3> QED
      BY <1>6, <2>0, <3>1
  <2> QED
    BY <2>1, <2>2
<1>10. t[n] = "nul"
  <2>1. CASE n = 32
    <3>1. 32 \in Cell /\ 32 \notin 10 .. 25
      BY DEF Cell
    <3> QED
      BY <1>5, <1>6, <2>1, <3>1
  <2>2. CASE n # 32
    <3>1. n \in 10 .. 25 /\ n \in Cell
      BY <1>8, <2>2 DEF Cell
    <3>2. n - 9 \notin DOMAIN line
      BY <1>8, <2>2
    <3> QED
      BY <1>5, <3>1, <3>2 DEF CharAt
  <2> QED
    BY <2>1, <2>2
<1> QED
  BY <1>4, <1>5, <1>9, <1>10 DEF Ends

(* The stimulus lies behind the end of a short string, and in a full one.  *)
LEMMA DriveStringEnds ==
  ASSUME NEW s, NEW n \in 10 .. 25 \cup {32}, Ends(s, n), NEW line, Digits(line, 4)
  PROVE  Ends(DriveString(s, line), n)
<1>1. PICK a, t : a = FromEnd(s, 1, "0") /\ t = Copied(a, 26, 29, line)
  OBVIOUS
<1>2. Ends(a, n)
  BY <1>1, EndKept
<1>3. /\ t = DriveString(s, line) /\ DOMAIN t = Cell /\ t = [p \in Cell |-> t[p]]
      /\ \A p \in Cell : t[p] = IF p \in 26 .. 29 THEN CharAt(line, p - 26 + 1) ELSE a[p]
  BY <1>1 DEF Copied, DriveString
<1>4. \A p \in 26 .. 29 : CharAt(line, p - 26 + 1) \in {"0", "1"}
  BY DEF Digits
<1>5. \A p \in Cell : t[p] \in {"0", "1", "nl", "nul"}
  BY <1>2, <1>3, <1>4 DEF Ends
<1>6. \A q \in 0 .. n - 1 : t[q] # "nul"
  BY <1>2, <1>3, <1>4 DEF Ends, Cell
<1>7. t[n] = "nul"
  BY <1>2, <1>3 DEF Ends, Cell
<1> QED
  BY <1>3, <1>5, <1>6, <1>7 DEF Ends

(* The cases of a test keep what is said of the end of the string.         *)
LEMMA StringsStep ==
  ASSUME Control, Lines, Strings, [HostStep]_hostVars
  PROVE  Strings'
<1>1. CASE Case1
  <2>1. main_string' = InitialString /\ pc' = "case2"
    BY <1>1 DEF Case1, Put
  <2>2. Ends(InitialString, 32)
    BY FirstString DEF Full, Holds, Ends
  <2> QED
    BY <2>1, <2>2 DEF Strings
<1>2. CASE Case2
  <2>1. /\ main_string' = ScanString(main_string, TestConfig) /\ LineEnd' = LineEnd
        /\ pc = "case2" /\ pc' = "case3" /\ InTest
    BY <1>2 DEF Case2, Put, campaignVars, fileVars, LineEnd, TestConfig, InTest
  <2>2. PICK s, line, n : s = main_string /\ line = TestConfig /\ n = LineEnd
    OBVIOUS
  <2>3. Ends(s, 32) /\ line \in Seq(Char)
    BY <2>1, <2>2, LinesInTest DEF Strings
  <2>4. n = IF Len(line) >= 16 THEN 32 ELSE 10 + Len(line)
    BY <2>2 DEF LineEnd, ConfigLength
  <2>5. Ends(ScanString(s, line), n)
    BY <2>3, <2>4, ScanStringEnds
  <2> QED
    BY <2>1, <2>2, <2>5 DEF Strings
<1>3. CASE Case3
  <2>1. /\ main_string' = FromEnd(main_string, 2, "0") /\ LineEnd' = LineEnd
        /\ pc = "case3" /\ pc' = "case4" /\ InTest
    BY <1>3 DEF Case3, Put, campaignVars, fileVars, LineEnd, TestConfig, InTest
  <2>2. PICK s, n : s = main_string /\ n = LineEnd
    OBVIOUS
  <2>3. Ends(s, n) /\ n \in 10 .. 32 /\ 2 \in 1 .. n
    BY <2>1, <2>2, LinesInTest DEF Strings
  <2>4. Ends(FromEnd(s, 2, "0"), n)
    BY <2>3, EndKept
  <2> QED
    BY <2>1, <2>2, <2>4 DEF Strings
<1>4. CASE Case4
  <2>1. /\ main_string' = DriveString(main_string, InputLine) /\ LineEnd' = LineEnd
        /\ pc = "case4" /\ pc' = "case5" /\ InTest
    BY <1>4 DEF Case4, Put, campaignVars, fileVars, LineEnd, TestConfig, InTest
  <2>2. PICK s, n, line : s = main_string /\ n = LineEnd /\ line = InputLine
    OBVIOUS
  <2>3. Ends(DriveString(s, line), n)
    BY <2>1, <2>2, LinesInTest, DriveStringEnds DEF Strings
  <2> QED
    BY <2>1, <2>2, <2>3 DEF Strings
<1>5. ASSUME pc' \notin {"case2", "case3", "case4", "case5"}
      PROVE  Strings'
  BY <1>5 DEF Strings
<1>6. CASE \/ Start \/ WriteText \/ WriteNewline \/ EndInFile \/ BeginConfiguration
           \/ WriteHeader \/ EndConfiguration \/ Finish \/ WriteResult \/ Kill
  <2>1. pc' \in {"in_file", "newline", "outer", "header", "inner", "done", "result",
                 "start"}
    BY <1>6 DEF Start, WriteText, WriteNewline, EndInFile, BeginConfiguration,
                WriteHeader, EndConfiguration, Finish, WriteResult, Kill
  <2> QED
    BY <1>5, <2>1
<1>7. ASSUME NEW word, Case5(word)
      PROVE  Strings'
  BY <1>5, <1>7 DEF Case5
<1>8. CASE UNCHANGED hostVars
  BY <1>8 DEF hostVars, testVars, fileVars, Strings, LineEnd, TestConfig
<1> QED
  BY <1>1, <1>2, <1>3, <1>4, <1>6, <1>7, <1>8 DEF HostStep

(* For every number of injection points the user may answer: the control   *)
(* string is as long as the configuration line makes it, 32 characters or  *)
(* cut where the line ends, whatever earlier runs have put in front of the *)
(* line (main.c:323-388).                                                  *)
THEOREM StringEnds == Spec => []StringEndsWithLine
<1>1. Init => StringInv
  <2>1. ASSUME Init
        PROVE  Control /\ Buffer
    <3>1. HostInit
      BY <2>1 DEF Init
    <3>2. IInv
      BY <3>1, IInvInit
    <3> QED
      BY <3>2 DEF IInv
  <2>2. FileOf(<<>>, InputLength, Stimuli) /\ Complete(<<>>) = 0 /\ InputLines(0) = 0
    BY DEF FileOf, Complete, Unfinished, InputLines
  <2> QED
    BY <2>1, <2>2 DEF Init, HostInit, StringInv, Lines, Strings
<1>2. StringInv /\ [Next]_hostVars => StringInv'
  BY StepOfHost, ControlStep, LinesStep, StringsStep DEF StringInv
<1>3. ASSUME StringInv
      PROVE  StringEndsWithLine
  <2>1. pc = "case2" => StrLen(main_string) = 32
    <3>1. ASSUME pc = "case2"
          PROVE  StrLen(main_string) = 32
      <4>1. PICK s : s = main_string
        OBVIOUS
      <4>2. Ends(s, 32)
        BY <1>3, <3>1, <4>1 DEF StringInv, Strings
      <4> QED
        BY <4>1, <4>2, EndIsLength
    <3> QED
      BY <3>1
  <2>2. ASSUME pc \in {"case3", "case4", "case5"}
        PROVE  StrLen(main_string) = LineEnd
    <3>1. PICK s, n : s = main_string /\ n = LineEnd
      OBVIOUS
    <3>2. Ends(s, n) /\ n \in 10 .. 25 \cup {32}
      BY <1>3, <2>2, <3>1, LinesInTest DEF StringInv, Strings, InTest
    <3> QED
      BY <3>1, <3>2, EndIsLength
  <2> QED
    BY <2>1, <2>2 DEF StringEndsWithLine, LineEnd
<1> QED
  BY <1>1, <1>2, <1>3, PTL DEF Spec

-----------------------------------------------------------------------------
(* Each step of the program is a step of Campaign or leaves its state, in  *)
(* the texts as the fabric uses them and as they are printed.              *)
LEMMA CampaignStep ==
  ASSUME IInv, [Next]_hostVars
  PROVE  [Abstract!Next]_(Abstract!vars) /\ [Printed!Next]_(Printed!vars)
<1>0. \A line \in Seq(Char) : line \in Text
  BY DEF Char, Text
<1>1. CASE Start
  BY <1>1, StartBegins DEF Abstract!Begin, Abstract!Next, Printed!Begin, Printed!Next
<1>2. CASE BeginConfiguration
  <2>1. Abstract!Header
    BY <1>2, CampaignTypes, ConfigurationBegins
       DEF Abstract!Header, Abstract!MoreRows, Abstract!RowComplete, Abstract!LastWhole,
           Whole, Abstract!Whole, HeaderParts, Abstract!HeaderParts,
           ResultParts, Abstract!ResultParts
  <2>2. Printed!Header
    BY <1>0, <1>2, CampaignTypes, ConfigurationBegins
       DEF Printed!Header, Printed!MoreRows, Printed!RowComplete, Printed!LastWhole,
           LastEntry, Whole, Printed!Whole, HeaderParts, Printed!HeaderParts,
           ResultParts, Printed!ResultParts
  <2> QED
    BY <2>1, <2>2 DEF Abstract!Next, Printed!Next
<1>3. ASSUME NEW v0 \in Levels, NEW v1 \in Levels, Case5(ReadWord(v0, v1))
      PROVE  Abstract!Result /\ Printed!Result
  <2>1. PICK word : word = ReadWord(v0, v1)
    OBVIOUS
  <2>2. Decimal2Binary(word)[31] = v0 /\ Decimal2Binary(word)[30] = v1
    BY <2>1 DEF Decimal2Binary, ReadWord, ReadBit
  <2>3. /\ CampaignPhase = "running" /\ CampaignPhase' = "running"
        /\ CampaignRow = m + 1 /\ CampaignRow' = m + 1
        /\ CampaignCol = j /\ CampaignCol' = j + 1 /\ j < num_inputs_comb
        /\ SizeOf(answers)' = SizeOf(answers)
        /\ Shortened(InputLine, 4) \in Stimuli
        /\ Whole(LastEntry) /\ Whole(CampaignLog[Len(CampaignLog)])
        /\ data_result_txt[Len(data_result_txt) - j].config = TestConfig
        /\ CampaignLog[Len(CampaignLog) - j].config = Shortened(TestConfig, 16)
        /\ \E text \in Seq(STRING \cup {"0", "1", "nl"}) :
             data_result_txt' = Append(data_result_txt,
               [kind |-> "result", j |-> j, v0 |-> v0, v1 |-> v1,
                input |-> text, config |-> TestConfig, parts |-> 1])
        /\ CampaignLog' = Append(CampaignLog,
             [kind |-> "result", j |-> j, v0 |-> v0, v1 |-> v1,
              input |-> Shortened(InputLine, 4), config |-> Shortened(TestConfig, 16),
              parts |-> 1])
    BY <1>3, <2>1, <2>2, ReadingAppends
  <2>4. PICK v : v = <<v0, v1>>
    OBVIOUS
  <2>5. v \in Levels \X Levels /\ v[1] = v0 /\ v[2] = v1
    BY <2>4
  <2>6. CampaignRow > 0 /\ j < SizeOf(answers).inputs
    BY <2>3, CampaignTypes
  <2>7. Abstract!Result
    <3>1. \E s \in Stimuli : \E w \in Answered(Abstract!RowHeader.config, s) :
            CampaignLog' = Append(CampaignLog,
              [kind |-> "result", j |-> CampaignCol, v0 |-> w[1], v1 |-> w[2],
               input |-> s, config |-> Abstract!RowHeader.config, parts |-> 1])
      BY <2>3, <2>5 DEF Answered, Abstract!RowHeader
    <3>2. Abstract!LastWhole
      BY <2>3 DEF Abstract!LastWhole, Whole, Abstract!Whole, HeaderParts,
                  Abstract!HeaderParts, ResultParts, Abstract!ResultParts
    <3> QED
      BY <2>3, <2>6, <3>1, <3>2 DEF Abstract!Result
  <2>8. Printed!Result
    <3>1. \E s \in Text : \E w \in Answered(Printed!RowHeader.config, s) :
            data_result_txt' = Append(data_result_txt,
              [kind |-> "result", j |-> CampaignCol, v0 |-> w[1], v1 |-> w[2],
               input |-> s, config |-> Printed!RowHeader.config, parts |-> 1])
      BY <2>3, <2>5 DEF Answered, Printed!RowHeader, Text
    <3>2. Printed!LastWhole
      BY <2>3 DEF Printed!LastWhole, LastEntry, Whole, Printed!Whole, HeaderParts,
                  Printed!HeaderParts, ResultParts, Printed!ResultParts
    <3> QED
      BY <2>3, <2>6, <3>1, <3>2 DEF Printed!Result
  <2> QED
    BY <2>7, <2>8
<1>4. CASE WriteHeader \/ WriteResult
  <2>1. Abstract!Write
    BY <1>4, EntryWritten
       DEF Abstract!Write, Abstract!LastWhole, Whole, Abstract!Whole, HeaderParts,
           Abstract!HeaderParts, ResultParts, Abstract!ResultParts, Continued,
           Abstract!Continued, OneMore, Abstract!OneMore
  <2>2. Printed!Write
    BY <1>4, EntryWritten
       DEF Printed!Write, Printed!LastWhole, LastEntry, Whole, Printed!Whole, HeaderParts,
           Printed!HeaderParts, ResultParts, Printed!ResultParts, Continued,
           Printed!Continued, OneMore, Printed!OneMore
  <2> QED
    BY <2>1, <2>2 DEF Abstract!Next, Printed!Next
<1>5. CASE Finish
  <2>1. Abstract!End
    BY <1>5, CampaignTypes, FinishEnds
       DEF Abstract!End, Abstract!RowComplete, Abstract!LastWhole,
           Whole, Abstract!Whole, HeaderParts, Abstract!HeaderParts,
           ResultParts, Abstract!ResultParts
  <2>2. Printed!End
    BY <1>5, CampaignTypes, FinishEnds
       DEF Printed!End, Printed!RowComplete, Printed!LastWhole, LastEntry,
           Whole, Printed!Whole, HeaderParts, Printed!HeaderParts,
           ResultParts, Printed!ResultParts
  <2> QED
    BY <2>1, <2>2 DEF Abstract!Next, Printed!Next
<1>6. CASE Kill
  BY <1>6, KillGivesUp DEF Abstract!GiveUp, Abstract!NoSize, Abstract!Next,
                           Printed!GiveUp, Printed!NoSize, Printed!Next
<1>7. CASE \/ WriteText \/ WriteNewline \/ EndInFile \/ EndConfiguration
           \/ Case1 \/ Case2 \/ Case3 \/ Case4
           \/ UNCHANGED hostVars
  BY <1>7, OthersStutter DEF CampaignVars, Abstract!vars, Printed!vars
<1>8. CASE \E v0, v1 \in Levels : Case5(ReadWord(v0, v1))
  BY <1>3, <1>8 DEF Abstract!Next, Printed!Next
<1> QED
  BY <1>1, <1>2, <1>4, <1>5, <1>6, <1>7, <1>8 DEF Next, Test

(* Nothing is in the files at first, and no campaign begun.                *)
LEMMA CampaignInit ==
  ASSUME Init
  PROVE  Abstract!Init /\ Printed!Init
<1>1. CampaignLog = <<>> /\ data_result_txt = <<>>
  BY DEF Init, HostInit, CampaignLog
<1>2. SizeOf(answers) = [tests |-> 0, inputs |-> 0] /\ CampaignPhase = "idle"
      /\ CampaignRow = 0 /\ CampaignCol = 0
  BY DEF Init, HostInit, SizeOf, NoAnswers, CampaignPhase, CampaignRow, CampaignCol,
         InRow, InTest
<1> QED
  BY <1>1, <1>2 DEF Abstract!Init, Printed!Init, Abstract!NoSize, Printed!NoSize

(* However often the program is stopped and started, the result file grows *)
(* as Campaign says (main.c:286-507).                                      *)
THEOREM Refinement ==
  ASSUME AnswersFit
  PROVE  Spec => ImplementsCampaign
BY CampaignInit, CampaignStep, Invariance, PTL DEF Spec, ImplementsCampaign, Abstract!Spec

(* So it does in the texts as they are printed.                            *)
LEMMA PrintedCampaign ==
  ASSUME AnswersFit
  PROVE  Spec => Printed!Spec
BY CampaignInit, CampaignStep, Invariance, PTL DEF Spec, Printed!Spec

-----------------------------------------------------------------------------
(* What CampaignProofs shows of Campaign holds of the program.             *)
Promise == INSTANCE CampaignProofs WITH
  Sizes <- CampaignSizes, Configs <- Text, Stimuli <- Text,
  log   <- data_result_txt,
  phase <- CampaignPhase,
  size  <- SizeOf(answers),
  row   <- CampaignRow,
  col   <- CampaignCol

(* The sizes Campaign is instantiated with are numbers.                     *)
LEMMA SizesOfAnswers == Promise!SizesAreNumbers
<1>1. ASSUME NEW a \in Answers
      PROVE  SizeOf(a) \in [tests : Nat, inputs : Nat]
  BY AnswersAssumption DEF SizeOf
<1> QED
  BY <1>1 DEF Promise!SizesAreNumbers, CampaignSizes

(* Both instances of Campaign are the same specification.                  *)
LEMMA SameCampaign == Printed!Spec => Promise!Spec
<1>1. Printed!Init => Promise!Init
  BY DEF Printed!Init, Promise!Init, Printed!NoSize, Promise!NoSize
<1>2. [Printed!Next]_(Printed!vars) => [Promise!Next]_(Promise!vars)
  BY DEF Printed!vars, Promise!vars, Printed!Next, Promise!Next,
         Printed!Begin, Promise!Begin, Printed!Header, Promise!Header,
         Printed!Result, Promise!Result, Printed!Write, Promise!Write,
         Printed!End, Promise!End, Printed!GiveUp, Promise!GiveUp,
         Printed!NoSize, Promise!NoSize, Printed!MoreRows, Promise!MoreRows,
         Printed!RowComplete, Promise!RowComplete, Printed!RowHeader, Promise!RowHeader,
         Printed!LastWhole, Promise!LastWhole, Printed!Whole, Promise!Whole,
         Printed!HeaderParts, Promise!HeaderParts, Printed!ResultParts, Promise!ResultParts,
         Printed!Continued, Promise!Continued, Printed!OneMore, Promise!OneMore
<1> QED
  BY <1>1, <1>2, PTL DEF Printed!Spec, Promise!Spec

(* Each result stands under the header of its configuration, in the file   *)
(* that up to seven runs have written to, each stopped between whichever   *)
(* two appends (main.c:288-293, 432-445).                                  *)
THEOREM EachUnderHeader ==
  ASSUME AnswersFit
  PROVE  Spec => []EachUnderItsHeader
<1>1. Promise!Spec => []Promise!EachUnderItsHeader
  BY SizesOfAnswers, Promise!ResultsUnderHeaders
<1>2. Promise!EachUnderItsHeader => EachUnderItsHeader
  BY DEF Promise!EachUnderItsHeader, EachUnderItsHeader, Printed!EachUnderItsHeader
<1> QED
  BY <1>1, <1>2, SameCampaign, PrintedCampaign, PTL

(* A run that returns has appended its whole matrix, with no entry cut     *)
(* (main.c:286-507).                                                       *)
THEOREM MatrixComplete ==
  ASSUME AnswersFit
  PROVE  Spec => []MatrixWhenEnded
<1>1. Promise!Spec => []Promise!MatrixWhenEnded
  BY SizesOfAnswers, Promise!CompleteMatrix
<1>2. Promise!MatrixWhenEnded => MatrixWhenEnded
  BY DEF Promise!MatrixWhenEnded, MatrixWhenEnded, Printed!MatrixWhenEnded,
         Promise!Whole, Printed!Whole, Promise!HeaderParts, Printed!HeaderParts,
         Promise!ResultParts, Printed!ResultParts
<1> QED
  BY <1>1, <1>2, SameCampaign, PrintedCampaign, PTL

(* A run that has found no result file leaves one of the form that DMetric *)
(* assumes of what it reads, whichever append it was stopped behind        *)
(* (main.c:286-507, d_metric.py:22-48).                                    *)
THEOREM FileForEvaluation ==
  ASSUME AnswersFit
  PROVE  Spec => []FileOfOneCampaign
<1>1. Promise!Spec => []Promise!FileOfOneCampaign
  BY SizesOfAnswers, Promise!FileForEvaluation
<1>2. Promise!FileOfOneCampaign => FileOfOneCampaign
  BY DEF Promise!FileOfOneCampaign, FileOfOneCampaign, Printed!FileOfOneCampaign,
         Promise!CampaignFile, Printed!CampaignFile, Promise!HeadersOf, Printed!HeadersOf,
         Promise!HeaderFollows, Printed!HeaderFollows,
         Promise!ResultFollows, Printed!ResultFollows,
         Promise!Whole, Printed!Whole, Promise!HeaderParts, Printed!HeaderParts,
         Promise!ResultParts, Printed!ResultParts
<1> QED
  BY <1>1, <1>2, SameCampaign, PrintedCampaign, PTL
==============================================================================
