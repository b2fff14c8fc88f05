------------------------------- MODULE DMetric -------------------------------
(***************************************************************************)
(* Python Script/d_metric.py: the evaluation of data_result.txt.  It reads *)
(* the file twice, first for the configurations, then for the results of   *)
(* each of them, looks for stimuli under which both circuits failed alike, *)
(* and computes the diversity metric from that.                            *)
(*                                                                         *)
(* Lines are the entries of ResultFile, each as far as it was appended;    *)
(* the others match nothing.  Lists are sequences: list[i] of the script   *)
(* is list[i + 1].                                                         *)
(***************************************************************************)
EXTENDS ResultFile, FiniteSets

CONSTANTS
  Base,              \* of the numbers in the headers: 10
  MaxConfigs,        \* max_test_config_cases
  MaxInputs,         \* max_inputs_per_test
  Patterns,          \* pow(2, no_inputs_dut)
  Files              \* what data_result.txt may contain

ASSUME SizesAssumption ==
  /\ Base \in Nat \ {0, 1} /\ MaxConfigs \in Nat \ {0, 1}
  /\ MaxInputs \in Nat /\ Patterns \in Nat \ {0}
  /\ MaxConfigs <= Base * Base * Base

(* The string starts with the characters of the other one.                 *)
Begins(text, start) ==
  Len(start) <= Len(text) /\ \A p \in 1 .. Len(start) : text[p] = start[p]

(* A file of one campaign with as many inputs as the script expects, or    *)
(* more, stopped between any two appends or not at all: HostFiles shows    *)
(* that main.c writes such files.  The campaign had an injection point;    *)
(* and what is printed as a stimulus does not begin with a configuration,  *)
(* which has four times as many characters.                                *)
ASSUME FilesAssumption ==
  \A f \in Files :
    /\ CampaignFile(f, MaxInputs)
    /\ \A n \in DOMAIN f : f[n].config \in Seq(STRING) \ {<<>>}
    /\ \A l, n \in DOMAIN f :
         f[n].kind = "result" => ~Begins(f[n].input, f[l].config)

VARIABLES
  pc,                \* "headers", "results", "joint", "metric", "done", or
                     \* "error" when an exception ends the script
  file,              \* data_result.txt
  at,                \* the line, or the row, that the loop has reached
  b,                 \* the configurations, as the first pass collects them
  golden_results,    \* pairs of golden_results_dut_1 and _2
  test_results,      \* for each row pairs of test_results_dut_1 and _2
  joint_detectability_matrix,
  count_JD,
  Joint_detect,      \* times Patterns; -1 while it has no value
  D_metric           \* times Patterns * (MaxConfigs - 1); -1 likewise

vars == <<pc, file, at, b, golden_results, test_results,
          joint_detectability_matrix, count_JD, Joint_detect, D_metric>>

resultVars == <<golden_results, test_results>>
metricVars == <<count_JD, Joint_detect, D_metric>>

Row == 0 .. MaxConfigs - 1

(* Mutant: the metric computed over the golden configuration, too.         *)
FirstRowGolden == 0

(* range(1, max_test_config_cases): row 0 is the golden configuration.     *)
FirstRow == 1

Init ==
  /\ pc = "headers" /\ file \in Files /\ at = 1
  /\ b = <<>> /\ golden_results = <<>>
  /\ test_results = [i \in Row |-> <<>>]
  /\ joint_detectability_matrix = [i \in Row |-> <<>>]
  /\ count_JD = 0 /\ Joint_detect = -1 /\ D_metric = -1

-----------------------------------------------------------------------------
(* What the appends of an entry add to its line.  A header can be found    *)
(* from the third one on, "_Test_Configuration:", and has its text from    *)
(* the fourth one on; until then the script takes the empty text from it.  *)
(* In a result the first comma comes second, the stimulus behind a comma   *)
(* ninth, and the configuration behind a comma eleventh.                   *)
IsHeader(e) == e.kind = "header" /\ e.parts >= 3
HasText(e)  == e.parts >= 4
Text(e)     == IF HasText(e) THEN e.config ELSE <<>>

Behind(e) ==
  IF e.kind = "header" THEN {}
  ELSE {text \in {<<>>, e.input, e.config} :
          \/ text = <<>>     /\ e.parts >= 2
          \/ text = e.input  /\ e.parts >= 9
          \/ text = e.config /\ e.parts >= 11}

(* Mutant: every number up to it found.                                    *)
NumberUpTo(x, n) == x <= n

(* str(x)+"_Test_Configuration:" in line: the digits of x are the last     *)
(* ones of the number the line begins with.                                *)
NumberIn(x, n) ==
  \E unit \in {1, Base, Base * Base} :
    x = n % (unit * Base) /\ (unit = 1 \/ x >= unit)

(* The numbers found in the header of configuration n.                     *)
Found(n) == {x \in Row : NumberIn(x, n)}

(* b gets the configuration once for each, in their order, and b[x] is     *)
(* printed: it must be there by then.                                      *)
ReadHeader ==
  /\ pc = "headers" /\ at <= Len(file)
  /\ at' = at + 1
  /\ UNCHANGED <<file, resultVars, joint_detectability_matrix, metricVars>>
  /\ \/ /\ IsHeader(file[at])
        /\ LET found == Found(file[at].m)
           IN  /\ b' = b \o [n \in 1 .. Cardinality(found) |-> Text(file[at])]
               /\ pc' = IF \E x \in found :
                            x + 1 > Len(b) + Cardinality({y \in found : y <= x})
                          THEN "error" ELSE pc
     \/ /\ ~IsHeader(file[at])
        /\ UNCHANGED <<pc, b>>

SecondPass ==
  /\ pc = "headers" /\ at > Len(file)
  /\ pc' = "results" /\ at' = 1
  /\ UNCHANGED <<file, b, resultVars, joint_detectability_matrix, metricVars>>

-----------------------------------------------------------------------------
(* Mutant: the loop over i left at the first row found.                    *)
NamesFirst(line, i) ==
  \E text \in Behind(line) :
    Begins(text, b[i + 1]) /\ \A l \in 1 .. i : ~Begins(text, b[l])

(* str(",")+str(b[i]) in line: behind a comma the line goes on with the    *)
(* text.  Behind the other commas stand the names of the two results and   *)
(* the levels, each with a comma next.                                     *)
Names(line, i) == \E text \in Behind(line) : Begins(text, b[i + 1])

(* Every row that the line names gets its results.  The loop looks at all  *)
(* rows b should have.  No cut line is named: only the header that is last *)
(* has the empty text.                                                     *)
ReadResult ==
  /\ pc = "results" /\ at <= Len(file)
  /\ IF Len(b) < MaxConfigs
       THEN pc' = "error" /\ UNCHANGED <<at, resultVars>>
       ELSE LET pair == <<file[at].v0, file[at].v1>>
            IN  /\ golden_results' = IF Names(file[at], 0)
                                       THEN Append(golden_results, pair)
                                       ELSE golden_results
                /\ test_results' = [i \in Row |->
                     IF i # 0 /\ Names(file[at], i) THEN Append(test_results[i], pair)
                                                    ELSE test_results[i]]
                /\ at' = at + 1 /\ UNCHANGED pc
  /\ UNCHANGED <<file, b, joint_detectability_matrix, metricVars>>

BeginJoint ==
  /\ pc = "results" /\ at > Len(file)
  /\ pc' = "joint" /\ at' = 1
  /\ UNCHANGED <<file, b, resultVars, joint_detectability_matrix, metricVars>>

-----------------------------------------------------------------------------
(* Mutant: a failure of either copy taken for one of both.                 *)
EitherFails(row, golden, i) ==
  /\ row[i][1] # golden[i][1] \/ row[i][2] # golden[i][2]
  /\ golden[i][1] = golden[i][2]

(* Mutant: == for !=.                                                      *)
BothRight(row, golden, i) ==
  /\ row[i][1] = golden[i][1] /\ row[i][2] = golden[i][2]
  /\ golden[i][1] = golden[i][2]

(* Both copies differ from the golden results, and those agree.            *)
BothFail(row, golden, i) ==
  /\ row[i][1] # golden[i][1] /\ row[i][2] # golden[i][2]
  /\ golden[i][1] = golden[i][2]

(* Mutant: a loop over the results that are there.                         *)
ColumnsThere(row, golden) == (1 .. MaxInputs) \cap DOMAIN row \cap DOMAIN golden

Columns(row, golden) == 1 .. MaxInputs

(* One turn of the loop over k: count is appended each time it is raised,  *)
(* so that a row counts up to the number of its detections.                *)
DetectJointly ==
  LET k       == at
      row     == test_results[k]
      columns == Columns(row, golden_results)
      count   == Cardinality({i \in columns : BothFail(row, golden_results, i)})
  IN  /\ pc = "joint" /\ k < MaxConfigs
      /\ IF columns \subseteq DOMAIN row /\ columns \subseteq DOMAIN golden_results
           THEN /\ joint_detectability_matrix' =
                     [joint_detectability_matrix EXCEPT ![k] = [n \in 1 .. count |-> n]]
                /\ at' = k + 1 /\ UNCHANGED pc
           ELSE pc' = "error" /\ UNCHANGED <<at, joint_detectability_matrix>>
      /\ UNCHANGED <<file, b, resultVars, metricVars>>

BeginMetric ==
  /\ pc = "joint" /\ at = MaxConfigs
  /\ pc' = "metric" /\ at' = FirstRow
  /\ UNCHANGED <<file, b, resultVars, joint_detectability_matrix, metricVars>>

(* Mutant: the detections not taken off.                                   *)
DetectabilityFull(row) == Patterns

(* 1 - row[0] / 2^no_inputs_dut.                                           *)
Detectability(row) == Patterns - row[1]

(* One turn of the loop over m.                                            *)
AddRow ==
  /\ pc = "metric" /\ at < MaxConfigs
  /\ LET row == joint_detectability_matrix[at]
     IN  \/ /\ row = <<>>
            /\ count_JD' = count_JD + 1
            /\ UNCHANGED Joint_detect
        \/ /\ row # <<>>
           /\ Joint_detect' = Detectability(row)
           /\ UNCHANGED count_JD
  /\ at' = at + 1
  /\ UNCHANGED <<pc, file, b, resultVars, joint_detectability_matrix, D_metric>>

(* Joint_detect has no value, and the script fails, when no row was        *)
(* detected.                                                               *)
Compute ==
  /\ pc = "metric" /\ at = MaxConfigs
  /\ \/ /\ Joint_detect = -1
        /\ pc' = "error" /\ UNCHANGED D_metric
     \/ /\ Joint_detect # -1
        /\ D_metric' = Joint_detect + Patterns * count_JD
        /\ pc' = "done"
  /\ UNCHANGED <<file, at, b, resultVars, joint_detectability_matrix,
                 count_JD, Joint_detect>>

Next ==
  \/ ReadHeader \/ SecondPass \/ ReadResult
  \/ BeginJoint \/ DetectJointly
  \/ BeginMetric \/ AddRow \/ Compute

Spec == Init /\ [][Next]_vars

-----------------------------------------------------------------------------
(* What the script should compute, from the file alone.                    *)

Headers == {n \in DOMAIN file : IsHeader(file[n])}

(* The result lines that have their configuration.                         *)
Results == {n \in DOMAIN file : file[n].kind = "result" /\ file[n].parts >= 11}

ConfigOf(x) == Text(file[CHOOSE n \in Headers : file[n].m = x])

(* The lines that give the results of a configuration under stimulus i;    *)
(* those whose configuration begins with a text; and the first of them, as *)
(* a configuration may be tested more than once.                           *)
OwnLines(config, i) == {n \in Results : file[n].config = config /\ file[n].j = i}

LinesOf(text, i) == {n \in Results : Begins(file[n].config, text) /\ file[n].j = i}

FirstOf(text, i) ==
  {n \in LinesOf(text, i) : \A l \in LinesOf(text, i) : n <= l}

(* The file of a campaign as large as the script's constants say, or       *)
(* larger.                                                                 *)
Complete ==
  \A x \in Row :
    /\ \E n \in Headers : file[n].m = x
    /\ \A i \in 0 .. MaxInputs - 1 : OwnLines(ConfigOf(x), i) # {}

(* Both circuits gave the same wrong answer to stimulus i.                 *)
FailAlike(text, i) ==
  \E n \in FirstOf(text, i), g \in FirstOf(ConfigOf(0), i) :
    /\ file[n].v0 # file[g].v0 /\ file[n].v1 # file[g].v1
    /\ file[g].v0 = file[g].v1

Detections(text) == {i \in 0 .. MaxInputs - 1 : FailAlike(text, i)}

JointDetections ==
  {d \in (1 .. MaxConfigs - 1) \X (0 .. MaxInputs - 1) : FailAlike(ConfigOf(d[1]), d[2])}

(* The mean of 1 - k/2^n over the configurations behind the golden one,    *)
(* where k of the 2^n stimuli detect nothing because both circuits fail    *)
(* alike; in the units of D_metric, in which each of the pairs of a        *)
(* configuration and a stimulus counts 1.                                  *)
MeanDiversity == Patterns * (MaxConfigs - 1) - Cardinality(JointDetections)

Counted == pc \in {"metric", "done"}

(* Every list holds values of its kind, and no loop passes its bound.      *)
TypeOK ==
  /\ pc \in {"headers", "results", "joint", "metric", "done", "error"}
  /\ at \in 1 .. Len(file) + MaxConfigs
  /\ \A i \in Row : Len(test_results[i]) <= Len(file)
  /\ \A i \in Row : Len(joint_detectability_matrix[i]) <= MaxInputs
  /\ count_JD \in 0 .. MaxConfigs - 1
  /\ Joint_detect \in -1 .. Patterns

(* The rows of the two dimensional lists are rows of b, whatever b holds,  *)
(* and their columns stimuli: a row has one detection for each stimulus to *)
(* which, when its configuration was tested first, both circuits gave the  *)
(* same wrong answer.  The script says so of each one it finds             *)
(* (d_metric.py:58-65).                                                    *)
DetectionsAsRecorded ==
  Counted => \A k \in 1 .. MaxConfigs - 1 :
    Len(joint_detectability_matrix[k]) = Cardinality(Detections(b[k + 1]))

(* No metric comes of a file that a stopped campaign left incomplete,      *)
(* unless it lacks nothing of the rows evaluated, each of which has a      *)
(* result for every stimulus; or the text of a row begins the text of      *)
(* another configuration, whose results it takes (d_metric.py:38, 61).     *)
CompleteRowsOnly ==
  Counted => \A k \in Row :
    \/ \A i \in 0 .. MaxInputs - 1 : OwnLines(b[k + 1], i) # {}
    \/ \E n \in Results :
         Begins(file[n].config, b[k + 1]) /\ file[n].config # b[k + 1]

(* The empty text of a header that was cut before its configuration is     *)
(* behind a comma in every result line, so that the script prints a metric *)
(* with a row of which no result was recorded.  That row takes the golden  *)
(* results, is compared with itself, and counts as never detected          *)
(* (main.c:291-292, d_metric.py:38, 61, 69).                               *)
CutHeaderUndetected ==
  Counted => \A k \in 1 .. MaxConfigs - 1 :
    b[k + 1] = <<>> => joint_detectability_matrix[k] = <<>>

(* "Test Configuration No " + str(x) + ":" + b[x] (d_metric.py:31): b has  *)
(* the configurations at the places of their numbers.                      *)
NumberedUpTo(last) ==
  pc = "results" /\ Complete => \A x \in Row : x <= last => b[x + 1] = ConfigOf(x)

NumberedAsPrinted  == NumberedUpTo(MaxConfigs)

(* It does as long as the numbers have one digit, and for the first one of *)
(* two digits (d_metric.py:26-31).                                         *)
FirstRowsNumbered == NumberedUpTo(Base)

(* On a complete file the script fails only when the circuits are as       *)
(* diverse as can be: no configuration it evaluates was ever detected      *)
(* jointly, and Joint_detect has no value (d_metric.py:72, 75).            *)
FailsOnlyWhenDiverse ==
  pc = "error" /\ Complete => \A k \in 1 .. MaxConfigs - 1 : Detections(b[k + 1]) = {}

(* The number printed is the metric: the mean of the joint detectabilities *)
(* of the configurations.                                                  *)
MetricIsMean == pc = "done" => D_metric = MeanDiversity

(* It is when every configuration stands at its number and only one was    *)
(* detected jointly, by a single stimulus (d_metric.py:67-76).             *)
MetricOfOneDetection ==
  /\ pc = "done" /\ Complete
  /\ \A x \in Row : b[x + 1] = ConfigOf(x)
  /\ Cardinality(JointDetections) = 1
  => D_metric = MeanDiversity

(* In general the number printed tells no more than how many rows were     *)
(* detected jointly: all of these but one count for nothing, and that one  *)
(* as if a single stimulus had detected it (d_metric.py:67-76).            *)
DetectedRows == {k \in 1 .. MaxConfigs - 1 : Detections(b[k + 1]) # {}}

MetricCountsRows ==
  pc = "done" =>
    /\ DetectedRows # {}
    /\ D_metric = Patterns * (MaxConfigs - Cardinality(DetectedRows)) - 1
==============================================================================
