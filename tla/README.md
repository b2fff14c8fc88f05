# Verification of the design-diversity fault-injection bench

The repository measures how differently two gate-level structures of one
function fail under the same injected faults. An ARM host program
(`Software/main.c`) drives a test bench in the FPGA fabric (`Hardware/*.v`)
through two memory-mapped PIO words and appends what the two circuits answer to
`data_result.txt`; a script (`Python Script/d_metric.py`) computes the D-metric
from that file. The measurement is only worth something if every line of the
file is what the two circuits really answered *for the fault configuration and
the stimulus that line names*, and if the script computes the metric of those
lines. That is what this development is about.

## 1. Inventory

| part | state | operations | interacts through |
|---|---|---|---|
| `CTRL_UNIT.v`, serialiser | 5-bit `count`, `scan_chain`, two feedback bits | one clocked block: send a bit or rewind | `scan_enable`, `data` from PIO; `scan_chain` to the shift register |
| `shift_large.v`, shift register | 16-bit `tmp`, 5-bit `count` | one clocked block: take a bit, clear, hold | enable and bit from the serialiser, `sipo_clear` from PIO |
| `TS_FI_MUX.v`, `mux.v`, `tri_buffer.v`, injection points | none | combinational | select bits from `tmp`, `TRI_E` from PIO |
| `ma_1.v`, `ma_2.v`, circuits under test | none | combinational | injected signals; results to PIO |
| `system_w_scan.v`, `HPSFPGA.vhd` | none | wiring | port map onto bits of the two PIO words |
| `hps_0.h`, PIO bridge | 23-bit output register | written and read by the host | 19-bit read-back word |
| `Software/main.c` | four answers, loop counters, control string, static line buffers, text files | `in_file`, two loops, five cases per test | prompts, PIO words, files, `usleep` |
| `d_metric.py` | lists of configurations and results, the matrix of joint detections | two passes over `data_result.txt`, joint search, metric | that file only |

Not part of the program: the vendored headers in `Software/`, the generated
Quartus files, the `.bak` and `ma_*.vhd` files that `HPSFPGA.qsf` does not
compile, and `Hardware/main.c`, an older copy of the host program that does not
compile.

### What is hard here

* **No synchronisation.** The clock makes 50 million edges per second; the host
  writes a word and sleeps. It never reads `CTRL_FB`. Every write meets the
  serialiser at an arbitrary phase.
* **A counter that wraps.** `count >= 5'b0` is always true, so the serialiser
  never stops; it wraps from 0 to 31 and selects bits 31 .. 16 of a 16-bit word.
* **Blocking assignments in two clocked blocks.** As simulated text the order of
  the two blocks at one edge is open; the circuit uses the levels before it.
* **Positional wiring.** `CTRL_UNIT`'s two feedback outputs are connected crossed
  with respect to their names.
* **Persistence.** The fabric keeps its registers, and the text files their lines,
  when the program is stopped and started again. A text and its newline are two
  writes, a header is five and a result line twelve, each with its own `fopen`
  and `fclose`: a stop between two of them leaves a part in the file.
* **One static buffer.** `dec2bin_input_files` writes stimuli and configurations
  into the same 33 cells and never terminates them.
* **Addresses relative to `strlen`.** Every cell of the control string is addressed
  from the current end of the string, into which file contents are copied.
* **Matching by substring, loops over constants.** The script finds a header by the
  last digits of its number, assigns results to stimuli by position, and runs over
  sizes that the file need not have.

The complete list, with the line at which each bites and the properties that
cover it, is `hazards` in `PROJECT.json`.

### What makes each part correct

* scan path: a completed scan has loaded the configuration, and nothing moves it
  until the next clear; a scan starts on an empty register;
* injection and circuits: a selected point is stuck at its level; both circuits
  are one function;
* host program: the words it writes follow the scan protocol; it tests the lines
  it should, names them truthfully and in order, and ends;
* the whole: each result line is the response to what it names, and the circuits
  are never driven while the faults in front of them change;
* script: what it takes for a joint detection is recorded in the file, a metric is
  printed only when no result it needs is missing, and it is the mean. (Of the
  three only the first holds; the properties say what holds of the others.)

## 2. Modules

```
FourState          four-state levels and gates (Verilog's operators)
  Vector           width of the word
    CtrlUnit       CTRL_UNIT.v       open component: CtrlEdge(data, scan_enable)
    ShiftLarge     shift_large.v     open component: SipoEdge(si, shift, clear)
      SystemWScan  system_w_scan.v   one clock edge of both, wiring, edge order
        ScanChain  the scan path under the host's five writes; properties, Inv
          ScanChainProofs            theorems
          MCScanChain                instance for TLC
  FaultInjection   TS_FI_MUX.v, mux.v, tri_buffer.v, ma_1.v, ma_2.v
    FaultBench     all faults, stimuli, tri-state levels; properties
      FaultBenchProofs               theorems

ResultFile         entries of data_result.txt and the appends they are made of;
                   the form of the file when one campaign has written it
Campaign           abstract: the matrix of results a campaign appends
                   (extends ResultFile)
  CampaignProofs                     theorems
HostProgram        main.c            open component: prompts, files, loops, strings
  HostView         main.c as Campaign sees it: the refinement mapping
    HostTextProofs                   lemmas: strings, files, words
      HostViewProofs                 the inductive invariant of the program
    HostFiles      main.c alone, any answers of the fabric; implements Campaign
      HostFilesProofs                theorems (with HostViewProofs)
      MCHostFiles                    instances for TLC
TestBench          HostView + SystemWScan + FaultInjection, bridge, clock;
                   implements ScanChain and Campaign
  TestBenchProofs                    theorems (with HostViewProofs)
  MCTestBench                        instances for TLC

DMetric            d_metric.py       over a file of Campaign's entries
                   (extends ResultFile)
  DMetricProofs                      theorems
  MCDMetric                          instances for TLC
```

### Correspondence

**Fabric.** `CtrlEdge` and `SipoEdge` are the two `always` blocks, one disjunct per
branch. `filled` is `shift_large`'s `count` (the name `count` is taken by the
serialiser's). `Edge` composes them: with `EdgeOrder = "registered"` the shift
register samples the levels before the edge, as synthesised flip-flops do; with
`"ctrl_first"` it sees the serialiser's new outputs, as a simulator may that runs
that block first. (The other simulation order equals `"registered"`.) A register
that was never written, and a bit selected beyond its vector, is `"x"`: either
level is a legal result of the build, and whoever reads it gets either
(`Sampled`).

**Host program.** In `HostProgram` one action is one case of `main.c`'s `switch`,
one call that writes a text file, or one head of a loop. `Start` is `main` up to
`in_file`'s prompts; `answers` are the four globals `scanf` fills, any record that
`AnswersAssumption` admits. `WriteText` is one turn of one of `in_file`'s loops:
`rand()`, the conversion of `dec2bin_input_files` into the shared buffer, and the
write of the text; `WriteNewline` is the separate call that ends the line. The
files are sequences of lines, a line a sequence of characters, because the
addressing from `strlen` and the two-step lines are what could go wrong.
`main_string` is the 33 cells of the C array, `WordOf` is `dec_2_int`,
`Decimal2Binary` is `decimal_to_binary`. `rand()` may return any number of
`Rands`: the code never seeds it, so that a second run repeats the numbers of the
first, which is one of the behaviours. `Tails` is what may lie in memory behind
`input_data`, which has no terminating zero and is printed as a string.
`Kill` stops the program anywhere; its memory is new at the next start, files and
PIO keep what they hold. The console and the log file are left out.

Every append to `data_result.txt` is a step. An entry of the file is a header or a
result, with the texts it is given, and `parts` counts the appends it has got:
`BeginConfiguration` makes the first of a header (the two newlines, `main.c:289`)
and `WriteHeader` the four that follow (the number, the marker, the configuration
with its newline, the dashes); `Case5` makes the first of a result (its number,
`main.c:434`) and `WriteResult` the eleven that follow. With the last one control
goes on to the inner loop, or to `j++`. The texts cannot change between the appends
of an entry: they are read again from a file and from cells that nothing writes in
the meantime.

`fgets` reads at most 255 characters. Each run that is stopped between a text and its
newline makes an unfinished line longer by at most 32, so that `LineRead`, which
takes lines whole, is the code for up to seven starts (`RunsAssumption`).

`usleep` is modelled by what it guarantees: the program does not go on before
`Settle` edges have passed, and any number more may pass. That is the fact the
code relies on; `Settle > Width` is all that is assumed of it. POSIX lets an
implementation refuse a `usleep` of a million microseconds or more; that it is
honoured is part of the assumption, because `main.c` does not check the result.

The constant `ScanWhileClearing` is the one bit in which the first word of the
code (`main_string` at `main.c:298`, `0x007FFFFF`) differs from the one listed in
its comment (`main.c:531`, `0x007FFFFD`): `"1"` is the code.

**Campaign** says what `main.c` promises of `data_result.txt` with none of the above:
`Begin`, `Header`, `Result` and `Write` (the next append of either), `End`, `GiveUp`. Its parameter `Answered(c, s)` is the
set of pairs of results that a configuration and a stimulus may give.
`HostFiles` implements it with every pair allowed, `TestBench` with the pairs the
gates give. `HostView` maps the state; it forgets what a line holds beyond the
fabric's 16 and 4 characters. `HostFiles` implements it a second time with the texts
as they are printed, whatever they hold (`Printed`); what is said of the form of the
file is said under that mapping.

**Result file.** `CampaignFile` is the interface between the two programs: each
result follows its header or the result before it and has the same text, headers
are numbered upwards without a gap, a header follows only a complete row, and only
the entry written last may lack some of its appends. It is a predicate on files, the
translation of no code. `FilesAssumption` says that `DMetric` reads such a file;
`FileOfOneCampaign`, a property of `HostFiles`, says that `main.c` leaves one,
between whichever two appends it is stopped, when it has found none.
`FilesAssumption` asks two things more: the campaign had at least one injection
point, so that no configuration is empty, and what is printed as a stimulus does not
begin with a configuration. (Behind the four characters of the stimulus a
configuration could only lie in memory that `main.c` does not own.)

**Script.** `DMetric` keeps the script's lists under their names. One action is one
line of a pass or one turn of an outer loop; an exception sets `pc` to `"error"`
(index out of range, `Joint_detect` without a value). A line is matched by what the
file has of it: a header can be found from its third append on and has its text
from the fourth one on; before that `split(":")` gives the empty text, which
goes into `b` (`Text`). `Names` is the substring test of the second pass: `","` and the
text of a row occur in a line when what stands behind one of its commas begins with
that text. So a row takes the lines of every configuration that its own text begins,
and the empty text takes all of them. Quotients are kept times their denominators.
`Base` is the base of the decimal numbers in the headers, so that a small base
brings the second digit into a small file.

Mutated definitions stand before the definition they mutate, marked `Mutant`; no
specification uses them. They show that the properties can fail.

## 3. Runs

| run | question | instance | states |
|---|---|---|---|
| `scan_code` | what does a scan load, with the code's words? | width 4, all 16 configurations, restarts anywhere | 13 k |
| `scan_code_loads` | does the code load the configuration? **No** | the same | violation |
| `faults` | are the circuits one function, are faults stuck-at? | complete: 8 select bits, 4 signals, `TRI_E` | 8192 |
| `host_files` | do files, buffer, string and results survive restarts and other answers, and has the result file the form the script needs? | 2 starts, 3 sets of answers, 2 random numbers, stopped between any two writes | 467 k |
| `host_short_lines` | what becomes of the addresses when a line is shorter than its field? | 2 starts, 8, 7, 5 and no points | 31 k |
| `host_stale_files` | do the tests use the files "created"? **No** | the answers of `host_files` | violation |
| `bench_code` | does the program on the full-width fabric keep the scan protocol, and does each of its steps take it nearer to its end? | width 16, golden and one configuration, 1 stimulus | 44 k |
| `bench_documented` | are the lines true with the documented word? | 2 or 3 configurations out of golden and two, 1 or 2 stimuli out of two | 64 k |
| `bench_restart` | also after a stop anywhere, and in the other edge order? do driven circuits stay as they are? is each scan over in the end? | 2 starts, `ctrl_first` | 43 k |
| `metric` | what does the script get right, on which files? | base 2, 4 configurations, 2 stimuli, complete and cut files, texts that begin one another | 434 k |
| `metric_numbers` | is the list it prints the list of the headers? **No** | base 10, 12 configurations | violation |
| `metric_mean` | is the number it prints the metric? **No** | base 3, 4 configurations | violation |

**Bounds.** *Width 4* in the scan runs: the counter's range is twice the width, as
in the code (32 for 16), so every phase, the wrap and the bits out of range occur;
the proofs cover every width. *Settle* is the least value the assumption admits,
and as more edges may always pass, larger values only remove behaviours. The
full-width runs use few configurations: which faults are injected does not matter
to the loops, and the response to all 256 of them is what `faults` covers. *Two
starts* (`MaxRuns`) are enough for every interference of one run with the files
and registers of another, since a third run finds the same kinds of leftovers.
The *answers* of `host_files` are the fabric's own numbers, a campaign without
stimuli, and 18 inputs, whose stimuli are longer than a configuration and so
leave their tail in the static buffer. Those of `host_short_lines` add seven points
(the newline of a line and its terminating zero are copied into the field), none at
all (a line is only a newline), and five points behind 15 inputs (the golden line is
shorter than the field, and the random ones, with the tail of a stimulus, have as
many characters as it has cells). In both the fabric answers one constant level
(`Levels`), because no control in `main.c` depends on it. The bench run with the
code's word uses one start: with free-running phases two starts multiply to
millions of states. For either first word, each edge order and any number of
starts the theorems of `ScanChainProofs` and `TestBenchProofs` take over.
The *files* of `metric` are all campaigns of the golden and three configurations
out of two (so that configurations repeat), one with a configuration more than
the script asks for and the golden line twice, with every response to two
stimuli, a campaign cut behind any append of a header and in each part of a result
line that may count, all of these also with texts of which one begins another (as the
tails of longer stimuli make them), and campaigns with a stimulus more than
the script asks for, in which a repeated configuration need not answer as before.
Base 2 gives the fourth header a
second digit and keeps the third on the boundary; `metric_mean` uses base 3, with
which the defect of the numbers does not occur among four headers.

**Fairness** (`FairSpec`, used for `ScanCompletes`): weak fairness of `Tick`, the
clock of the fabric, which never stops. Nothing is assumed of the program, nor of the
user who starts or stops it: `main.c` would not go on before its sleep is over, and
that is all that keeps it from cutting a scan short. That the program ends is not
stated as liveness. Its loops are counting loops, and what could keep them from
ending is a counter that is not advanced, which `NearerTheEnd` excludes step by step
and without any fairness.

**Deadlock** is checked except in the host and metric runs, where the program ends.

### What the runs show

* `LoadedWindow`: whatever the phase, the register receives `Width` *consecutive*
  bits of the serialiser's output; no bit is lost or doubled. `LoadFrozen`: and
  keeps them although the serialiser goes on. `ScanStartsEmpty` and the restarts:
  no run scans onto the remains of another.
* `ConfigLoaded` **fails for the code** (finding 1). Case 1 keeps `SCAN_ENABLE`
  high, so the counter runs on during the clear and the scan starts anywhere in
  its 32 positions. With the documented word the counter is rewound and
  `ConfigLoaded` holds. The golden configuration is all ones, so its rotations
  look right. The recorded campaign agrees with this: compared with the response
  to the configuration each line names, 4308 of the 7376 lines of
  `data_result.txt` match; the golden block matches in all its 16 lines, and each
  of the other 460 blocks has a mismatch.
* `Acknowledged`: `CTRL_FB` is high when step 3 of the documented list would look
  at it; but, being set once and cleared nowhere, it would be high as well if the
  scan had not begun, and says nothing of a sleep that ends early; the sleep is an
  assumption.
* `CopiesAgree`, `StuckAtFaults`: the two circuits are one function, namely
  `(b | c) & a & d` of the signals that are let through.
* `ScanCompletes`: from the word that starts a scan on, the clock alone takes all
  bits into the register, however an earlier run left it; only a stop of the
  program comes before that.
* `NoReadPastEnd`, `GoldenFirst`, `WordAsNamed`: the host's string and file handling
  is right even when a stop leaves an unfinished line, and when longer stimuli leave
  their tails in the buffer. `FilesAreCreated` fails: the files are appended to
  (finding 2).
* `StringEndsWithLine`: a line shorter than its field ends the control string where
  the line ends, so that the cells of the later cases, addressed from the end, are
  others than those of the bits they are meant for. It is the one property of the
  strings that speaks of fewer than eight points; `WordAsNamed` does not hold there.
* `ImplementsCampaign` in `host_files`: the result file is the matrix of
  `Campaign`, append by append and through any number of stops; `EachUnderItsHeader`
  and `MatrixWhenEnded` say the two things the evaluation needs of it. The matrix has
  `num_test_comb` rows, the golden one included: the last random configuration in
  the file is never tested. `FileOfOneCampaign`: a campaign that found no result
  file leaves one in the form that the script is given, between whichever two of its
  appends it is stopped. `NearerTheEnd`: each step of the program brings it nearer to
  its end, in the order of the loops.
* `ImplementsScanChain`: the detailed composition, with the words built character
  by character, implements `ScanChain` under the port map, from every start and
  after every stop.
* `ImplementsCampaign` in the bench runs: with the documented word each line holds
  outputs of the two circuits for what it names, also across restarts. With the
  code's word nothing is left of what a line says: a window may consist of
  undetermined bits only, and then a line may say anything. What is left is the
  form of the file, which does not depend on the fabric (`host_files`).
* `StableWhileDriven`: from the moment the circuits are driven until the next
  test, or the next run's, the faults in front of them do not change.
* `DetectionsAsRecorded`: what the script counts as a joint detection is one in the
  file, for the lines that its text matches. `CompleteRowsOnly`: a metric is printed
  only when each row it evaluates has all its results, or takes those of another
  configuration, which its text begins. The second case is real: a campaign stopped
  between `main.c:291` and `292` leaves a header without a configuration, the
  empty text of which every result line matches, and the script prints a metric for a
  row of which nothing was recorded. `CutHeaderUndetected` says what that row does to
  the number: it is compared with the golden results, its own, and counts as never
  detected.
* `FailsOnlyWhenDiverse`: on a complete file the script fails only when no
  configuration was detected jointly. `FirstRowsNumbered` and `MetricOfOneDetection`
  delimit where its list and its number are right; `NumberedAsPrinted` and
  `MetricIsMean` **fail** (findings 3 and 4). `MetricCountsRows` says what the number
  is instead: with `r` rows detected jointly it is
  `Patterns * (MaxConfigs - r) - 1`, in units of
  `1 / (Patterns * (MaxConfigs - 1))`, however many stimuli detected each of them.

In the recorded campaign the list `b` has 1232 entries for 461 headers; the rows
the script evaluates hold 194 distinct of the 459 configurations they should, and 1221
of the 1232 lines it prints name another configuration than the header of that
number. It prints D = 0.4007, where the mean over the same rows is 0.938 (0.9345
over the configurations of the headers). Only 11 of the 16 stimuli of that
campaign are distinct, although the denominator is 2^4.

Four facts were met without a run of their own:

* The formula in the header comment of `ma_1.v`, `((a0 or b0) and c0) or (d0 and (c0 or
  b0))`, is not the one that `StuckAtFaults` finds: with `a` stuck at 0 the gates give
  0. `ma_2.v` agrees with the gates.
* With fewer than eight points a configuration is shorter than the 16 cells it is
  copied to, its newline gets into `main_string`, and `WordAsNamed` fails. It is
  the hypothesis `AnswersFit` of the theorems about words; `StringEndsWithLine`
  and its theorem do without. Likewise a failing `scanf` leaves the answers 0 and
  writes an empty golden line, which a later run tests.
* A stopped campaign *before* a complete one in the same file shifts the results of
  repeated configurations against the golden ones: `DetectionsAsRecorded` then
  fails. `FilesAssumption` excludes such files, and `FileOfOneCampaign` speaks of
  the first campaign of a file only.
* Because list entries are duplicated, a cut file can still give a metric: with 460
  rows asked for, 195 headers suffice. `CompleteRowsOnly` therefore speaks of the
  rows the script evaluates, not of the campaign.

## 4. Proofs

Checked by TLAPS, from the named assumptions on the constants and, where a
theorem says so, from

* `AnswersFit`: at least eight injection points were asked for (see above); not
  needed for `StringEnds`;
* `SizesAreNumbers`: `Campaign`'s sizes are natural numbers (for the program it
  follows from `AnswersAssumption`);
* `ScanWhileClearing = "0"`, in the theorems about the documented first word.

Those about the script assume its constants' `SizesAssumption` and the form of
the files it reads, `FilesAssumption`; neither says how many rows or stimuli a file
has, or behind which append it ends.

**Scan path** (`ScanChainProofs`): for every `Width >= 1`, `Settle > Width`, set of
configurations, both edge orders and both first words, `TypeCorrect`, then
`Invariance` (`Spec => []Inv`), and from it `WindowLoaded`, `DocumentedWriteLoads`,
`LoadIsFrozen`, `ScansStartEmpty` and `AcknowledgeIsHigh`. None of these is
inductive: they speak of a completed scan, and need to know what each edge of it
contributed. `Inv` adds

* `LevelsOfStage`: what the host has written, case by case;
* `Cleared`: after one edge of case 1 the register is empty and the serialiser is
  sending (code) or rewound (documented word);
* `Filling`: while the register fills it keeps step with the clock
  (`filled + Lag >= elapsed`, so that a sleep longer than the register fills it),
  the bit on the chain is the next of the window, and the bits taken are the
  window of length `filled` that ends at the serialiser's phase; with the
  documented word that phase is `Width - filled`;
* `Filled`: a completed scan leaves a full register with a window of a phase in
  `Phases`, which is `{0}` for the documented word: the configuration itself.

The step that carries the argument is `WindowShift`: a window of `n` bits from
phase `q + 1`, shifted up, with the bit from phase `q` below it, is one of `n + 1`
bits from `q`, the additions being those of the wrapping counter.

**Injection and circuits** (`FaultBenchProofs`): `CopiesAlwaysAgree` and
`FaultsAreStuckAt`, by way of the level behind an injection point
(`InjectedLevel`) and the gates (`SameFunction`).

**Campaign** (`CampaignProofs`): `ResultsUnderHeaders` and `CompleteMatrix`. The
invariant counts rows from the end of the log: the last row is `col` results under
its header, and above it stand `row - 1` complete ones; of the campaign in progress
all entries but the last are whole. `FileForEvaluation` (the theorem of
`FileOfOneCampaign`) adds `FileSoFar`: the header of the row in progress has the last
number, so that the next one continues it, and as long as a header 0 is only at the
top, the log is a `CampaignFile`, whatever part the last entry has.

**Host program.** `HostTextProofs` has the lemmas about its data: what the
conversion leaves in the buffer, what appending a text or a newline does to a file
of lines, which cell of the string becomes which bit of the word.
`HostViewProofs` proves the inductive invariant `IInv` of every step of the program,
with any word read back:

* `Control`: counters and program positions, with the answers;
* `Buffer`: the static buffer holds digits up to its end, and at least as many as
  the line last written;
* `Files`: every complete line of a file begins with one of the texts it may have,
  an unfinished one exists at most at the end, the first configuration is the
  golden one, and a run has added as many complete lines as it has written; that
  is why no line is missing behind what earlier runs left, and why the text of a
  new run only lengthens an unfinished line behind its first 16 or 4 characters;
* `Words`: the string has 32 characters, the PIO holds its word, and in each case
  the cells written so far are those of the lines in progress;
* `Log`: the last row of the result file is the one in progress, and its last entry
  has fewer appends than it needs exactly in the states between them.

`HostFilesProofs` draws from it `TypeCorrect`, `LinesAreThere`, `GoldenIsFirst` and
`WordIsNamed`, and proves that each step maps to one of `Campaign` or to a stutter,
once with the characters that reach the fabric (`Refinement`) and once with the texts
as printed. The theorems of `CampaignProofs`, under the second mapping, then hold of
the program: `EachUnderHeader`, `MatrixComplete` and `FileForEvaluation`. Quantified
over: all answers with at least eight points, all numbers of `rand()`, all tails in
memory, up to seven starts, and stops between any two writes.

`StringEnds` is the theorem of `StringEndsWithLine`, for every number of points from 0
to 15. It has an invariant of its own, `StringInv`, without `Files` and `Words`: of the
configuration file it asks only that there is a line to read, which is a sequence of
characters without a zero, so that the zero behind a short line is the first one in
the string (`Ends`).

**Whole system** (`TestBenchProofs`), for 16 bits, every sleep longer than a scan,
both edge orders, and the same quantification of the program. The words of the
program, read through the port map (`ScanCase1` .. `ScanCase4`), are those of
`ScanChain`: `ScanRefinement`. With it the invariant of the scan path holds of the
system, which gives `TypeCorrect`, `ConfigurationLoaded` (documented word) and,
with the invariant `Driven` (the buffers are on only in front of a full register
that is neither scanned nor cleared), `DrivenIsStable`. `Refinement` joins both
halves for the documented word: at the reading of a result the register holds the
configuration of the word by `ConfigurationLoaded`, the word holds configuration
and stimulus by `IInv`, and therefore the line appended is one `Campaign` allows
with the gates' answers. This is the property the bench exists for.

**Script** (`DMetricProofs`): `TypeCorrect`, `DetectionsRecorded`, `OnlyCompleteRows`,
`CutHeader`, `FirstNumbered`, `FailsWhenDiverse`, `RowsAreCounted` and `OneDetection`, for every base,
every number of rows and stimuli, and every file of one campaign, cut behind any
append or not. No
induction over the file is needed: the script's loops are the induction, and
`IInv` says what each has established up to the line or row it has reached:

* `ListSoFar`, in the first pass: each header read has brought the list behind its
  number (`ReachesRow`, so that `b[x]` is never missing); up to number `Base` it stands
  at its place (`StandsAtNumber`), because below `Base` no number is found twice
  (`NoneTwice`); the list's rows are configurations of the rows asked for;
* `RowsSoFar`, in the second: a row of results has stimulus `i` at place `i`, from the
  first line that gives it among those its text matches (`InPlace`), although the
  script only appends. This holds because a row that is not full is empty or ends with the line read last
  (`Growing`): the block of a configuration is never left before it is complete. It is here
  that the form of the file is used;
* `DetectionsSoFar`: the rows searched were full, have as many entries as the file has
  detections, and begin with 1, which is why every one of them counts as if one
  stimulus had detected it;
* `MetricSoFar`: `count_JD` is the number of rows without an entry, and
  `Joint_detect` has no value exactly as long as there are only such rows;
* `Echoes`, for `CutHeader` only: a row of empty text repeats the golden row, because
  both take the lines of the golden block, which come first, and no other line comes
  before the golden row is full;
* `FailsOnlyWhenDiverse` itself: the step that raises an exception has to establish
  it, since afterwards nothing of the lists is kept in the invariant's other parts.

`SizesAssumption` bounds `MaxConfigs` by the cube of the base, because `NumberIn` looks
at numbers of up to three digits; the script's 460 rows in base 10 are within it.
Together with `FileForEvaluation` of the program the chain is closed at the form of the
file, up to the two further conditions of `FilesAssumption`: what the script takes
from it is what the fabric and the program wrote into it.

**Model-checked only.** `ScanCompletes`: liveness is out of the prover's reach. And
`NearerTheEnd`, which is checked but not proved.

## 5. Not modelled, and why

* The vendored headers in `Software/` (about 30 000 of the repository's 31 300
  lines of code): declarations of the SoC library, of the C library and of
  unrelated tools (`bfd.h`, `argp.h`); no behaviour of this program. They are the
  reason why the lines the definitions stand for are a small share of the
  repository; of `main.c`, the Verilog sources that are compiled and `d_metric.py`
  the models leave out what this section lists.
* `Hardware/main.c`: an older copy of the host program that does not compile. The
  `.bak` and `ma_*.vhd` files are not compiled. Quartus projects, `.qsys`,
  `.sopcinfo` and pin assignments are generated or describe the platform.
* The log file, the console, LEDs and switches: nothing reads them back.
* Fewer than 4 inputs (writes behind `input_data`), more than 31 inputs or 15
  points (shift out of range, then a write behind `value_input_files`): undefined
  behaviour, excluded by `AnswersAssumption`.
* Failing `open`, `mmap`, `fopen`, `scanf`, `malloc`: the code does not handle them.
  Apart from undefined behaviour they stop the program, which `Kill` covers.
* A stop inside of one append: `fputs` of so short a string is one `write` at
  `fclose`. (Stops between the appends are modelled.)
* More than seven starts on one set of files, with which `fgets` may read an
  unfinished line in pieces.
* Metastability and timing closure of the fabric: below the level of the sources.

## 6. Plan

1. *Done:* scan path, injection and circuits, host program with all answers and
   each of its appends, composition, script on complete and cut files; the abstract
   `Campaign`; theorems about every part, and about the form of the file between
   program and script.
2. A stopped campaign in front of a complete one in `metric`, with the property
   weakened to the rows it does not shift.
3. `NearerTheEnd` as a theorem.
