------------------------------ MODULE Campaign ------------------------------
(***************************************************************************)
(* What main.c promises of data_result.txt, without files, strings, words  *)
(* or clocks: a campaign appends a matrix of results, row by row, each row *)
(* under the header of its configuration, and each result is an answer of  *)
(* the two circuits to the configuration and the stimulus it names.  Each  *)
(* entry takes several appends.  A campaign may be given up between any    *)
(* two of them and another one started; the entry it left is not finished. *)
(***************************************************************************)
EXTENDS ResultFile

CONSTANTS
  Sizes,             \* [tests, inputs] of the campaigns
  Configs, Stimuli,  \* what a row and a column may be
  Answered(_, _)     \* the pairs of results a configuration and a stimulus
                     \* may give

VARIABLES
  log,               \* the entries: headers and result lines
  phase,             \* "idle", "running" or "ended"
  size,              \* of the campaign in progress
  row, col           \* headers of this campaign, and results of its last row

vars == <<log, phase, size, row, col>>

NoSize == [tests |-> 0, inputs |-> 0]

Init ==
  /\ log = <<>> /\ phase = "idle" /\ size = NoSize /\ row = 0 /\ col = 0

Begin ==
  /\ phase = "idle" /\ phase' = "running"
  /\ size' \in Sizes
  /\ UNCHANGED <<log, row, col>>

MoreRows    == row < size.tests
LastWhole   == Whole(log[Len(log)])
RowComplete == col = size.inputs /\ LastWhole

(* The header of the row in progress stands col lines above the last one.  *)
RowHeader == log[Len(log) - col]

Header ==
  /\ phase = "running" /\ MoreRows
  /\ row > 0 => RowComplete
  /\ row' = row + 1 /\ col' = 0
  /\ \E c \in Configs :
       log' = Append(log, [kind |-> "header", m |-> row, config |-> c, parts |-> 1])
  /\ UNCHANGED <<phase, size>>

Result ==
  /\ phase = "running" /\ row > 0 /\ LastWhole /\ col < size.inputs
  /\ col' = col + 1
  /\ \E s \in Stimuli : \E v \in Answered(RowHeader.config, s) :
       log' = Append(log, [kind |-> "result", j |-> col, v0 |-> v[1], v1 |-> v[2],
                           input |-> s, config |-> RowHeader.config,
                           parts |-> 1])
  /\ UNCHANGED <<phase, size, row>>

(* The next append of the entry begun last.                                *)
Write ==
  /\ phase = "running" /\ row > 0 /\ ~LastWhole
  /\ log' = Continued(log)
  /\ UNCHANGED <<phase, size, row, col>>

End ==
  /\ phase = "running" /\ row = size.tests
  /\ row > 0 => RowComplete
  /\ phase' = "ended"
  /\ UNCHANGED <<log, size, row, col>>

GiveUp ==
  /\ phase # "idle" /\ phase' = "idle"
  /\ size' = NoSize /\ row' = 0 /\ col' = 0
  /\ UNCHANGED log

Next == Begin \/ Header \/ Result \/ Write \/ End \/ GiveUp

Spec == Init /\ [][Next]_vars

-----------------------------------------------------------------------------
(* Every variable holds a value of its kind.                               *)
TypeOK ==
  /\ phase \in {"idle", "running", "ended"}
  /\ size \in Sizes \cup {NoSize}
  /\ row \in 0 .. size.tests /\ col \in 0 .. size.inputs
  /\ \A n \in DOMAIN log : log[n].kind \in {"header", "result"}

(* Each result stands below a header with its configuration, as far down   *)
(* as its number says, with nothing but results between the two, however   *)
(* many campaigns were given up: the header tells what a block of lines    *)
(* belongs to, and main.c:442-445 names the same in each line.             *)
EachUnderItsHeader ==
  \A n \in DOMAIN log : log[n].kind = "result" =>
    LET h == n - 1 - log[n].j
    IN  /\ h \in DOMAIN log /\ log[h].kind = "header"
        /\ log[h].config = log[n].config
        /\ \A k \in h + 1 .. n - 1 : log[k].kind = "result"

(* A campaign that ended has appended a whole matrix: for each of the      *)
(* configurations asked for its header, by its number, and a line for each *)
(* stimulus, in order, none of them cut.  That is what the evaluation      *)
(* script expects to find (main.c:286-507).                                *)
MatrixWhenEnded ==
  phase = "ended" =>
    LET lines == size.inputs + 1
        first == Len(log) - size.tests * lines
    IN  /\ first >= 0
        /\ \A n \in first + 1 .. Len(log) : Whole(log[n])
        /\ \A x \in 0 .. size.tests - 1 :
             /\ log[first + x * lines + 1].kind = "header"
             /\ log[first + x * lines + 1].m = x
             /\ \A i \in 0 .. size.inputs - 1 :
                  /\ log[first + x * lines + 2 + i].kind = "result"
                  /\ log[first + x * lines + 2 + i].j = i

(* A campaign that has found the result file empty, so that only entry 1   *)
(* can be a header 0, writes a file of the form that the evaluation script *)
(* is given; between whichever two appends it is stopped, this is the file *)
(* it leaves (main.c:286-507, d_metric.py:22-48).                          *)
FileOfOneCampaign ==
  /\ row > 0
  /\ \A n \in HeadersOf(log) : log[n].m = 0 => n = 1
  => \A inputs \in 0 .. size.inputs : CampaignFile(log, inputs)
===============================================================================
